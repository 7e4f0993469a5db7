------------------------------ MODULE TaskPool ------------------------------
(***************************************************************************)
(* wip/pbb/core.h and core.cpp: a work-stealing pool.  A task_functor owns *)
(* a function and a pointer to the counter of the task_group (or of the    *)
(* begin_arena) it belongs to; dropping it runs the function in the        *)
(* destructor of task_impl and then decrements the counter in the          *)
(* destructor of task_iface.  Every worker has a deque of them under a     *)
(* mutex and uses its back end only.  task_group::wait does not block its  *)
(* worker: it looks for tasks, its own or other workers', and runs them on *)
(* top of the waiting frame until the group's counter is zero.             *)
(*                                                                         *)
(* Body[t] is what function t does: a sequence of                          *)
(*   run u    tg.run(u) on t's task_group                                  *)
(*   call u   a plain call of u, or begin_arena(u), which on a worker      *)
(*            runs u in place with a counter nobody else sees              *)
(*   wait     tg.wait(), or the destructor of t's task_group.              *)
(***************************************************************************)
EXTENDS Naturals, Sequences, FiniteSets

CONSTANTS
  NumWorkers,  \* std::thread::hardware_concurrency()
  Task,        \* the functions
  Client,      \* the threads outside the pool
  Body,        \* [Task -> Seq(op)]
  Root,        \* [Client -> Task]: the function each client submits
  Outside,     \* the clients that call tg.run without begin_arena
  None         \* no function

Worker == 1..NumWorkers
Front == 1     \* workers.front()

Run(u) == [op |-> "run", fn |-> u]
Call(u) == [op |-> "call", fn |-> u]
Wait == [op |-> "wait", fn |-> None]
Ops == {Run(u) : u \in Task} \cup {Call(u) : u \in Task} \cup {Wait}

ASSUME PoolAssumption ==
  /\ NumWorkers \in Nat \ {0}
  /\ Body \in [Task -> Seq(Ops)]
  /\ Root \in [Client -> Task]
  /\ Outside \subseteq Client
  /\ Task \cap Client = {} /\ None \notin Task
  /\ \A c \in Outside : Body[Root[c]] = <<>>

(* Where t is submitted or called: by a step of a body, or by a client.    *)
Sites(t) ==
  {s \in UNION {{p} \X (1..Len(Body[p])) : p \in Task} : Body[s[1]][s[2]].fn = t}
  \cup {<<c, 1>> : c \in {k \in Client : Root[k] = t}}

(* Every function is used once, and every run is followed by a wait, which *)
(* the group's destructor sees to.                                         *)
ASSUME ForestAssumption ==
  /\ \A t \in Task : \E s \in Sites(t) : Sites(t) = {s}
  /\ \A p \in Task : \A i \in 1..Len(Body[p]) :
       Body[p][i].op = "run" => \E j \in i..Len(Body[p]) : Body[p][j] = Wait

(* That site, the function or client it belongs to, and whether t is run   *)
(* by a functor rather than called.                                        *)
Site == [t \in Task |-> CHOOSE s \in Sites(t) : TRUE]
Parent(t) == Site[t][1]
Submitted(t) == Parent(t) \in Client \/ Body[Parent(t)][Site[t][2]].op = "run"

VARIABLES
  queue,     \* queue[w]: workers[w].que, back end first
  calls,     \* calls[w]: w's call stack, innermost frame first
  pending,   \* pending[p]: the counter of p's task_group or begin_arena
  client,    \* "out", then "wait" (spinning in begin_arena) and "back", or the
             \* places Holding, "unwind" and "threw" of a run outside the pool
  runs       \* history: runs[t], how often t has been run to its end

vars == <<queue, calls, pending, client, runs>>

-----------------------------------------------------------------------------
(* Frames: the thread's endless loop, a function being run, a group's wait.*)
(* owned says that a functor runs the function, which ends by decrementing *)
(* a counter; pos is the next step of the body; time is look_for_task's.   *)
LoopFrame == [fn |-> "loop", task |-> None, at |-> "look", owned |-> FALSE,
              pos |-> 1, time |-> 0]
TaskFrame(t, owned) == [LoopFrame EXCEPT !.fn = "task", !.task = t, !.at = "body",
                                         !.owned = owned]
WaitFrame(p) == [LoopFrame EXCEPT !.fn = "wait", !.task = p, !.at = "check"]

Top(w) == calls[w][1]
At(w, fn, at) == Top(w).fn = fn /\ Top(w).at = at
Goto(w, f) == calls' = [calls EXCEPT ![w][1] = f]

(* The next step of the body that w runs is an op.                         *)
Doing(w, op) ==
  /\ At(w, "task", "body")
  /\ Top(w).pos <= Len(Body[Top(w).task])
  /\ Body[Top(w).task][Top(w).pos].op = op
Arg(w) == Body[Top(w).task][Top(w).pos].fn
Advanced(f) == [f EXCEPT !.pos = @ + 1, !.at = "body"]

(* A client in run owns the functor: spawn_task is about to throw, or the   *)
(* function has been run and the counter is about to be decremented.       *)
Holding == {"spawn", "release"}

(* p's task_group, or the counter on begin_arena's frame, still exists.    *)
Live(p) ==
  IF p \in Client THEN client[p] \in {"wait", "unwind"} \cup Holding
  ELSE \E w \in Worker : \E i \in 1..Len(calls[w]) :
         /\ calls[w][i].fn = "task" /\ calls[w][i].task = p
         /\ \E j \in calls[w][i].pos..Len(Body[p]) : Body[p][j] = Wait

Init ==
  /\ queue = [w \in Worker |-> <<>>]
  /\ calls = [w \in Worker |-> <<LoopFrame>>]
  /\ pending = [p \in Task \cup Client |-> 0]
  /\ client = [c \in Client |-> "out"]
  /\ runs = [t \in Task |-> 0]

-----------------------------------------------------------------------------
(* begin_arena from a thread outside the pool.                             *)
BeginArena(c) ==
  /\ client[c] = "out" /\ c \notin Outside
  /\ client' = [client EXCEPT ![c] = "wait"]
  /\ pending' = [pending EXCEPT ![c] = @ + 1]
  /\ queue' = [queue EXCEPT ![Front] = <<Root[c]>> \o @]
  /\ UNCHANGED <<calls, runs>>

ArenaReturn(c) ==
  /\ client[c] = "wait"
  /\ pending[c] = 0
  /\ client' = [client EXCEPT ![c] = "back"]
  /\ UNCHANGED <<queue, calls, pending, runs>>

(* tg.run outside the pool.  Faulty variant: it is counted once pushed.    *)
RunOutsideUncounted(c) ==
  /\ client[c] = "out" /\ c \in Outside
  /\ client' = [client EXCEPT ![c] = "spawn"]
  /\ UNCHANGED <<queue, calls, pending, runs>>

(* The counter is incremented ...                                          *)
RunOutside(c) ==
  /\ client[c] = "out" /\ c \in Outside
  /\ client' = [client EXCEPT ![c] = "spawn"]
  /\ pending' = [pending EXCEPT ![c] = @ + 1]
  /\ UNCHANGED <<queue, calls, runs>>

(* ... spawn_task throws, and unwinding drops the functor: ~task_impl runs *)
(* the function on this thread (a run in its body would throw once more,   *)
(* out of a noexcept destructor: PoolAssumption) ...                       *)
DropOutside(c) ==
  /\ client[c] = "spawn"
  /\ client' = [client EXCEPT ![c] = "release"]
  /\ runs' = [runs EXCEPT ![Root[c]] = @ + 1]
  /\ UNCHANGED <<queue, calls, pending>>

(* ... and ~task_iface decrements.                                         *)
ReleaseOutside(c) ==
  /\ client[c] = "release"
  /\ client' = [client EXCEPT ![c] = "unwind"]
  /\ pending' = [pending EXCEPT ![c] = @ - 1]
  /\ UNCHANGED <<queue, calls, runs>>

(* The task_group is unwound: if its counter is not zero, look_for_task    *)
(* throws in the wait of its noexcept destructor, and the process ends.    *)
UnwindGroup(c) ==
  /\ client[c] = "unwind"
  /\ client' = [client EXCEPT ![c] = IF pending[c] = 0 THEN "threw" ELSE "terminated"]
  /\ UNCHANGED <<queue, calls, pending, runs>>

-----------------------------------------------------------------------------
(* The steps of a function's body.                                         *)

(* Faulty variant: the task is not counted.                                *)
RunUncounted(w) ==
  /\ Doing(w, "run")
  /\ Goto(w, [Top(w) EXCEPT !.at = "push"])
  /\ UNCHANGED <<queue, pending, client, runs>>

(* tg.run(u): m_pending.fetch_add(1) ...                                   *)
RunCount(w) ==
  /\ Doing(w, "run")
  /\ pending' = [pending EXCEPT ![Top(w).task] = @ + 1]
  /\ Goto(w, [Top(w) EXCEPT !.at = "push"])
  /\ UNCHANGED <<queue, client, runs>>

(* ... and spawn_task pushes it on the worker's own deque.                 *)
RunPush(w) ==
  /\ At(w, "task", "push")
  /\ queue' = [queue EXCEPT ![w] = <<Arg(w)>> \o @]
  /\ Goto(w, Advanced(Top(w)))
  /\ UNCHANGED <<pending, client, runs>>

CallFn(w) ==
  /\ Doing(w, "call")
  /\ calls' = [calls EXCEPT ![w] = <<TaskFrame(Arg(w), FALSE), Advanced(@[1])>> \o Tail(@)]
  /\ UNCHANGED <<queue, pending, client, runs>>

CallWait(w) ==
  /\ Doing(w, "wait")
  /\ calls' = [calls EXCEPT ![w] = <<WaitFrame(@[1].task)>> \o @]
  /\ UNCHANGED <<queue, pending, client, runs>>

(* The function returns: to its caller, or into ~task_impl.                *)
FnReturn(w) ==
  /\ At(w, "task", "body")
  /\ Top(w).pos > Len(Body[Top(w).task])
  /\ runs' = [runs EXCEPT ![Top(w).task] = @ + 1]
  /\ IF Top(w).owned THEN Goto(w, [Top(w) EXCEPT !.at = "release"])
                     ELSE calls' = [calls EXCEPT ![w] = Tail(@)]
  /\ UNCHANGED <<queue, pending, client>>

(* ~task_iface: pending->fetch_sub(1).  If the counter is gone it hits     *)
(* memory the model does not contain.                                      *)
Release(w) ==
  /\ At(w, "task", "release")
  /\ LET p == Parent(Top(w).task) IN
       pending' = IF Live(p) THEN [pending EXCEPT ![p] = @ - 1] ELSE pending
  /\ calls' = [calls EXCEPT ![w] = Tail(@)]
  /\ UNCHANGED <<queue, client, runs>>

-----------------------------------------------------------------------------
(* look_for_task and wait.                                                 *)

(* One of workers.size() tries is over; after the last, the caller goes on:*)
(* the thread's loop with a new look_for_task, wait with its test.         *)
Tried(f) ==
  IF f.time + 1 < NumWorkers THEN [f EXCEPT !.time = @ + 1]
  ELSE [f EXCEPT !.time = 0, !.at = IF f.fn = "wait" THEN "check" ELSE "look"]

(* The first try is the worker's own deque, the others pick any at random. *)
Victims(w) == IF Top(w).time = 0 THEN {w} ELSE Worker

(* Faulty variant: pop forgets pop_back.                                   *)
LookCopies(w) ==
  /\ Top(w).at = "look"
  /\ \E v \in Victims(w) :
       /\ queue[v] # <<>>
       /\ calls' = [calls EXCEPT ![w] =
                      <<TaskFrame(queue[v][1], TRUE), Tried(@[1])>> \o Tail(@)]
  /\ UNCHANGED <<queue, pending, client, runs>>

Look(w) ==
  /\ Top(w).at = "look"
  /\ \E v \in Victims(w) :
       /\ queue[v] # <<>>
       /\ queue' = [queue EXCEPT ![v] = Tail(@)]
       /\ calls' = [calls EXCEPT ![w] =
                      <<TaskFrame(queue[v][1], TRUE), Tried(@[1])>> \o Tail(@)]
  /\ UNCHANGED <<pending, client, runs>>

LookInVain(w) ==
  /\ Top(w).at = "look"
  /\ \E v \in Victims(w) : queue[v] = <<>>
  /\ Goto(w, Tried(Top(w)))
  /\ UNCHANGED <<queue, pending, client, runs>>

WaitOver(w) ==
  calls' = [calls EXCEPT ![w] = <<Advanced(@[2])>> \o Tail(Tail(@))]

(* Faulty variant: wait does not help.                                     *)
WaitSpins(w) ==
  /\ At(w, "wait", "check")
  /\ IF pending[Top(w).task] = 0 THEN WaitOver(w) ELSE UNCHANGED calls
  /\ UNCHANGED <<queue, pending, client, runs>>

(* Faulty variant: off by one.                                             *)
WaitLeavesOne(w) ==
  /\ At(w, "wait", "check")
  /\ IF pending[Top(w).task] <= 1 THEN WaitOver(w)
                                  ELSE Goto(w, [Top(w) EXCEPT !.at = "look"])
  /\ UNCHANGED <<queue, pending, client, runs>>

(* wait(): the counter is zero, or look_for_task once more.                *)
WaitCheck(w) ==
  /\ At(w, "wait", "check")
  /\ IF pending[Top(w).task] = 0 THEN WaitOver(w)
                                 ELSE Goto(w, [Top(w) EXCEPT !.at = "look"])
  /\ UNCHANGED <<queue, pending, client, runs>>

-----------------------------------------------------------------------------
Step(w) ==
  \/ RunCount(w) \/ RunPush(w) \/ CallFn(w) \/ CallWait(w)
  \/ FnReturn(w) \/ Release(w)
  \/ Look(w) \/ LookInVain(w) \/ WaitCheck(w)

(* A client that has called begin_arena or run goes on.                    *)
ClientStep(c) == ArenaReturn(c) \/ DropOutside(c) \/ ReleaseOutside(c) \/ UnwindGroup(c)

Next ==
  \/ \E c \in Client : BeginArena(c) \/ RunOutside(c) \/ ClientStep(c)
  \/ \E w \in Worker : Step(w)

(* The operating system runs every thread again and again, and functions   *)
(* terminate.  Nobody is obliged to submit anything, and nothing is said   *)
(* of the victims the random numbers pick.                                 *)
Fairness ==
  /\ \A w \in Worker : WF_vars(Step(w))
  /\ \A c \in Client : WF_vars(ClientStep(c))

Spec == Init /\ [][Next]_vars /\ Fairness

-----------------------------------------------------------------------------
(* Properties                                                              *)

FrameOK(w, i) ==
  LET f == calls[w][i] IN
    /\ f.fn \in {"loop", "task", "wait"}
    /\ f.fn = "loop" <=> i = Len(calls[w])
    /\ f.fn = "loop" => f.at = "look" /\ f.task = None
    /\ f.fn = "wait" => /\ f.at \in {"check", "look"}
                        /\ calls[w][i + 1].task = f.task
    /\ f.fn = "task" => /\ f.at \in {"body", "push", "release"} /\ f.task \in Task
                        /\ f.owned <=> calls[w][i + 1].fn # "task"
    /\ f.pos \in 1..Len(IF f.fn = "task" THEN Body[f.task] ELSE <<>>) + 1
    /\ f.time \in 0..NumWorkers - 1

(* The shape of the state: functors run on top of a look_for_task, calls   *)
(* on top of their caller, a wait on top of the group's function; no       *)
(* counter wraps below zero, and unwinding terminates no process.          *)
TypeOK ==
  /\ queue \in [Worker -> Seq(Task)]
  /\ pending \in [Task \cup Client -> Nat]
  /\ client \in [Client -> {"out", "wait", "back", "unwind", "threw"} \cup Holding]
  /\ runs \in [Task -> Nat]
  /\ \A w \in Worker : \A i \in 1..Len(calls[w]) : FrameOK(w, i)

Queued(t) == {x \in UNION {{w} \X (1..Len(queue[w])) : w \in Worker} : queue[x[1]][x[2]] = t}
OnStack(t) == {x \in UNION {{w} \X (1..Len(calls[w])) : w \in Worker} :
                 calls[x[1]][x[2]].fn = "task" /\ calls[x[1]][x[2]].task = t}
Running(t) == {x \in OnStack(t) : calls[x[1]][x[2]].at # "release"}

InHand(t) == {c \in Client : Root[c] = t /\ client[c] = "spawn"}

(* However functors move between deques and threads, and when spawn_task   *)
(* throws, each function is in one deque, once, or on one call stack, once,*)
(* or held by one client in run, or has been run, once.                    *)
RunOnce == \A t \in Task :
  Cardinality(Queued(t)) + Cardinality(Running(t)) + Cardinality(InHand(t)) + runs[t] <= 1

(* A functor that is queued, running, or about to decrement its counter    *)
(* points to a task_group or a begin_arena that is still there.            *)
GroupOutlivesTasks == \A t \in Task :
  Queued(t) # {} \/ (Submitted(t) /\ OnStack(t) # {}) => Live(Parent(t))

(* The counter of a live group is the number of its functors not yet       *)
(* dropped, the one that run has counted and not pushed included.          *)
Counted(p) ==
  {t \in Task : /\ Submitted(t) /\ Parent(t) = p
                /\ \/ Queued(t) \cup OnStack(t) # {}
                   \/ \E w \in Worker : At(w, "task", "push") /\ Top(w).task = p /\ Arg(w) = t
                   \/ p \in Client /\ client[p] \in Holding}
PendingCounts == \A p \in Task \cup Client : Live(p) => pending[p] = Cardinality(Counted(p))

(* A begin_arena returns, however the waits nest on the workers' stacks    *)
(* and whomever the random numbers pick; a run outside the pool throws.    *)
ClientsReturn == \A c \in Client :
  (client[c] \in {"wait", "spawn"}) ~> (client[c] \in {"back", "threw"})

(* What the exceptions' message says: begin_arena enters worker 0.         *)
ArenaOnWorker0 == \A w \in Worker : \A i \in 1..Len(calls[w]) :
  calls[w][i].fn = "task" /\ Parent(calls[w][i].task) \in Client => w = Front
=============================================================================
