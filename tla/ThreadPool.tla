----------------------------- MODULE ThreadPool -----------------------------
(***************************************************************************)
(* conpool/ThreadPool.h: a fork-join pool.  Every worker thread owns a     *)
(* LIFO queue of tasks (ConcurrentQueue; its operations are atomic here)   *)
(* and runs _look_for_task again and again: first its own queue until it   *)
(* is empty, then one try at every other worker's queue in random order.   *)
(* A task that calls join pushes its functions on its worker's queue and,  *)
(* instead of blocking, looks for tasks itself until a latch on its frame  *)
(* says that they are done; so a worker's call stack nests tasks and       *)
(* joins.  A thread outside the pool enters it with arena, which blocks.   *)
(*                                                                         *)
(* The functions are a forest: Children[t] are the functions that the body *)
(* of t passes to join, or to arena when t is an ArenaTask.  A body without*)
(* children just returns.                                                  *)
(***************************************************************************)
EXTENDS Naturals, Sequences, FiniteSets

CONSTANTS
  NumWorkers,  \* m_threads.size()
  Task,        \* the functions handed to the pool
  Client,      \* the threads outside the pool
  Children,    \* [Task -> Seq(Task)]
  Root,        \* [Client -> Task]: what each client passes to arena
  ArenaTask,   \* the tasks whose body calls arena(fn) rather than join(fns...)
  Stop,        \* does anybody call request_stop?
  None         \* the task of a thread's outermost frame

Worker == 1..NumWorkers
Front == 1     \* m_threads.front()

ASSUME PoolAssumption ==
  /\ NumWorkers \in Nat \ {0}
  /\ Children \in [Task -> Seq(Task)]
  /\ Root \in [Client -> Task]
  /\ ArenaTask \subseteq {t \in Task : Len(Children[t]) = 1}
  /\ Task \cap Client = {} /\ None \notin Task
  /\ Stop \in BOOLEAN

(* What a task or a client waits for.                                      *)
Kids(p) == IF p \in Client THEN <<Root[p]>> ELSE Children[p]

(* Where t is passed to the pool.                                          *)
Sites(t) ==
  {s \in UNION {{p} \X (1..Len(Kids(p))) : p \in Task \cup Client} : Kids(s[1])[s[2]] = t}

(* Every function is passed to the pool by one call, once.                 *)
ASSUME ForestAssumption == \A t \in Task : \E s \in Sites(t) : Sites(t) = {s}

Site == [t \in Task |-> CHOOSE s \in Sites(t) : TRUE]
Parent(t) == Site[t][1]

VARIABLES
  queue,     \* queue[w]: m_threads[w].m_task_queue, top first
  calls,     \* calls[w]: w's call stack, innermost frame first; empty once it exited
  latch,     \* latch[p]: the count of the m_latch in p's join or arena
  client,    \* where each client is: "out", "wait" (in m_latch.wait()), "back"
  stopped,   \* request_stop has reached the workers 1..stopped
  runs,      \* history: runs[t], how often t has been run to its end
  late       \* history: late[w], tasks w started after its stop request

vars == <<queue, calls, latch, client, stopped, runs, late>>

-----------------------------------------------------------------------------
(* Frames.  pos counts the functions pushed while join pushes, and the     *)
(* entries of the thread's workers vector visited while it steals; seen is *)
(* the set of those entries, as far as the vector has not been reshuffled. *)
Frame(fn, t, at) ==
  [fn |-> fn, task |-> t, at |-> at, pos |-> 0, seen |-> {}, victim |-> Front,
   ready |-> FALSE]

Top(w) == calls[w][1]
At(w, fns, at) == calls[w] # <<>> /\ Top(w).fn \in fns /\ Top(w).at = at
Looking == {"entry", "join"}      \* the frames that run _look_for_task

(* Faulty variant: one flag for the whole pool.                            *)
StoppedAny(w) == stopped > 0

Stopped(w) == w <= stopped

(* Faulty variant: off by one.                                             *)
ReadyLastOne(f) == f.fn = "join" /\ latch[f.task] <= 1

Ready(f) == f.fn = "join" /\ latch[f.task] = 0        \* m_latch.try_wait()

(* The frame of p's join or arena exists: its latch and its functions are  *)
(* not dangling.                                                           *)
Live(p) ==
  IF p \in Client THEN client[p] = "wait"
  ELSE \E w \in Worker : \E i \in 1..Len(calls[w]) :
         calls[w][i].fn \in {"join", "arena"} /\ calls[w][i].task = p

Goto(w, f) == calls' = [calls EXCEPT ![w][1] = f]
Return(w) == calls' = [calls EXCEPT ![w] = Tail(@)]

Init ==
  /\ queue = [w \in Worker |-> <<>>]
  /\ calls = [w \in Worker |-> <<Frame("entry", None, "own")>>]
  /\ latch = [p \in Task \cup Client |-> 0]
  /\ client = [c \in Client |-> "out"]
  /\ stopped = 0
  /\ runs = [t \in Task |-> 0]
  /\ late = [w \in Worker |-> 0]

-----------------------------------------------------------------------------
(* arena(fn), called by a thread outside the pool: directly, or by join    *)
(* when m_tls.this_pool is null, fn being then the join of the functions.  *)
Arena(c) ==
  /\ client[c] = "out"
  /\ client' = [client EXCEPT ![c] = "wait"]
  /\ latch' = [latch EXCEPT ![c] = 1]
  /\ queue' = [queue EXCEPT ![Front] = <<Root[c]>> \o @]
  /\ UNCHANGED <<calls, stopped, runs, late>>

ArenaReturn(c) ==
  /\ client[c] = "wait"
  /\ latch[c] = 0
  /\ client' = [client EXCEPT ![c] = "back"]
  /\ UNCHANGED <<queue, calls, latch, stopped, runs, late>>

(* request_stop(): the workers' stop flags are set one after the other.    *)
RequestStop ==
  /\ Stop
  /\ stopped < NumWorkers
  /\ stopped' = stopped + 1
  /\ UNCHANGED <<queue, calls, latch, client, runs, late>>

-----------------------------------------------------------------------------
(* A task's body.                                                          *)

(* Faulty variant: the latch is one short.                                 *)
CallJoinShort(w) ==
  /\ At(w, {"task"}, "body")
  /\ LET t == Top(w).task IN
       /\ t \notin ArenaTask /\ Children[t] # <<>>
       /\ latch' = [latch EXCEPT ![t] = Len(Children[t]) - 1]
       /\ calls' = [calls EXCEPT ![w] =
            <<Frame("join", t, "push"), [Top(w) EXCEPT !.at = "finish"]>> \o Tail(@)]
  /\ UNCHANGED <<queue, client, stopped, runs, late>>

(* It calls join(fns...): the latch is set up on the join's frame.         *)
CallJoin(w) ==
  /\ At(w, {"task"}, "body")
  /\ LET t == Top(w).task IN
       /\ t \notin ArenaTask /\ Children[t] # <<>>
       /\ latch' = [latch EXCEPT ![t] = Len(Children[t])]
       /\ calls' = [calls EXCEPT ![w] =
            <<Frame("join", t, "push"), [Top(w) EXCEPT !.at = "finish"]>> \o Tail(@)]
  /\ UNCHANGED <<queue, client, stopped, runs, late>>

(* It calls arena(fn) from inside the pool: the worker itself will block.  *)
CallArena(w) ==
  /\ At(w, {"task"}, "body")
  /\ LET t == Top(w).task IN
       /\ t \in ArenaTask
       /\ latch' = [latch EXCEPT ![t] = 1]
       /\ calls' = [calls EXCEPT ![w] =
            <<Frame("arena", t, "wait"), [Top(w) EXCEPT !.at = "finish"]>> \o Tail(@)]
       /\ queue' = [queue EXCEPT ![Front] = <<Children[t][1]>> \o @]
  /\ UNCHANGED <<client, stopped, runs, late>>

ArenaWait(w) ==
  /\ At(w, {"arena"}, "wait")
  /\ latch[Top(w).task] = 0
  /\ Return(w)
  /\ UNCHANGED <<queue, latch, client, stopped, runs, late>>

(* Faulty variant: the latch is counted down by the function and by join.  *)
FinishCountTwice(w) ==
  /\ calls[w] # <<>> /\ Top(w).fn = "task"
  /\ Top(w).at = "finish" \/ Children[Top(w).task] = <<>>
  /\ LET t == Top(w).task IN
       /\ runs' = [runs EXCEPT ![t] = @ + 1]
       /\ latch' = IF Live(Parent(t)) THEN [latch EXCEPT ![Parent(t)] = @ - 2]
                                      ELSE latch
  /\ Return(w)
  /\ UNCHANGED <<queue, client, stopped, late>>

(* The body returns and the task counts its parent's latch down.  When the *)
(* parent's frame is gone the decrement hits memory the model does not     *)
(* contain.                                                                *)
Finish(w) ==
  /\ calls[w] # <<>> /\ Top(w).fn = "task"
  /\ Top(w).at = "finish" \/ Children[Top(w).task] = <<>>
  /\ LET t == Top(w).task IN
       /\ runs' = [runs EXCEPT ![t] = @ + 1]
       /\ latch' = IF Live(Parent(t)) THEN [latch EXCEPT ![Parent(t)] = @ - 1]
                                      ELSE latch
  /\ Return(w)
  /\ UNCHANGED <<queue, client, stopped, late>>

(* join pushes its functions one by one on its own worker's queue.         *)
PushChild(w) ==
  /\ At(w, {"join"}, "push")
  /\ LET f == Top(w)
         k == f.pos + 1
     IN /\ queue' = [queue EXCEPT ![w] = <<Children[f.task][k]>> \o @]
        /\ Goto(w, IF k = Len(Children[f.task])
                   THEN [f EXCEPT !.pos = 0, !.at = "own"]
                   ELSE [f EXCEPT !.pos = k])
  /\ UNCHANGED <<latch, client, stopped, runs, late>>

-----------------------------------------------------------------------------
(* _look_for_task, called by _thread_entry and by join.                    *)

(* Faulty variant: is_stop looks at the latch only.                        *)
CheckLatchOnly(w, f, next) ==
  Goto(w, IF Ready(f) THEN [f EXCEPT !.at = "after", !.ready = TRUE]
          ELSE [f EXCEPT !.at = next, !.ready = FALSE])

(* is_stop(), then either return or go on to the try_pop at next.          *)
Check(w, f, next) ==
  Goto(w, IF Stopped(w) THEN [f EXCEPT !.at = "after"]
          ELSE IF Ready(f) THEN [f EXCEPT !.at = "after", !.ready = TRUE]
          ELSE [f EXCEPT !.at = next, !.ready = FALSE])

OwnCheck(w) ==
  /\ At(w, Looking, "own")
  /\ Check(w, Top(w), "ownPop")
  /\ UNCHANGED <<queue, latch, client, stopped, runs, late>>

(* Faulty variant: the task is copied, not taken.                          *)
RunTaskCopy(w, v, f) ==
  /\ calls' = [calls EXCEPT ![w] = <<Frame("task", queue[v][1], "body"), f>> \o Tail(@)]
  /\ late' = [late EXCEPT ![w] = IF Stopped(w) THEN @ + 1 ELSE @]
  /\ UNCHANGED queue

(* The top task is moved out of the queue of v and run, on top of frame f.   *)
RunTask(w, v, f) ==
  /\ calls' = [calls EXCEPT ![w] = <<Frame("task", queue[v][1], "body"), f>> \o Tail(@)]
  /\ queue' = [queue EXCEPT ![v] = Tail(@)]
  /\ late' = [late EXCEPT ![w] = IF Stopped(w) THEN @ + 1 ELSE @]

OwnPop(w) ==
  /\ At(w, Looking, "ownPop")
  /\ queue[w] # <<>>
  /\ RunTask(w, w, [Top(w) EXCEPT !.at = "own"])
  /\ UNCHANGED <<latch, client, stopped, runs>>

(* The own queue is empty: the workers vector is shuffled.  It is thread-  *)
(* local, so the frames below that are in the middle of visiting it go on  *)
(* in the new order.                                                       *)
Shuffle(w) ==
  /\ At(w, Looking, "ownPop")
  /\ queue[w] = <<>>
  /\ calls' = [calls EXCEPT ![w] =
       [i \in 1..Len(@) |->
          IF i = 1 THEN [@[i] EXCEPT !.at = "scan", !.pos = 0, !.seen = {}]
                   ELSE [@[i] EXCEPT !.seen = {}]]]
  /\ UNCHANGED <<queue, latch, client, stopped, runs, late>>

(* Faulty variant: no stealing.                                            *)
VisitNobody(w) ==
  /\ At(w, Looking, "scan")
  /\ Goto(w, [Top(w) EXCEPT !.at = "after"])
  /\ UNCHANGED <<queue, latch, client, stopped, runs, late>>

(* The next entry of the vector; the thread skips itself.                  *)
Visit(w) ==
  /\ At(w, Looking, "scan")
  /\ LET f == Top(w) IN
       IF f.pos = NumWorkers
       THEN Goto(w, [f EXCEPT !.at = "after", !.seen = {}])
       ELSE \E v \in Worker \ f.seen :
              LET g == [f EXCEPT !.pos = @ + 1, !.seen = @ \cup {v}] IN
                IF v = w THEN Goto(w, g)
                         ELSE Check(w, [g EXCEPT !.victim = v], "steal")
  /\ UNCHANGED <<queue, latch, client, stopped, runs, late>>

Steal(w) ==
  /\ At(w, Looking, "steal")
  /\ queue[Top(w).victim] # <<>>
  /\ RunTask(w, Top(w).victim, [Top(w) EXCEPT !.at = "scan"])
  /\ UNCHANGED <<latch, client, stopped, runs>>

StealNothing(w) ==
  /\ At(w, Looking, "steal")
  /\ queue[Top(w).victim] = <<>>
  /\ Goto(w, [Top(w) EXCEPT !.at = "scan"])
  /\ UNCHANGED <<queue, latch, client, stopped, runs, late>>

(* Faulty variant: one round of looking is taken to be enough.             *)
AfterOneRound(w) ==
  /\ At(w, Looking, "after")
  /\ IF Stopped(w) \/ Top(w).fn = "join"
     THEN Return(w)
     ELSE Goto(w, [Top(w) EXCEPT !.at = "own"])
  /\ UNCHANGED <<queue, latch, client, stopped, runs, late>>

(* Faulty variant: the thread's loop has no stop test of its own.          *)
AfterEndless(w) ==
  /\ At(w, Looking, "after")
  /\ IF Top(w).fn = "join" /\ (Stopped(w) \/ Top(w).ready \/ Ready(Top(w)))
     THEN Return(w)
     ELSE Goto(w, [Top(w) EXCEPT !.at = "own"])
  /\ UNCHANGED <<queue, latch, client, stopped, runs, late>>

(* _look_for_task has returned.  A stop request ends the thread, or the    *)
(* join whether or not its functions are done; else a join whose latch is  *)
(* down returns, and everybody else looks again.                           *)
After(w) ==
  /\ At(w, Looking, "after")
  /\ IF Stopped(w) \/ Top(w).ready \/ Ready(Top(w))
     THEN Return(w)
     ELSE Goto(w, [Top(w) EXCEPT !.at = "own"])
  /\ UNCHANGED <<queue, latch, client, stopped, runs, late>>

-----------------------------------------------------------------------------
Step(w) ==
  \/ CallJoin(w) \/ CallArena(w) \/ ArenaWait(w) \/ Finish(w) \/ PushChild(w)
  \/ OwnCheck(w) \/ OwnPop(w) \/ Shuffle(w) \/ Visit(w)
  \/ Steal(w) \/ StealNothing(w) \/ After(w)

Next ==
  \/ \E c \in Client : Arena(c) \/ ArenaReturn(c)
  \/ RequestStop
  \/ \E w \in Worker : Step(w)

(* Every thread that can run is scheduled again; bodies terminate.  Nobody *)
(* is obliged to call arena or request_stop, but once begun, request_stop  *)
(* reaches every worker.                                                   *)
Fairness ==
  /\ \A w \in Worker : WF_vars(Step(w))
  /\ \A c \in Client : WF_vars(ArenaReturn(c))
  /\ WF_vars(stopped > 0 /\ RequestStop)

Spec == Init /\ [][Next]_vars /\ Fairness

-----------------------------------------------------------------------------
(* Properties                                                              *)

FrameOK(f) ==
  /\ f.fn \in {"entry", "join", "arena", "task"}
  /\ f.task \in Task \cup {None}
  /\ f.at \in {"body", "finish", "push", "wait", "own", "ownPop", "scan", "steal", "after"}
  /\ f.pos \in Nat
  /\ f.seen \subseteq Worker /\ f.victim \in Worker /\ f.ready \in BOOLEAN

(* A call stack is an entry frame with tasks and, above every unfinished   *)
(* one but the innermost, the join or arena it is in.                      *)
StackOK(w, i) ==
  LET f == calls[w][i] IN
    /\ f.fn = "entry" <=> i = Len(calls[w])
    /\ f.fn = "task" => calls[w][i + 1].fn \in Looking
    /\ f.fn \in {"join", "arena"} =>
         calls[w][i + 1].fn = "task" /\ calls[w][i + 1].task = f.task

(* The shape of the state; no latch goes below zero.                       *)
TypeOK ==
  /\ queue \in [Worker -> Seq(Task)]
  /\ latch \in [Task \cup Client -> Nat]
  /\ client \in [Client -> {"out", "wait", "back"}]
  /\ stopped \in 0..NumWorkers
  /\ runs \in [Task -> Nat] /\ late \in [Worker -> Nat]
  /\ \A w \in Worker : \A i \in 1..Len(calls[w]) : FrameOK(calls[w][i]) /\ StackOK(w, i)

Queued(t) == {x \in UNION {{w} \X (1..Len(queue[w])) : w \in Worker} : queue[x[1]][x[2]] = t}
Running(t) == {x \in UNION {{w} \X (1..Len(calls[w])) : w \in Worker} :
                 calls[x[1]][x[2]].fn = "task" /\ calls[x[1]][x[2]].task = t}
Outstanding(t) == Queued(t) \cup Running(t)

(* However tasks move between queues and threads, each is in one queue,    *)
(* once, or on one call stack, once, or has been run, once.                *)
RunOnce == \A t \in Task :
  Cardinality(Queued(t)) + Cardinality(Running(t)) + runs[t] <= 1

(* A function that is queued or running refers to the latch and the        *)
(* closures on the frame of the join or arena it was passed to: that call  *)
(* has not returned.                                                       *)
ScopeHeld == \A t \in Task : Outstanding(t) # {} => Live(Parent(t))

(* The latch of a call in progress counts its functions that have not been *)
(* run to their end, those still to be pushed included.                    *)
LatchCounts == \A p \in Task \cup Client :
  Live(p) => latch[p] = Cardinality({i \in 1..Len(Kids(p)) : runs[Kids(p)[i]] = 0})

(* join and arena wait for what they were given: when the client is back,  *)
(* every function reachable from its root has been run.                    *)
Closed(S) == \A t \in S : \A i \in 1..Len(Children[t]) : Children[t][i] \in S
Descendants ==
  [c \in Client |-> {t \in Task : \A S \in SUBSET Task : Root[c] \in S /\ Closed(S) => t \in S}]
BackMeansDone == \A c \in Client :
  client[c] = "back" => \A t \in Descendants[c] : runs[t] = 1

(* A call of arena returns, as long as the workers blocked in an arena of  *)
(* their own leave at least one to run tasks.                              *)
ClientsReturn == \A c \in Client : (client[c] = "wait") ~> (client[c] = "back")

(* A join leaves with functions unfinished only on a worker that has been  *)
(* told to stop, never because another one has.                            *)
EarlyReturnOnlyIfStopped ==
  [][\A w \in Worker :
       LET f == Top(w) IN
         /\ calls[w] # <<>> /\ f.fn = "join"
         /\ Len(calls'[w]) < Len(calls[w])
         /\ \E i \in 1..Len(Kids(f.task)) : runs[Kids(f.task)[i]] = 0
         => w <= stopped]_vars

(* A worker told to stop takes at most the one task whose try_pop it was   *)
(* about to make.                                                          *)
BoundedShutdown == \A w \in Worker : late[w] <= 1

(* Where a stop leaves the pool.  m_latch.wait() in arena does not look at *)
(* the stop flag, so its thread waits until somebody runs its function.    *)
Given(w) == Children[Top(w).task][1]
Blocked(w) == At(w, {"arena"}, "wait") /\ Outstanding(Given(w)) # {}
Settled ==
  /\ \A w \in Worker : calls[w] = <<>> \/ Blocked(w)
  /\ (\E w \in Worker : Blocked(w)) => \E w \in Worker : Blocked(w) /\ Queued(Given(w)) # {}
  /\ \A c \in Client : client[c] = "wait" => Outstanding(Root[c]) # {}

(* After request_stop every worker thread comes to its end, whatever tasks *)
(* are queued or half done, unless it blocks in an arena of its own whose  *)
(* function nobody finishes; some worker then blocks on a function left in *)
(* a queue.  Likewise for the clients' arenas.  That is all a stop leaves. *)
StopSettles == (stopped > 0) ~> []Settled
=============================================================================
