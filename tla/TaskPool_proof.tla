--------------------------- MODULE TaskPool_proof ---------------------------
(***************************************************************************)
(* The fork-join guarantees of TaskPool for any number of workers, any     *)
(* clients and any program of functions: every function runs once, no      *)
(* functor outlives its task_group, and the groups' counters are exact.    *)
(***************************************************************************)
EXTENDS TaskPool, ProofLibrary, SequenceTheorems, FiniteSetTheorems, TLAPS

Frame == [fn : {"loop", "task", "wait"}, task : Task \cup {None},
          at : {"look", "check", "body", "push", "release"},
          owned : BOOLEAN, pos : Nat \ {0}, time : Nat]

(* What frame i of w's stack says of the frame below it: a wait is at the  *)
(* step of its function's body that the function is at, and only the       *)
(* innermost frame is anywhere but in the body.                            *)
Nested(w, i) ==
  LET f == calls[w][i] IN
    /\ f.fn = "wait" => /\ calls[w][i + 1].fn = "task"
                        /\ calls[w][i + 1].pos <= Len(Body[f.task])
                        /\ Body[f.task][calls[w][i + 1].pos] = Wait
    /\ f.fn = "task" =>
         /\ f.at # "body" => i = 1
         /\ f.at = "push" => f.pos <= Len(Body[f.task]) /\ Body[f.task][f.pos].op = "run"
         /\ f.at = "release" => f.pos > Len(Body[f.task]) /\ f.owned
         /\ f.owned <=> Submitted(f.task)

Shape ==
  /\ calls \in [Worker -> Seq(Frame)]
  /\ \A w \in Worker : Len(calls[w]) >= 1
  /\ \A w \in Worker : \A i \in 1..Len(calls[w]) : FrameOK(w, i) /\ Nested(w, i)

(* The functions in the deques, and the frames of the functions on the     *)
(* stacks.                                                                 *)
Pooled == Held(Worker, queue)
Active == UNION {{calls[w][i] : i \in {j \in 1..Len(calls[w]) : calls[w][j].fn = "task"}}
                   : w \in Worker}

(* No function is in two places of the deques, or of the stacks.           *)
OnceInDeques == Apart(Worker, queue)
OnceOnStacks ==
  \A v, w \in Worker : \A i \in 1..Len(calls[v]), j \in 1..Len(calls[w]) :
    calls[v][i].fn = "task" /\ calls[w][j].fn = "task" /\ calls[v][i].task = calls[w][j].task
      => v = w /\ i = j

Out(t) == t \in Pooled \/ \E f \in Active : f.task = t

(* The step that submits or calls t has been made.                         *)
Past(t) ==
  \/ Parent(t) \in Client /\ client[Parent(t)] # "out"
  \/ Parent(t) \in Task /\ runs[Parent(t)] = 1
  \/ \E f \in Active : f.task = Parent(t) /\ f.pos > Site[t][2]

(* A function is in a deque, on a stack or done, and then its step has     *)
(* been made: the step is not made twice.                                  *)
Lifecycle ==
  /\ \A t \in Pooled : Submitted(t) /\ runs[t] = 0 /\ \A f \in Active : f.task # t
  /\ \A f \in Active : runs[f.task] = IF f.at = "release" THEN 1 ELSE 0
  /\ \A t \in Task : runs[t] \in {0, 1}
  /\ \A t \in Task : Out(t) \/ runs[t] = 1 => Past(t)

HasGroup(p) ==
  \/ p \in Client /\ client[p] = "wait"
  \/ \E f \in Active : f.task = p /\ \E j \in f.pos..Len(Body[p]) : Body[p][j] = Wait

GroupsHeld == \A t \in Task : Submitted(t) /\ Out(t) => HasGroup(Parent(t))

(* run has counted t and not pushed it.                                    *)
Announced(t) ==
  \E f \in Active : f.at = "push" /\ f.task = Parent(t) /\ Body[Parent(t)][f.pos].fn = t

(* A client in run outside the pool owns t's functor.                      *)
Carried(t) == Parent(t) \in Client /\ client[Parent(t)] \in Holding

(* The functors of p's group that have been counted and not dropped.       *)
Counting(t) == Out(t) \/ Announced(t) \/ Carried(t)
Members(p) == {t \in Task : Submitted(t) /\ Parent(t) = p /\ Counting(t)}

(* The counters are exact, those of the groups that are gone (zero) too.   *)
CountsExact == \A p \in Task \cup Client :
  IsFiniteSet(Members(p)) /\ pending[p] = Cardinality(Members(p))

Place == {"out", "wait", "back", "spawn", "release", "unwind", "threw"}

(* With it, that the function in the hands of a client has not been run.   *)
Types ==
  /\ queue \in [Worker -> Seq(Task)]
  /\ pending \in [Task \cup Client -> Nat]
  /\ client \in [Client -> Place]
  /\ runs \in [Task -> Nat]
  /\ \A c \in Client : client[c] = "spawn" => runs[Root[c]] = 0

PoolInv == Types /\ Shape /\ OnceInDeques /\ OnceOnStacks /\ Lifecycle /\ GroupsHeld /\ CountsExact

-----------------------------------------------------------------------------
(* The program: every function has one site.                               *)
LEMMA SiteUnique ==
  /\ \A p \in Task : \A i \in 1..Len(Body[p]) : \A u \in Task :
       Body[p][i].fn = u => Site[u] = <<p, i>> /\ Parent(u) = p
  /\ \A c \in Client : Root[c] \in Task /\ Site[Root[c]] = <<c, 1>> /\ Parent(Root[c]) = c
  /\ \A t \in Task : Parent(t) \in Client => Root[Parent(t)] = t
  /\ \A t \in Task : Parent(t) \in Task \cup Client /\ Site[t][2] \in Nat
<1>1. ASSUME NEW t \in Task
      PROVE  Site[t] \in Sites(t) /\ \A s \in Sites(t) : Site[t] = s
  BY ForestAssumption DEF Site
<1>2. ASSUME NEW p \in Task, NEW i \in 1..Len(Body[p]), NEW u \in Task, Body[p][i].fn = u
      PROVE  Site[u] = <<p, i>> /\ Parent(u) = p
  <2>1. <<p, i>> \in Sites(u)
    BY <1>2 DEF Sites
  <2> QED
    BY <1>1, <2>1 DEF Parent
<1>3. ASSUME NEW c \in Client
      PROVE  Root[c] \in Task /\ Site[Root[c]] = <<c, 1>> /\ Parent(Root[c]) = c
  <2>1. Root[c] \in Task /\ <<c, 1>> \in Sites(Root[c])
    BY PoolAssumption DEF Sites
  <2> QED
    BY <1>1, <2>1 DEF Parent
<1>4. ASSUME NEW t \in Task
      PROVE  /\ Parent(t) \in Task \cup Client /\ Site[t][2] \in Nat
             /\ Parent(t) \in Client => Root[Parent(t)] = t
  <2>1. Site[t] \in Sites(t)
    BY <1>1
  <2>2. CASE Site[t] \in {<<c, 1>> : c \in {k \in Client : Root[k] = t}}
    BY <2>2 DEF Parent
  <2>3. CASE Site[t] \in {s \in UNION {{p} \X (1..Len(Body[p])) : p \in Task} : Body[s[1]][s[2]].fn = t}
    BY <2>3, PoolAssumption DEF Parent
  <2> QED
    BY <2>1, <2>2, <2>3 DEF Sites
<1> QED
  BY <1>2, <1>3, <1>4

(* A step of a body is a run, a call or a wait, and there is a wait behind *)
(* every run.                                                              *)
LEMMA OpsOfBody ==
  ASSUME NEW p \in Task
  PROVE  /\ Body[p] \in Seq(Ops) /\ Len(Body[p]) \in Nat
         /\ \A i \in 1..Len(Body[p]) :
              /\ Body[p][i].op \in {"run", "call"} => Body[p][i].fn \in Task
              /\ Body[p][i].op = "wait" <=> Body[p][i] = Wait
              /\ Body[p][i].op = "run" => \E j \in i + 1..Len(Body[p]) : Body[p][j] = Wait
              /\ Body[p][i].op \in {"run", "call", "wait"}
<1>1. Body[p] \in Seq(Ops) /\ Len(Body[p]) \in Nat
  BY PoolAssumption
<1>2. ASSUME NEW i \in 1..Len(Body[p])
      PROVE  /\ Body[p][i].op \in {"run", "call"} => Body[p][i].fn \in Task
             /\ Body[p][i].op = "wait" <=> Body[p][i] = Wait
             /\ Body[p][i].op \in {"run", "call", "wait"}
  <2>1. Body[p][i] \in Ops
    BY <1>1
  <2> QED
    BY <2>1 DEF Ops, Run, Call, Wait
<1>3. ASSUME NEW i \in 1..Len(Body[p]), Body[p][i].op = "run"
      PROVE  \E j \in i + 1..Len(Body[p]) : Body[p][j] = Wait
  <2>1. PICK j \in i..Len(Body[p]) : Body[p][j] = Wait
    BY <1>3, ForestAssumption
  <2>2. j # i
    BY <2>1, <1>3 DEF Wait
  <2> QED
    BY <2>1, <2>2, <1>1
<1> QED
  BY <1>1, <1>2, <1>3

LEMMA PooledMember ==
  \A t : t \in Pooled <=> \E w \in Worker : \E i \in 1..Len(queue[w]) : queue[w][i] = t
BY HeldMember DEF Pooled

LEMMA ActiveMember ==
  \A f : f \in Active <=>
    \E w \in Worker : \E i \in 1..Len(calls[w]) : calls[w][i] = f /\ f.fn = "task"
BY DEF Active

(* The frames of functions, without the stacks they are on.                *)
LEMMA ActiveFrames ==
  ASSUME Shape
  PROVE  \A f \in Active :
           /\ f \in Frame /\ f.fn = "task" /\ f.task \in Task
           /\ f.at \in {"body", "push", "release"}
           /\ f.pos \in 1..Len(Body[f.task]) + 1
           /\ f.at = "push" => f.pos <= Len(Body[f.task]) /\ Body[f.task][f.pos].op = "run"
           /\ f.at = "release" => f.pos > Len(Body[f.task]) /\ Submitted(f.task)
<1> SUFFICES ASSUME NEW f \in Active
             PROVE  /\ f \in Frame /\ f.fn = "task" /\ f.task \in Task
                    /\ f.at \in {"body", "push", "release"}
                    /\ f.pos \in 1..Len(Body[f.task]) + 1
                    /\ f.at = "push" => f.pos <= Len(Body[f.task]) /\ Body[f.task][f.pos].op = "run"
                    /\ f.at = "release" => f.pos > Len(Body[f.task]) /\ Submitted(f.task)
  OBVIOUS
<1>1. PICK w \in Worker : \E i \in 1..Len(calls[w]) : calls[w][i] = f /\ f.fn = "task"
  BY ActiveMember
<1>2. PICK i \in 1..Len(calls[w]) : calls[w][i] = f /\ f.fn = "task"
  BY <1>1
<1>3. FrameOK(w, i) /\ Nested(w, i) /\ f \in Frame
  BY <1>2 DEF Shape
<1>4. /\ f.at \in {"body", "push", "release"} /\ f.task \in Task
      /\ f.pos \in 1..Len(Body[f.task]) + 1
  BY ONLY <1>2, <1>3 DEF FrameOK
<1>5. /\ f.at = "push" => f.pos <= Len(Body[f.task]) /\ Body[f.task][f.pos].op = "run"
      /\ f.at = "release" => f.pos > Len(Body[f.task]) /\ Submitted(f.task)
  BY ONLY <1>2, <1>3 DEF Nested
<1> QED
  BY ONLY <1>2, <1>3, <1>4, <1>5

-----------------------------------------------------------------------------
(* A step of w replaces the first m frames of its stack by n others: its   *)
(* stack is s then.                                                        *)
Replaces(w, m, s, n) ==
  /\ calls' = [calls EXCEPT ![w] = s]
  /\ s \in Seq(Frame)
  /\ m \in 1..Len(calls[w]) /\ n \in 0..2
  /\ Len(s) = Len(calls[w]) - m + n
  /\ \A i \in n + 1..Len(s) : s[i] = calls[w][i - n + m]

(* The functions of the n new frames are different and in none but the     *)
(* replaced ones.                                                          *)
NoOther(w, m, s, n) ==
  /\ \A i, j \in 1..n :
       s[i].fn = "task" /\ s[j].fn = "task" /\ s[i].task = s[j].task => i = j
  /\ \A i \in 1..n : s[i].fn = "task" =>
       \A v \in Worker : \A j \in 1..Len(calls[v]) :
         calls[v][j].fn = "task" /\ calls[v][j].task = s[i].task => v = w /\ j <= m

LEMMA StackAfter ==
  ASSUME Shape, NEW w \in Worker, NEW m, NEW s, NEW n, Replaces(w, m, s, n)
  PROVE  /\ calls' \in [Worker -> Seq(Frame)] /\ calls'[w] = s
         /\ \A v \in Worker \ {w} : calls'[v] = calls[v]
         /\ s \in Seq(Frame) /\ Len(s) \in Nat /\ Len(calls[w]) \in Nat
         /\ \A i \in 1..Len(s) : i <= n \/ \E j \in m + 1..Len(calls[w]) : j = i - n + m /\ s[i] = calls[w][j]
         /\ \A j \in 1..Len(calls[w]) : j <= m \/ \E i \in n + 1..Len(s) : j = i - n + m /\ s[i] = calls[w][j]
         /\ \A i \in 1..n : i \in 1..Len(s)
         /\ \A j \in 1..m : j \in 1..Len(calls[w])
<1>1. /\ calls' \in [Worker -> Seq(Frame)] /\ calls'[w] = s
      /\ \A v \in Worker \ {w} : calls'[v] = calls[v]
      /\ s \in Seq(Frame) /\ Len(s) \in Nat /\ Len(calls[w]) \in Nat
  BY DEF Shape, Replaces
<1>2. ASSUME NEW i \in 1..Len(s), ~(i <= n)
      PROVE  \E j \in m + 1..Len(calls[w]) : j = i - n + m /\ s[i] = calls[w][j]
  <2>1. i \in n + 1..Len(s) /\ i - n + m \in m + 1..Len(calls[w])
    BY <1>1, <1>2 DEF Replaces
  <2> QED
    BY <2>1 DEF Replaces
<1>3. ASSUME NEW j \in 1..Len(calls[w]), ~(j <= m)
      PROVE  \E i \in n + 1..Len(s) : j = i - n + m /\ s[i] = calls[w][j]
  <2>1. j - m + n \in n + 1..Len(s) /\ (j - m + n) - n + m = j
    BY <1>1, <1>3 DEF Replaces
  <2> QED
    BY <2>1 DEF Replaces
<1> QED
  BY <1>1, <1>2, <1>3 DEF Replaces

(* The frames below them are as they should be, if the new ones are.       *)
LEMMA ShapeStep ==
  ASSUME Shape, NEW w \in Worker, NEW m, NEW s, NEW n, Replaces(w, m, s, n), Len(s) >= 1,
         \A i \in 1..n : FrameOK(w, i)' /\ Nested(w, i)'
  PROVE  Shape'
<1>1. calls' \in [Worker -> Seq(Frame)] /\ calls'[w] = s
      /\ \A v \in Worker \ {w} : calls'[v] = calls[v]
  BY StackAfter
<1>2. \A v \in Worker : Len(calls'[v]) >= 1
  BY <1>1 DEF Shape
<1>3. ASSUME NEW v \in Worker \ {w}, NEW i \in 1..Len(calls'[v])
      PROVE  FrameOK(v, i)' /\ Nested(v, i)'
  <2>1. calls'[v] = calls[v]
    BY <1>1
  <2>2. FrameOK(v, i) /\ Nested(v, i)
    BY <2>1 DEF Shape
  <2>3. FrameOK(v, i)'
    BY ONLY <2>1, <2>2 DEF FrameOK
  <2>4. Nested(v, i)'
    BY ONLY <2>1, <2>2 DEF Nested, Submitted, Parent
  <2> QED
    BY <2>3, <2>4
<1>4. ASSUME NEW i \in n + 1..Len(s)
      PROVE  FrameOK(w, i)' /\ Nested(w, i)'
  <2> DEFINE j == i - n + m
  <2>1. Len(calls[w]) \in Nat /\ Len(s) \in Nat
    BY StackAfter
  <2>2. /\ j \in 1..Len(calls[w]) /\ j > 1
        /\ i = Len(s) <=> j = Len(calls[w])
        /\ i + 1 \in n + 1..Len(s) <=> j + 1 \in 1..Len(calls[w])
        /\ i + 1 - n + m = j + 1
    BY <2>1 DEF Replaces
  <2>3. s[i] = calls[w][j] /\ (j < Len(calls[w]) => s[i + 1] = calls[w][j + 1])
    BY <2>1, <2>2 DEF Replaces
  <2>4. FrameOK(w, j) /\ Nested(w, j) /\ calls[w][j] \in Frame
    BY <2>2 DEF Shape
  <2> HIDE DEF j
  <2>5. calls[w][j].fn = "loop" <=> j = Len(calls[w])
    BY <2>4 DEF FrameOK
  <2>6. calls'[w] = s
    BY <1>1
  <2>7. CASE j = Len(calls[w])
    <3>1. s[i].fn = "loop" /\ i = Len(s)
      BY ONLY <2>2, <2>3, <2>5, <2>7
    <3>2. FrameOK(w, i)'
      BY ONLY <2>3, <2>4, <2>6, <3>1 DEF FrameOK
    <3>3. Nested(w, i)'
      BY ONLY <2>6, <3>1 DEF Nested
    <3> QED
      BY <3>2, <3>3
  <2>8. CASE j < Len(calls[w])
    <3>1. s[i].fn # "loop" /\ i # Len(s)
      BY ONLY <2>2, <2>3, <2>5, <2>8
    <3>2. s[i] = calls[w][j] /\ s[i + 1] = calls[w][j + 1]
      BY ONLY <2>3, <2>8
    <3>3. FrameOK(w, i)'
      BY ONLY <2>4, <2>6, <3>1, <3>2 DEF FrameOK
    <3>4. i = 1 \/ j # 1
      BY ONLY <2>1, <2>2
    <3>5. Nested(w, i)'
      BY ONLY <2>1, <2>2, <2>4, <2>6, <3>2, <3>4 DEF Nested, Submitted, Parent
    <3> QED
      BY <3>3, <3>5
  <2>9. j = Len(calls[w]) \/ j < Len(calls[w])
    BY ONLY <2>1, <2>2
  <2> QED
    BY ONLY <2>7, <2>8, <2>9
<1>5. ASSUME NEW i \in 1..Len(s)
      PROVE  FrameOK(w, i)' /\ Nested(w, i)'
  <2>1. i \in 1..n \/ i \in n + 1..Len(s)
    BY StackAfter DEF Replaces
  <2> QED
    BY <2>1, <1>4
<1> QED
  BY <1>1, <1>2, <1>3, <1>5 DEF Shape

(* The stacks keep every function in one place if the new frames do, and   *)
(* the frames of functions change accordingly.                             *)
LEMMA ActiveStep ==
  ASSUME Shape, OnceOnStacks, NEW w \in Worker, NEW m, NEW s, NEW n,
         Replaces(w, m, s, n), NoOther(w, m, s, n)
  PROVE  /\ OnceOnStacks'
         /\ Active' = (Active \ {calls[w][j] : j \in 1..m})
                      \cup {s[i] : i \in {j \in 1..n : s[j].fn = "task"}}
<1>1. \A v, u \in Worker : \A i \in 1..Len(calls[v]), j \in 1..Len(calls[u]) :
        calls[v][i].fn = "task" /\ calls[u][j].fn = "task" /\ calls[v][i].task = calls[u][j].task
          => v = u /\ i = j
  BY Zenon DEF OnceOnStacks
<1>2. /\ calls'[w] = s
      /\ \A v \in Worker \ {w} : calls'[v] = calls[v]
      /\ Len(s) \in Nat /\ Len(calls[w]) \in Nat /\ n \in Nat /\ m \in Nat
      /\ \A i \in 1..n : i \in 1..Len(s)
      /\ \A j \in 1..m : j \in 1..Len(calls[w])
  <2>1. m \in 1..Len(calls[w]) /\ n \in 0..2
    BY DEF Replaces
  <2> QED
    BY <2>1, StackAfter
<1>3. \A i \in 1..Len(s) : i <= n \/ \E j \in m + 1..Len(calls[w]) : j = i - n + m /\ s[i] = calls[w][j]
  BY StackAfter
<1>4. \A j \in 1..Len(calls[w]) : j <= m \/ \E i \in n + 1..Len(s) : j = i - n + m /\ s[i] = calls[w][j]
  BY StackAfter
<1>5. OnceOnStacks'
  <2>1. ASSUME NEW i \in 1..Len(s), NEW j \in 1..Len(s),
               s[i].fn = "task", s[j].fn = "task", s[i].task = s[j].task
        PROVE  i = j
    <3>1. CASE i <= n /\ j <= n
      BY <2>1, <3>1, <1>2 DEF NoOther
    <3>2. CASE i <= n /\ ~(j <= n)
      <4>1. PICK k \in m + 1..Len(calls[w]) : s[j] = calls[w][k]
        BY <3>2, <1>3
      <4>2. k \in 1..Len(calls[w]) /\ ~(k <= m) /\ i \in 1..n
        BY <1>2, <3>2
      <4> QED
        BY <2>1, <4>1, <4>2 DEF NoOther
    <3>3. CASE ~(i <= n) /\ j <= n
      <4>1. PICK k \in m + 1..Len(calls[w]) : s[i] = calls[w][k]
        BY <3>3, <1>3
      <4>2. k \in 1..Len(calls[w]) /\ ~(k <= m) /\ j \in 1..n
        BY <1>2, <3>3
      <4> QED
        BY <2>1, <4>1, <4>2 DEF NoOther
    <3>4. CASE ~(i <= n) /\ ~(j <= n)
      <4>1. PICK k \in m + 1..Len(calls[w]) : k = i - n + m /\ s[i] = calls[w][k]
        BY <3>4, <1>3
      <4>2. PICK l \in m + 1..Len(calls[w]) : l = j - n + m /\ s[j] = calls[w][l]
        BY <3>4, <1>3
      <4>3. k \in 1..Len(calls[w]) /\ l \in 1..Len(calls[w])
        BY <1>2
      <4>4. k = l
        BY ONLY <2>1, <4>1, <4>2, <4>3, <1>1, w \in Worker
      <4> QED
        BY ONLY <4>1, <4>2, <4>4, <1>2, i \in 1..Len(s), j \in 1..Len(s)
    <3> QED
      BY <3>1, <3>2, <3>3, <3>4
  <2>2. ASSUME NEW i \in 1..Len(s), NEW v \in Worker \ {w}, NEW j \in 1..Len(calls[v]),
               s[i].fn = "task", calls[v][j].fn = "task", s[i].task = calls[v][j].task
        PROVE  FALSE
    <3>1. CASE i <= n
      <4>1. i \in 1..n
        BY <3>1, <1>2
      <4> QED
        BY <2>2, <4>1 DEF NoOther
    <3>2. CASE ~(i <= n)
      <4>1. PICK k \in m + 1..Len(calls[w]) : s[i] = calls[w][k]
        BY <3>2, <1>3
      <4>2. k \in 1..Len(calls[w])
        BY <1>2
      <4> QED
        BY <2>2, <4>1, <4>2, <1>1
    <3> QED
      BY <3>1, <3>2
  <2>3. ASSUME NEW v \in Worker, NEW u \in Worker,
               NEW i \in 1..Len(calls'[v]), NEW j \in 1..Len(calls'[u]),
               calls'[v][i].fn = "task", calls'[u][j].fn = "task",
               calls'[v][i].task = calls'[u][j].task
        PROVE  v = u /\ i = j
    <3>1. CASE v = w /\ u = w
      BY <2>1, <2>3, <3>1, <1>2
    <3>2. CASE v = w /\ u # w
      BY <2>2, <2>3, <3>2, <1>2
    <3>3. CASE v # w /\ u = w
      BY <2>2, <2>3, <3>3, <1>2
    <3>4. CASE v # w /\ u # w
      <4>1. calls'[v] = calls[v] /\ calls'[u] = calls[u]
        BY <3>4, <1>2
      <4> QED
        BY <2>3, <4>1, <1>1
    <3> QED
      BY <3>1, <3>2, <3>3, <3>4
  <2> QED
    BY <2>3 DEF OnceOnStacks
<1>6. ASSUME NEW f
      PROVE  f \in Active' <=> f \in (Active \ {calls[w][j] : j \in 1..m})
                                     \cup {s[i] : i \in {j \in 1..n : s[j].fn = "task"}}
  <2>1. f \in Active' <=> \E v \in Worker : \E i \in 1..Len(calls'[v]) : calls'[v][i] = f /\ f.fn = "task"
    BY DEF Active
  <2>2. ASSUME f \in Active'
        PROVE  f \in (Active \ {calls[w][j] : j \in 1..m})
                     \cup {s[i] : i \in {j \in 1..n : s[j].fn = "task"}}
    <3>. PICK v \in Worker : \E i \in 1..Len(calls'[v]) : calls'[v][i] = f /\ f.fn = "task"
      BY <2>1, <2>2
    <3>1. PICK i \in 1..Len(calls'[v]) : calls'[v][i] = f /\ f.fn = "task"
      OBVIOUS
    <3>2. CASE v # w
      <4>1. f = calls[v][i] /\ i \in 1..Len(calls[v])
        BY <1>2, <3>1, <3>2
      <4>2. ASSUME NEW j \in 1..m, calls[w][j] = f
            PROVE  FALSE
        <5>1. j \in 1..Len(calls[w]) /\ f.fn = "task"
          BY ONLY <1>2, <3>1, j \in 1..m
        <5> QED
          BY ONLY <1>1, <3>2, <4>1, <4>2, <5>1, v \in Worker, w \in Worker
      <4> QED
        BY <3>1, <4>1, <4>2, ActiveMember
    <3>3. CASE v = w /\ i <= n
      BY <3>1, <3>3, <1>2
    <3>4. CASE v = w /\ ~(i <= n)
      <4>1. PICK k \in m + 1..Len(calls[w]) : f = calls[w][k]
        BY <3>1, <3>4, <1>2, <1>3
      <4>2. k \in 1..Len(calls[w]) /\ ~(k <= m)
        BY <4>1, <1>2
      <4>3. ASSUME NEW j \in 1..m, calls[w][j] = f
            PROVE  FALSE
        <5>1. j \in 1..Len(calls[w]) /\ j <= m
          BY <1>2
        <5>2. calls[w][j].fn = "task" /\ calls[w][k].fn = "task" /\ calls[w][j].task = calls[w][k].task
          BY <3>1, <4>1, <4>3
        <5>3. j = k
          BY <4>2, <5>1, <5>2, <1>1
        <5> QED
          BY <4>2, <5>1, <5>3
      <4> QED
        BY <3>1, <4>1, <4>2, <4>3, ActiveMember
    <3> QED
      BY <3>2, <3>3, <3>4
  <2>3. ASSUME f \in Active, f \notin {calls[w][j] : j \in 1..m}
        PROVE  f \in Active'
    <3>. PICK v \in Worker : \E i \in 1..Len(calls[v]) : calls[v][i] = f /\ f.fn = "task"
      BY <2>3, ActiveMember
    <3>1. PICK i \in 1..Len(calls[v]) : calls[v][i] = f /\ f.fn = "task"
      OBVIOUS
    <3>2. CASE v # w
      BY <3>1, <3>2, <1>2, <2>1
    <3>3. CASE v = w
      <4>1. ~(i <= m)
        BY <3>1, <3>3, <2>3, <1>2
      <4>2. PICK k \in n + 1..Len(s) : s[k] = f
        BY <4>1, <3>1, <3>3, <1>4
      <4>3. k \in 1..Len(s)
        BY <1>2
      <4> QED
        BY <4>2, <4>3, <3>1, <1>2, <2>1
    <3> QED
      BY <3>2, <3>3
  <2>4. ASSUME NEW i \in 1..n, s[i].fn = "task", f = s[i]
        PROVE  f \in Active'
    <3>1. i \in 1..Len(s)
      BY <1>2
    <3> QED
      BY <2>4, <3>1, <1>2, <2>1
  <2> QED
    BY <2>2, <2>3, <2>4
<1> QED
  BY <1>5, <1>6

(* The ways to change a stack: at the top, ...                             *)
LEMMA GotoReplaces ==
  ASSUME Shape, NEW w \in Worker, NEW g \in Frame, Goto(w, g)
  PROVE  \E s : /\ Replaces(w, 1, s, 1) /\ calls'[w] = s
                /\ s[1] = g /\ Len(s) = Len(calls[w])
                /\ \A i \in 2..Len(s) : s[i] = calls[w][i]
<1> DEFINE s == [calls[w] EXCEPT ![1] = g]
<1>1. /\ calls[w] \in Seq(Frame) /\ Len(calls[w]) \in Nat /\ Len(calls[w]) >= 1
      /\ calls' = [calls EXCEPT ![w] = s] /\ calls'[w] = s
  BY DEF Shape, Goto
<1>2. /\ s \in Seq(Frame) /\ Len(s) = Len(calls[w]) /\ s[1] = g
      /\ \A i \in 2..Len(s) : s[i] = calls[w][i]
  BY <1>1
<1> HIDE DEF s
<1>3. Replaces(w, 1, s, 1)
  BY <1>1, <1>2 DEF Replaces
<1> QED
  BY <1>1, <1>2, <1>3

(* ... one more on top of the innermost one, which may change, ...         *)
Pushed(w, s, f, g) ==
  /\ Replaces(w, 1, s, 2) /\ calls'[w] = s
  /\ s[1] = f /\ s[2] = g /\ Len(s) = Len(calls[w]) + 1
  /\ \A i \in 3..Len(s) : s[i] = calls[w][i - 1]

LEMMA PushReplaces ==
  ASSUME Shape, NEW w \in Worker, NEW f \in Frame, NEW g \in Frame,
         calls' = [calls EXCEPT ![w] = <<f, g>> \o Tail(@)]
  PROVE  \E s : Pushed(w, s, f, g)
<1> DEFINE r == Tail(calls[w])
           s == <<f, g>> \o r
<1>1. r = Tail(calls[w]) /\ s = <<f, g>> \o r /\ calls' = [calls EXCEPT ![w] = s]
  OBVIOUS
<1> HIDE DEF r, s
<1>2. calls[w] \in Seq(Frame) /\ Len(calls[w]) \in Nat /\ Len(calls[w]) >= 1 /\ calls'[w] = s
  BY ONLY Shape, w \in Worker, <1>1 DEF Shape
<1>3. /\ s \in Seq(Frame) /\ Len(s) = Len(calls[w]) + 1 /\ s[1] = f /\ s[2] = g
      /\ \A i \in 3..Len(s) : s[i] = calls[w][i - 1]
  BY ONLY <1>1, <1>2, PushedSeq, f \in Frame, g \in Frame
<1>4. ASSUME NEW i \in 2 + 1..Len(s)
      PROVE  s[i] = calls[w][i - 2 + 1]
  <2>1. i \in 3..Len(s) /\ i - 2 + 1 = i - 1
    BY ONLY <1>2, <1>3, i \in 2 + 1..Len(s)
  <2> QED
    BY ONLY <2>1, <1>3
<1>5. Replaces(w, 1, s, 2)
  <2>1. 1 \in 1..Len(calls[w]) /\ 2 \in 0..2 /\ Len(s) = Len(calls[w]) - 1 + 2
    BY ONLY <1>2, <1>3
  <2> QED
    BY ONLY <2>1, <1>1, <1>3, <1>4, Zenon DEF Replaces
<1>6. Pushed(w, s, f, g)
  BY ONLY <1>2, <1>3, <1>5 DEF Pushed
<1> QED
  BY ONLY <1>6

(* ... one frame less, ...                                                 *)
LEMMA PopReplaces ==
  ASSUME Shape, NEW w \in Worker, NEW s, s = Tail(calls[w]),
         calls' = [calls EXCEPT ![w] = s]
  PROVE  Replaces(w, 1, s, 0) /\ calls'[w] = s /\ Len(s) = Len(calls[w]) - 1
<1>1. calls[w] \in Seq(Frame) /\ Len(calls[w]) \in Nat /\ Len(calls[w]) >= 1 /\ calls'[w] = s
  BY DEF Shape
<1>2. s \in Seq(Frame) /\ Len(s) = Len(calls[w]) - 1 /\ \A i \in 1..Len(s) : s[i] = calls[w][i + 1]
  BY <1>1
<1>3. ASSUME NEW i \in 0 + 1..Len(s)
      PROVE  s[i] = calls[w][i - 0 + 1]
  <2>1. i \in 1..Len(s) /\ i - 0 + 1 = i + 1
    BY <1>1, <1>2
  <2> QED
    BY <2>1, <1>2
<1>4. Replaces(w, 1, s, 0)
  <2>1. 1 \in 1..Len(calls[w]) /\ 0 \in 0..2 /\ Len(s) = Len(calls[w]) - 1 + 0
    BY <1>1, <1>2
  <2> QED
    BY <2>1, <1>2, <1>3, Zenon DEF Replaces
<1> QED
  BY <1>1, <1>2, <1>4

(* ... and one frame less with a change of the one that gets innermost.    *)
Resumes(w, s, g) ==
  /\ Replaces(w, 2, s, 1) /\ calls'[w] = s
  /\ s[1] = g /\ Len(s) = Len(calls[w]) - 1
  /\ \A i \in 2..Len(s) : s[i] = calls[w][i + 1]

LEMMA OverReplaces ==
  ASSUME Shape, NEW w \in Worker, NEW g \in Frame, Len(calls[w]) >= 2,
         calls' = [calls EXCEPT ![w] = <<g>> \o Tail(Tail(@))]
  PROVE  \E s : Resumes(w, s, g)
<1>0. PICK r, q, s : r = Tail(calls[w]) /\ q = Tail(r) /\ s = <<g>> \o q
  OBVIOUS
<1>1. /\ calls' = [calls EXCEPT ![w] = s]
      /\ calls[w] \in Seq(Frame) /\ Len(calls[w]) \in Nat /\ calls'[w] = s
  <2>1. calls' = [calls EXCEPT ![w] = s]
    BY ONLY <1>0, calls' = [calls EXCEPT ![w] = <<g>> \o Tail(Tail(@))]
  <2> QED
    BY ONLY <2>1, Shape, w \in Worker DEF Shape
<1>2. /\ s \in Seq(Frame) /\ Len(s) = Len(calls[w]) - 1 /\ s[1] = g
      /\ \A i \in 2..Len(s) : s[i] = calls[w][i + 1]
  <2>1. /\ r \in Seq(Frame) /\ Len(r) = Len(calls[w]) - 1
        /\ \A i \in 1..Len(r) : r[i] = calls[w][i + 1]
    <3>1. r = Tail(calls[w])
      BY ONLY <1>0
    <3> QED
      BY ONLY <1>1, Len(calls[w]) >= 2, <3>1
  <2>2. q \in Seq(Frame) /\ Len(q) = Len(r) - 1 /\ \A i \in 1..Len(q) : q[i] = r[i + 1]
    <3>1. q = Tail(r) /\ Len(calls[w]) \in Nat
      BY ONLY <1>0, <1>1
    <3> QED
      BY ONLY <2>1, <3>1, Len(calls[w]) >= 2
  <2>3. s \in Seq(Frame) /\ Len(s) = Len(q) + 1 /\ s[1] = g /\ \A i \in 2..Len(s) : s[i] = q[i - 1]
    <3>1. s = <<g>> \o q
      BY ONLY <1>0
    <3> QED
      BY ONLY <2>2, <3>1, g \in Frame
  <2>4. ASSUME NEW i \in 2..Len(s)
        PROVE  s[i] = calls[w][i + 1]
    <3>1. i - 1 \in 1..Len(q) /\ (i - 1) + 1 = i /\ i \in 1..Len(r)
      BY ONLY <1>1, <2>1, <2>2, <2>3, i \in 2..Len(s)
    <3>2. q[i - 1] = r[(i - 1) + 1]
      BY <3>1, <2>2
    <3> QED
      BY ONLY <3>1, <3>2, <2>1, <2>3, i \in 2..Len(s)
  <2> QED
    BY ONLY <1>1, <2>1, <2>2, <2>3, <2>4, Len(calls[w]) >= 2
<1>3. ASSUME NEW i \in 1 + 1..Len(s)
      PROVE  s[i] = calls[w][i - 1 + 2]
  <2>1. i \in 2..Len(s) /\ i - 1 + 2 = i + 1
    BY ONLY <1>1, <1>2, i \in 1 + 1..Len(s)
  <2> QED
    BY ONLY <2>1, <1>2
<1>4. Replaces(w, 2, s, 1)
  <2>1. 2 \in 1..Len(calls[w]) /\ 1 \in 0..2 /\ Len(s) = Len(calls[w]) - 2 + 1
    BY ONLY <1>1, <1>2, Len(calls[w]) >= 2
  <2> QED
    BY ONLY <2>1, <1>1, <1>2, <1>3, Zenon DEF Replaces
<1>5. Resumes(w, s, g)
  BY ONLY <1>1, <1>2, <1>4 DEF Resumes
<1> QED
  BY ONLY <1>5

-----------------------------------------------------------------------------
(* The innermost frame, and that a function has one frame.                 *)
LEMMA TopFacts ==
  ASSUME Shape, NEW w \in Worker
  PROVE  /\ Top(w) \in Frame /\ Len(calls[w]) \in Nat /\ 1 \in 1..Len(calls[w])
         /\ FrameOK(w, 1) /\ Nested(w, 1)
         /\ Top(w).at \in {"body", "push", "release"} => Top(w).fn = "task"
         /\ Top(w).fn = "task" => Top(w) \in Active
         /\ Top(w).at \in {"look", "check"} => Top(w).fn \in {"loop", "wait"}
         /\ Top(w).fn # "loop" => 2 \in 1..Len(calls[w]) /\ FrameOK(w, 2) /\ Nested(w, 2)
<1>1. /\ Len(calls[w]) \in Nat /\ Len(calls[w]) >= 1 /\ 1 \in 1..Len(calls[w])
      /\ calls[w] \in Seq(Frame)
  BY DEF Shape
<1>2. Top(w) \in Frame /\ FrameOK(w, 1) /\ Nested(w, 1)
  BY <1>1 DEF Shape, Top
<1>3. Top(w).fn = "task" => Top(w) \in Active
  BY <1>1, ActiveMember DEF Top
<1>4. /\ Top(w).at \in {"body", "push", "release"} => Top(w).fn = "task"
      /\ Top(w).at \in {"look", "check"} => Top(w).fn \in {"loop", "wait"}
      /\ Top(w).fn # "loop" => Len(calls[w]) # 1
  BY <1>2 DEF FrameOK, Top
<1>5. ASSUME Top(w).fn # "loop"
      PROVE  2 \in 1..Len(calls[w])
  <2>1. Len(calls[w]) # 1
    BY <1>4, <1>5
  <2>2. \A n \in Nat : n >= 1 /\ n # 1 => 2 \in 1..n
    BY ONLY SMT
  <2> QED
    BY <1>1, <2>1, <2>2
<1> QED
  BY <1>1, <1>2, <1>3, <1>4, <1>5 DEF Shape

LEMMA OneFrame ==
  ASSUME OnceOnStacks
  PROVE  \A f, g \in Active : f.task = g.task => f = g
<1>1. ASSUME NEW f \in Active, NEW g \in Active, f.task = g.task
      PROVE  f = g
  <2>1. PICK v \in Worker : \E i \in 1..Len(calls[v]) : calls[v][i] = f /\ f.fn = "task"
    BY ActiveMember
  <2>2. PICK i \in 1..Len(calls[v]) : calls[v][i] = f /\ f.fn = "task"
    BY <2>1
  <2>3. PICK u \in Worker : \E j \in 1..Len(calls[u]) : calls[u][j] = g /\ g.fn = "task"
    BY ActiveMember
  <2>4. PICK j \in 1..Len(calls[u]) : calls[u][j] = g /\ g.fn = "task"
    BY <2>3
  <2> QED
    BY <1>1, <2>2, <2>4 DEF OnceOnStacks
<1> QED
  BY <1>1

LEMMA PlaceOfTop ==
  ASSUME Shape, OnceOnStacks, NEW w \in Worker, Top(w).fn = "task"
  PROVE  \A v \in Worker : \A j \in 1..Len(calls[v]) :
           calls[v][j].fn = "task" /\ calls[v][j].task = Top(w).task => v = w /\ j = 1
<1>1. 1 \in 1..Len(calls[w])
  BY TopFacts
<1> QED
  BY <1>1 DEF OnceOnStacks, Top

(* The innermost frame is a function's and goes on to g, ...               *)
LEMMA Moved ==
  ASSUME Shape, OnceOnStacks, NEW w \in Worker, Top(w).fn = "task",
         NEW g \in Frame, Goto(w, g), g.fn = "task", g.task = Top(w).task,
         g.owned = Top(w).owned, g.time = Top(w).time,
         g.at \in {"body", "push", "release"}, g.pos \in 1..Len(Body[g.task]) + 1,
         g.at = "push" => g.pos <= Len(Body[g.task]) /\ Body[g.task][g.pos].op = "run",
         g.at = "release" => g.pos > Len(Body[g.task]) /\ g.owned
  PROVE  Shape' /\ OnceOnStacks' /\ Active' = (Active \ {Top(w)}) \cup {g}
<1>1. PICK s : /\ Replaces(w, 1, s, 1) /\ calls'[w] = s
               /\ s[1] = g /\ Len(s) = Len(calls[w])
               /\ \A i \in 2..Len(s) : s[i] = calls[w][i]
  BY GotoReplaces
<1>2. /\ Len(calls[w]) \in Nat /\ 1 \in 1..Len(calls[w]) /\ 2 \in 1..Len(calls[w])
      /\ FrameOK(w, 1) /\ Nested(w, 1)
  BY TopFacts
<1>3. s[2] = calls[w][2] /\ 1 # Len(s) /\ Len(s) >= 1
  BY <1>1, <1>2
<1>4. FrameOK(w, 1)'
  <2>1. calls'[w][1] = g /\ calls'[w][1 + 1] = calls[w][1 + 1] /\ 1 # Len(calls'[w])
    BY ONLY <1>1, <1>3
  <2>2. Top(w).owned <=> calls[w][1 + 1].fn # "task"
    BY ONLY <1>2, Top(w).fn = "task" DEF FrameOK, Top
  <2>3. Top(w).task \in Task /\ Top(w).time \in 0..NumWorkers - 1
    BY ONLY <1>2, Top(w).fn = "task" DEF FrameOK, Top
  <2> QED
    BY ONLY <2>1, <2>2, <2>3, g.fn = "task", g.task = Top(w).task,
            g.owned = Top(w).owned, g.time = Top(w).time,
            g.at \in {"body", "push", "release"}, g.pos \in 1..Len(Body[g.task]) + 1
       DEF FrameOK
<1>5. Nested(w, 1)'
  BY <1>1, <1>2, <1>3 DEF Nested, Top, Submitted, Parent
<1>6. Shape'
  <2>1. \A i \in 1..1 : FrameOK(w, i)' /\ Nested(w, i)'
    <3>1. \A i \in 1..1 : i = 1
      OBVIOUS
    <3> QED
      BY <3>1, <1>4, <1>5
  <2> QED
    BY <1>1, <1>3, <2>1, ShapeStep
<1>7. NoOther(w, 1, s, 1)
  BY <1>1, <1>2, PlaceOfTop DEF NoOther
<1>8. /\ {calls[w][j] : j \in 1..1} = {Top(w)}
      /\ {s[i] : i \in {j \in 1..1 : s[j].fn = "task"}} = {g}
  <2>1. 1..1 = {1}
    OBVIOUS
  <2> QED
    BY <2>1, <1>1 DEF Top
<1> QED
  BY <1>1, <1>6, <1>7, <1>8, ActiveStep

(* ... or a loop's or a wait's.                                            *)
LEMMA Idle ==
  ASSUME Shape, OnceOnStacks, NEW w \in Worker, Top(w).fn \in {"loop", "wait"},
         NEW g \in Frame, Goto(w, g), g.fn = Top(w).fn, g.task = Top(w).task,
         g.pos = Top(w).pos, g.time \in 0..NumWorkers - 1,
         g.at = "look" \/ (g.fn = "wait" /\ g.at = "check")
  PROVE  Shape' /\ OnceOnStacks' /\ Active' = Active
<1>1. PICK s : /\ Replaces(w, 1, s, 1) /\ calls'[w] = s
               /\ s[1] = g /\ Len(s) = Len(calls[w])
               /\ \A i \in 2..Len(s) : s[i] = calls[w][i]
  BY GotoReplaces
<1>2. /\ Len(calls[w]) \in Nat /\ 1 \in 1..Len(calls[w])
      /\ FrameOK(w, 1) /\ Nested(w, 1)
      /\ Top(w).fn # "loop" => 2 \in 1..Len(calls[w])
  BY TopFacts
<1>3. Top(w).fn # "loop" => s[2] = calls[w][2]
  BY <1>1, <1>2
<1>4. FrameOK(w, 1)' /\ Nested(w, 1)'
  BY <1>1, <1>2, <1>3 DEF FrameOK, Nested, Top
<1>5. Shape'
  <2>1. \A i \in 1..1 : FrameOK(w, i)' /\ Nested(w, i)'
    <3>1. \A i \in 1..1 : i = 1
      OBVIOUS
    <3> QED
      BY <3>1, <1>4
  <2>2. Len(s) >= 1
    BY <1>1, <1>2
  <2> QED
    BY <1>1, <2>1, <2>2, ShapeStep
<1>6. 1..1 = {1} /\ s[1].fn # "task"
  BY <1>1
<1>7. NoOther(w, 1, s, 1)
  BY <1>6 DEF NoOther
<1>8. /\ {calls[w][j] : j \in 1..1} = {Top(w)}
      /\ {s[i] : i \in {j \in 1..1 : s[j].fn = "task"}} = {}
      /\ Top(w) \notin Active
  BY <1>6, ActiveMember DEF Top
<1>9. /\ OnceOnStacks'
      /\ Active' = (Active \ {calls[w][j] : j \in 1..1})
                   \cup {s[i] : i \in {j \in 1..1 : s[j].fn = "task"}}
  BY <1>1, <1>7, ActiveStep
<1> QED
  BY <1>5, <1>8, <1>9

(* The frames the steps put on the stacks.                                 *)
LEMMA NewFrames ==
  /\ \A t \in Task, b \in BOOLEAN :
       LET f == TaskFrame(t, b) IN
         /\ f \in Frame /\ f.fn = "task" /\ f.task = t /\ f.at = "body"
         /\ f.owned = b /\ f.pos = 1 /\ f.time = 0
  /\ \A t \in Task :
       LET f == WaitFrame(t) IN
         /\ f \in Frame /\ f.fn = "wait" /\ f.task = t /\ f.at = "check"
         /\ f.pos = 1 /\ f.time = 0
  /\ \A f \in Frame :
       /\ LET g == Advanced(f) IN
            /\ g \in Frame /\ g.fn = f.fn /\ g.task = f.task /\ g.at = "body"
            /\ g.owned = f.owned /\ g.pos = f.pos + 1 /\ g.time = f.time
       /\ f.fn \in {"loop", "wait"} /\ f.time \in 0..NumWorkers - 1 =>
            LET g == Tried(f) IN
              /\ g \in Frame /\ g.fn = f.fn /\ g.task = f.task /\ g.pos = f.pos
              /\ g.time \in 0..NumWorkers - 1
              /\ g.at = f.at \/ g.at = "look" \/ (g.fn = "wait" /\ g.at = "check")
<1>0. LoopFrame \in Frame
  BY DEF LoopFrame, Frame
<1>1. ASSUME NEW t \in Task, NEW b \in BOOLEAN
      PROVE  LET f == TaskFrame(t, b) IN
         /\ f \in Frame /\ f.fn = "task" /\ f.task = t /\ f.at = "body"
         /\ f.owned = b /\ f.pos = 1 /\ f.time = 0
  <2>1. PICK h \in Frame : h = LoopFrame
    BY <1>0
  <2>2. h.pos = 1 /\ h.time = 0
    BY <2>1 DEF LoopFrame
  <2>3. TaskFrame(t, b) = [h EXCEPT !.fn = "task", !.task = t, !.at = "body", !.owned = b]
    BY ONLY <2>1 DEF TaskFrame
  <2> QED
    BY <2>2, <2>3 DEF Frame
<1>2. ASSUME NEW t \in Task
      PROVE  LET f == WaitFrame(t) IN
         /\ f \in Frame /\ f.fn = "wait" /\ f.task = t /\ f.at = "check"
         /\ f.pos = 1 /\ f.time = 0
  <2>1. PICK h \in Frame : h = LoopFrame
    BY <1>0
  <2>2. h.pos = 1 /\ h.time = 0
    BY <2>1 DEF LoopFrame
  <2>3. WaitFrame(t) = [h EXCEPT !.fn = "wait", !.task = t, !.at = "check"]
    BY ONLY <2>1 DEF WaitFrame
  <2> QED
    BY <2>2, <2>3 DEF Frame
<1>3. ASSUME NEW f \in Frame
      PROVE  LET g == Advanced(f) IN
            /\ g \in Frame /\ g.fn = f.fn /\ g.task = f.task /\ g.at = "body"
            /\ g.owned = f.owned /\ g.pos = f.pos + 1 /\ g.time = f.time
  <2>1. PICK n \in Nat \ {0} : n = f.pos + 1
    BY DEF Frame
  <2>2. Advanced(f) = [f EXCEPT !.pos = n, !.at = "body"]
    BY ONLY <2>1 DEF Advanced
  <2>3. f.pos + 1 = n
    BY <2>1
  <2> QED
    BY <2>2, <2>3 DEF Frame
<1>4. ASSUME NEW f \in Frame, f.fn \in {"loop", "wait"}, f.time \in 0..NumWorkers - 1
      PROVE  LET g == Tried(f) IN
              /\ g \in Frame /\ g.fn = f.fn /\ g.task = f.task /\ g.pos = f.pos
              /\ g.time \in 0..NumWorkers - 1
              /\ g.at = f.at \/ g.at = "look" \/ (g.fn = "wait" /\ g.at = "check")
  <2>1. CASE f.time + 1 < NumWorkers
    <3>1. Tried(f) = [fn |-> f.fn, task |-> f.task, at |-> f.at, owned |-> f.owned,
                      pos |-> f.pos, time |-> f.time + 1]
      BY <2>1 DEF Tried, Frame
    <3> QED
      BY <1>4, <2>1, <3>1, PoolAssumption DEF Frame
  <2>2. CASE ~(f.time + 1 < NumWorkers)
    <3>1. Tried(f) = [fn |-> f.fn, task |-> f.task,
                      at |-> IF f.fn = "wait" THEN "check" ELSE "look", owned |-> f.owned,
                      pos |-> f.pos, time |-> 0]
      BY <2>2 DEF Tried, Frame
    <3> QED
      BY <1>4, <3>1, PoolAssumption DEF Frame
  <2> QED
    BY <2>1, <2>2
<1> QED
  BY <1>1, <1>2, <1>3, <1>4

(* A functor is taken from a deque and run on top of a look_for_task.      *)
LEMMA Landed ==
  ASSUME Shape, OnceOnStacks, NEW w \in Worker, Top(w).fn \in {"loop", "wait"},
         NEW u \in Task, Submitted(u), \A f \in Active : f.task # u,
         NEW g \in Frame, g.fn = Top(w).fn, g.task = Top(w).task,
         g.pos = Top(w).pos, g.time \in 0..NumWorkers - 1,
         g.at = "look" \/ (g.fn = "wait" /\ g.at = "check"),
         NEW f, f = TaskFrame(u, TRUE), NEW s, Pushed(w, s, f, g)
  PROVE  Shape' /\ OnceOnStacks' /\ Active' = Active \cup {f}
<1>1. /\ f \in Frame /\ f.fn = "task" /\ f.task = u /\ f.at = "body" /\ f.owned = TRUE
      /\ f.pos = 1 /\ f.time = 0
  BY ONLY NewFrames, f = TaskFrame(u, TRUE), u \in Task
<1>2. /\ Replaces(w, 1, s, 2) /\ calls'[w] = s
      /\ s[1] = f /\ s[2] = g /\ Len(s) = Len(calls[w]) + 1
      /\ \A i \in 3..Len(s) : s[i] = calls[w][i - 1]
  BY DEF Pushed
<1>3. /\ Len(calls[w]) \in Nat /\ 1 \in 1..Len(calls[w])
      /\ FrameOK(w, 1) /\ Nested(w, 1)
      /\ Top(w).fn # "loop" => 2 \in 1..Len(calls[w])
      /\ Len(Body[u]) \in Nat /\ NumWorkers \in Nat \ {0}
  BY TopFacts, OpsOfBody, PoolAssumption
<1>4. /\ Top(w).fn # "loop" => s[3] = calls[w][2]
      /\ 1 # Len(s) /\ Len(s) >= 1 /\ (2 = Len(s) <=> 1 = Len(calls[w]))
  <2>1. 2 \in 1..Len(calls[w]) => 3 \in 3..Len(s) /\ 3 - 1 = 2
    BY ONLY <1>2, <1>3
  <2>2. 1 # Len(s) /\ Len(s) >= 1 /\ (2 = Len(s) <=> 1 = Len(calls[w]))
    <3>1. \A k \in Nat : 1 \in 1..k => 1 # k + 1 /\ k + 1 >= 1 /\ (2 = k + 1 <=> 1 = k)
      BY ONLY SMT
    <3> QED
      BY ONLY <3>1, <1>2, <1>3
  <2> QED
    BY ONLY <1>2, <1>3, <2>1, <2>2
<1>5. /\ calls'[w][1] = f /\ calls'[w][1 + 1] = g /\ 1 # Len(calls'[w])
      /\ calls'[w][2] = g /\ 2 = Len(calls'[w]) <=> 1 = Len(calls[w])
      /\ Top(w).fn # "loop" => calls'[w][2 + 1] = calls[w][1 + 1]
  BY ONLY <1>2, <1>4
<1>6. 1 \in 1..Len(Body[u]) + 1 /\ 0 \in 0..NumWorkers - 1
  BY ONLY <1>3
<1>7. FrameOK(w, 1)' /\ Nested(w, 1)'
  <2>1. FrameOK(w, 1)'
    BY ONLY <1>1, <1>5, <1>6, u \in Task, g.fn = Top(w).fn, Top(w).fn \in {"loop", "wait"}
       DEF FrameOK
  <2>2. Nested(w, 1)'
    BY ONLY <1>1, <1>5, Submitted(u) DEF Nested, Submitted, Parent
  <2> QED
    BY <2>1, <2>2
<1>8. FrameOK(w, 2)' /\ Nested(w, 2)'
  <2>1. FrameOK(w, 2)'
    <3>1. /\ Top(w).fn = "loop" <=> 1 = Len(calls[w])
          /\ Top(w).fn = "loop" => Top(w).task = None
          /\ Top(w).fn = "wait" => calls[w][1 + 1].task = Top(w).task
          /\ Top(w).fn # "task" => Top(w).pos \in 1..Len(<<>>) + 1
      BY ONLY <1>3 DEF FrameOK, Top
    <3> QED
      BY ONLY <3>1, <1>5, Top(w).fn \in {"loop", "wait"}, g.fn = Top(w).fn,
              g.task = Top(w).task, g.pos = Top(w).pos, g.time \in 0..NumWorkers - 1,
              g.at = "look" \/ (g.fn = "wait" /\ g.at = "check") DEF FrameOK
  <2>2. Nested(w, 2)'
    <3>1. Top(w).fn = "wait" =>
            /\ calls[w][1 + 1].fn = "task"
            /\ calls[w][1 + 1].pos <= Len(Body[Top(w).task])
            /\ Body[Top(w).task][calls[w][1 + 1].pos] = Wait
      BY ONLY <1>3 DEF Nested, Top
    <3> QED
      BY ONLY <3>1, <1>5, Top(w).fn \in {"loop", "wait"}, g.fn = Top(w).fn,
              g.task = Top(w).task DEF Nested
  <2> QED
    BY <2>1, <2>2
<1>9. Shape'
  <2>1. \A i \in 1..2 : FrameOK(w, i)' /\ Nested(w, i)'
    <3>1. \A i \in 1..2 : i = 1 \/ i = 2
      OBVIOUS
    <3> QED
      BY <3>1, <1>7, <1>8
  <2> QED
    BY <1>2, <1>4, <2>1, ShapeStep
<1>10. 1..2 = {1, 2} /\ 1..1 = {1} /\ s[1].fn = "task" /\ s[2].fn # "task" /\ s[1].task = u
  <2>1. 1..2 = {1, 2} /\ 1..1 = {1}
    BY ONLY SMT
  <2> QED
    BY ONLY <2>1, <1>1, <1>2, g.fn = Top(w).fn, Top(w).fn \in {"loop", "wait"}
<1>11. NoOther(w, 1, s, 2)
  <2>1. \A v \in Worker : \A j \in 1..Len(calls[v]) :
          calls[v][j].fn = "task" => calls[v][j].task # u
    BY ActiveMember
  <2> QED
    BY ONLY <2>1, <1>10 DEF NoOther
<1>12. /\ OnceOnStacks'
       /\ Active' = (Active \ {calls[w][j] : j \in 1..1})
                    \cup {s[i] : i \in {j \in 1..2 : s[j].fn = "task"}}
  BY ONLY Shape, OnceOnStacks, w \in Worker, <1>2, <1>11, ActiveStep
<1>13. {calls[w][j] : j \in 1..1} = {Top(w)}
  BY ONLY <1>10 DEF Top
<1>14. {s[i] : i \in {j \in 1..2 : s[j].fn = "task"}} = {f}
  <2>1. {j \in 1..2 : s[j].fn = "task"} = {1}
    BY ONLY <1>10
  <2> QED
    BY ONLY <2>1, <1>2
<1>15. Top(w) \notin Active
  BY ActiveMember
<1> QED
  BY ONLY <1>9, <1>12, <1>13, <1>14, <1>15

(* A function calls another one.                                           *)
LEMMA Called ==
  ASSUME Shape, OnceOnStacks, NEW w \in Worker, Top(w).fn = "task", Top(w).at = "body",
         Top(w).pos <= Len(Body[Top(w).task]),
         NEW u \in Task, ~Submitted(u), \A f \in Active : f.task # u,
         NEW f, f = TaskFrame(u, FALSE), NEW g, g = Advanced(Top(w)),
         NEW s, Pushed(w, s, f, g)
  PROVE  Shape' /\ OnceOnStacks' /\ Active' = (Active \ {Top(w)}) \cup {f, g}
<1>1. /\ f \in Frame /\ f.fn = "task" /\ f.task = u /\ f.at = "body" /\ f.owned = FALSE
      /\ f.pos = 1 /\ f.time = 0
  BY ONLY NewFrames, f = TaskFrame(u, FALSE), u \in Task
<1>2. /\ Len(calls[w]) \in Nat /\ 1 \in 1..Len(calls[w]) /\ 2 \in 1..Len(calls[w])
      /\ FrameOK(w, 1) /\ Nested(w, 1) /\ Top(w) \in Frame
      /\ Len(Body[u]) \in Nat /\ NumWorkers \in Nat \ {0}
      /\ Top(w) \in Active /\ Top(w).task \in Task /\ Len(Body[Top(w).task]) \in Nat
  BY TopFacts, ActiveFrames, OpsOfBody, PoolAssumption
<1>3. /\ g \in Frame /\ g.fn = "task" /\ g.task = Top(w).task /\ g.at = "body"
      /\ g.owned = Top(w).owned /\ g.pos = Top(w).pos + 1 /\ g.time = Top(w).time
  BY <1>2, NewFrames
<1>4. /\ Replaces(w, 1, s, 2) /\ calls'[w] = s
      /\ s[1] = f /\ s[2] = g /\ Len(s) = Len(calls[w]) + 1
      /\ \A i \in 3..Len(s) : s[i] = calls[w][i - 1]
  BY DEF Pushed
<1>5. s[3] = calls[w][2] /\ 1 # Len(s) /\ 2 # Len(s) /\ 1 # Len(calls[w]) /\ Len(s) >= 1
  BY <1>2, <1>4
<1>6. /\ calls'[w][1] = f /\ calls'[w][1 + 1] = g /\ 1 # Len(calls'[w])
      /\ calls'[w][2] = g /\ calls'[w][2 + 1] = calls[w][1 + 1] /\ 2 # Len(calls'[w])
  BY ONLY <1>4, <1>5
<1>7. 1 \in 1..Len(Body[u]) + 1 /\ 0 \in 0..NumWorkers - 1
  BY ONLY <1>2
<1>8. FrameOK(w, 1)' /\ Nested(w, 1)'
  <2>1. FrameOK(w, 1)'
    BY ONLY <1>1, <1>3, <1>6, <1>7, u \in Task DEF FrameOK
  <2>2. Nested(w, 1)'
    BY ONLY <1>1, <1>6, ~Submitted(u) DEF Nested, Submitted, Parent
  <2> QED
    BY <2>1, <2>2
<1>9. FrameOK(w, 2)' /\ Nested(w, 2)'
  <2>1. g.pos \in 1..Len(Body[g.task]) + 1
    <3>1. Top(w).pos \in Nat
      BY ONLY <1>2 DEF Frame
    <3> QED
      BY ONLY <3>1, <1>2, <1>3, Top(w).pos <= Len(Body[Top(w).task])
  <2>2. FrameOK(w, 2)'
    <3>1. /\ Top(w).owned <=> calls[w][1 + 1].fn # "task"
          /\ Top(w).time \in 0..NumWorkers - 1
      BY ONLY <1>2, Top(w).fn = "task" DEF FrameOK, Top
    <3> QED
      BY ONLY <2>1, <3>1, <1>2, <1>3, <1>6 DEF FrameOK
  <2>3. Nested(w, 2)'
    <3>1. Top(w).owned <=> Submitted(Top(w).task)
      BY ONLY <1>2, Top(w).fn = "task" DEF Nested, Top
    <3> QED
      BY ONLY <3>1, <1>3, <1>6 DEF Nested, Submitted, Parent
  <2> QED
    BY <2>2, <2>3
<1>10. Shape'
  <2>1. \A i \in 1..2 : FrameOK(w, i)' /\ Nested(w, i)'
    <3>1. \A i \in 1..2 : i = 1 \/ i = 2
      OBVIOUS
    <3> QED
      BY <3>1, <1>8, <1>9
  <2> QED
    BY <1>4, <1>5, <2>1, ShapeStep
<1>11. /\ 1..2 = {1, 2} /\ 1..1 = {1} /\ s[1].fn = "task" /\ s[2].fn = "task"
       /\ s[1].task = u /\ s[2].task = Top(w).task /\ u # Top(w).task
  <2>1. 1..2 = {1, 2} /\ 1..1 = {1}
    BY ONLY SMT
  <2>2. u # Top(w).task
    BY <1>2
  <2> QED
    BY ONLY <2>1, <2>2, <1>1, <1>3, <1>4
<1>12. NoOther(w, 1, s, 2)
  <2>1. \A v \in Worker : \A j \in 1..Len(calls[v]) :
          /\ calls[v][j].fn = "task" => calls[v][j].task # u
          /\ calls[v][j].fn = "task" /\ calls[v][j].task = Top(w).task => v = w /\ j <= 1
    <3>1. \A v \in Worker : \A j \in 1..Len(calls[v]) :
            calls[v][j].fn = "task" => calls[v][j].task # u
      BY ActiveMember
    <3>2. \A v \in Worker : \A j \in 1..Len(calls[v]) :
            calls[v][j].fn = "task" /\ calls[v][j].task = Top(w).task => v = w /\ j = 1
      BY PlaceOfTop
    <3> QED
      BY ONLY <3>1, <3>2
  <2> QED
    BY ONLY <2>1, <1>11 DEF NoOther
<1>13. /\ OnceOnStacks'
       /\ Active' = (Active \ {calls[w][j] : j \in 1..1})
                    \cup {s[i] : i \in {j \in 1..2 : s[j].fn = "task"}}
  BY ONLY Shape, OnceOnStacks, w \in Worker, <1>4, <1>12, ActiveStep
<1>14. {calls[w][j] : j \in 1..1} = {Top(w)}
  BY ONLY <1>11 DEF Top
<1>15. {s[i] : i \in {j \in 1..2 : s[j].fn = "task"}} = {f, g}
  <2>1. {j \in 1..2 : s[j].fn = "task"} = {1, 2}
    BY ONLY <1>11
  <2> QED
    BY ONLY <2>1, <1>4
<1> QED
  BY ONLY <1>10, <1>13, <1>14, <1>15

(* A function waits for its group.                                         *)
LEMMA OnTopReplaces ==
  ASSUME Shape, NEW w \in Worker, NEW f \in Frame,
         calls' = [calls EXCEPT ![w] = <<f>> \o @]
  PROVE  \E s : Pushed(w, s, f, Top(w))
<1> DEFINE s == <<f>> \o calls[w]
<1>1. s = <<f>> \o calls[w] /\ calls' = [calls EXCEPT ![w] = s]
  OBVIOUS
<1> HIDE DEF s
<1>2. calls[w] \in Seq(Frame) /\ Len(calls[w]) \in Nat /\ Len(calls[w]) >= 1 /\ calls'[w] = s
  BY ONLY Shape, w \in Worker, <1>1 DEF Shape
<1>3. /\ s \in Seq(Frame) /\ Len(s) = Len(calls[w]) + 1 /\ s[1] = f
      /\ \A i \in 2..Len(s) : s[i] = calls[w][i - 1]
  BY ONLY <1>1, <1>2, f \in Frame
<1>4. s[2] = Top(w) /\ \A i \in 3..Len(s) : i \in 2..Len(s)
  <2>1. 2 \in 2..Len(s) /\ 2 - 1 = 1 /\ \A i \in 3..Len(s) : i \in 2..Len(s)
    BY ONLY <1>2, <1>3
  <2> QED
    BY ONLY <2>1, <1>3 DEF Top
<1>5. ASSUME NEW i \in 2 + 1..Len(s)
      PROVE  s[i] = calls[w][i - 2 + 1]
  <2>1. i \in 2..Len(s) /\ i - 2 + 1 = i - 1
    BY ONLY <1>2, <1>3, i \in 2 + 1..Len(s)
  <2> QED
    BY ONLY <2>1, <1>3
<1>6. Replaces(w, 1, s, 2)
  <2>1. 1 \in 1..Len(calls[w]) /\ 2 \in 0..2 /\ Len(s) = Len(calls[w]) - 1 + 2
    BY ONLY <1>2, <1>3
  <2> QED
    BY ONLY <2>1, <1>1, <1>3, <1>5, Zenon DEF Replaces
<1>7. Pushed(w, s, f, Top(w))
  BY ONLY <1>2, <1>3, <1>4, <1>6 DEF Pushed
<1> QED
  BY ONLY <1>7

LEMMA WaitBegun ==
  ASSUME Shape, OnceOnStacks, NEW w \in Worker, Top(w).fn = "task", Top(w).at = "body",
         Top(w).pos <= Len(Body[Top(w).task]), Body[Top(w).task][Top(w).pos] = Wait,
         NEW f, f = WaitFrame(Top(w).task), NEW s, Pushed(w, s, f, Top(w))
  PROVE  Shape' /\ OnceOnStacks' /\ Active' = Active
<1>1. /\ Replaces(w, 1, s, 2) /\ calls'[w] = s
      /\ s[1] = f /\ s[2] = Top(w) /\ Len(s) = Len(calls[w]) + 1
      /\ \A i \in 3..Len(s) : s[i] = calls[w][i - 1]
  BY DEF Pushed
<1>2. /\ Len(calls[w]) \in Nat /\ 1 \in 1..Len(calls[w]) /\ 2 \in 1..Len(calls[w])
      /\ FrameOK(w, 1) /\ Nested(w, 1) /\ Top(w) \in Frame
      /\ NumWorkers \in Nat \ {0} /\ Top(w) \in Active /\ Top(w).task \in Task
  BY TopFacts, ActiveFrames, PoolAssumption
<1>3. /\ f \in Frame /\ f.fn = "wait" /\ f.task = Top(w).task /\ f.at = "check"
      /\ f.pos = 1 /\ f.time = 0
  BY ONLY NewFrames, f = WaitFrame(Top(w).task), <1>2
<1>4. /\ calls'[w][1] = f /\ calls'[w][1 + 1] = Top(w) /\ 1 # Len(calls'[w]) /\ Len(s) >= 1
      /\ calls'[w][2] = Top(w) /\ calls'[w][2 + 1] = calls[w][1 + 1]
      /\ 2 # Len(calls'[w]) /\ 1 # Len(calls[w])
  <2>1. /\ 3 \in 3..Len(s) /\ 3 - 1 = 2 /\ 1 # Len(s) /\ 2 # Len(s)
        /\ Len(s) >= 1 /\ 1 # Len(calls[w])
    BY ONLY <1>1, <1>2
  <2> QED
    BY ONLY <1>1, <2>1
<1>5. 1 \in 1..0 + 1 /\ Len(<<>>) = 0 /\ 0 \in 0..NumWorkers - 1
  BY ONLY <1>2
<1>6. FrameOK(w, 1)' /\ Nested(w, 1)'
  <2>1. FrameOK(w, 1)'
    BY ONLY <1>3, <1>4, <1>5 DEF FrameOK
  <2>2. Nested(w, 1)'
    BY ONLY <1>3, <1>4, Top(w).fn = "task", Top(w).pos <= Len(Body[Top(w).task]),
            Body[Top(w).task][Top(w).pos] = Wait DEF Nested
  <2> QED
    BY <2>1, <2>2
<1>7. FrameOK(w, 2)' /\ Nested(w, 2)'
  <2>1. FrameOK(w, 2)'
    BY ONLY <1>2, <1>4, Top(w).fn = "task" DEF FrameOK, Top
  <2>2. Nested(w, 2)'
    <3>1. Top(w).owned <=> Submitted(Top(w).task)
      BY ONLY <1>2, Top(w).fn = "task" DEF Nested, Top
    <3> QED
      BY ONLY <3>1, <1>4, Top(w).fn = "task", Top(w).at = "body" DEF Nested, Submitted, Parent
  <2> QED
    BY <2>1, <2>2
<1>8. Shape'
  <2>1. \A i \in 1..2 : FrameOK(w, i)' /\ Nested(w, i)'
    <3>1. \A i \in 1..2 : i = 1 \/ i = 2
      OBVIOUS
    <3> QED
      BY <3>1, <1>6, <1>7
  <2> QED
    BY <1>1, <1>4, <2>1, ShapeStep
<1>9. 1..2 = {1, 2} /\ 1..1 = {1} /\ s[1].fn # "task" /\ s[2].fn = "task" /\ s[2].task = Top(w).task
  <2>1. 1..2 = {1, 2} /\ 1..1 = {1}
    BY ONLY SMT
  <2> QED
    BY ONLY <2>1, <1>1, <1>3, Top(w).fn = "task"
<1>10. NoOther(w, 1, s, 2)
  <2>1. \A v \in Worker : \A j \in 1..Len(calls[v]) :
          calls[v][j].fn = "task" /\ calls[v][j].task = Top(w).task => v = w /\ j = 1
    BY PlaceOfTop
  <2> QED
    BY ONLY <2>1, <1>9 DEF NoOther
<1>11. /\ OnceOnStacks'
       /\ Active' = (Active \ {calls[w][j] : j \in 1..1})
                    \cup {s[i] : i \in {j \in 1..2 : s[j].fn = "task"}}
  BY ONLY Shape, OnceOnStacks, w \in Worker, <1>1, <1>10, ActiveStep
<1>12. {calls[w][j] : j \in 1..1} = {Top(w)}
  BY ONLY <1>9 DEF Top
<1>13. {s[i] : i \in {j \in 1..2 : s[j].fn = "task"}} = {Top(w)}
  <2>1. {j \in 1..2 : s[j].fn = "task"} = {2}
    BY ONLY <1>9
  <2> QED
    BY ONLY <2>1, <1>1
<1> QED
  BY ONLY <1>2, <1>8, <1>11, <1>12, <1>13

(* A function's frame goes.                                                *)
LEMMA Popped ==
  ASSUME Shape, OnceOnStacks, NEW w \in Worker, Top(w).fn = "task",
         NEW s, Replaces(w, 1, s, 0), Len(s) = Len(calls[w]) - 1
  PROVE  Shape' /\ OnceOnStacks' /\ Active' = Active \ {Top(w)}
<1>1. Len(calls[w]) \in Nat /\ 2 \in 1..Len(calls[w])
  BY TopFacts
<1>2. Len(s) >= 1 /\ 1..0 = {} /\ 1..1 = {1}
  BY ONLY <1>1, Len(s) = Len(calls[w]) - 1
<1>3. Shape'
  BY <1>2, ShapeStep
<1>4. NoOther(w, 1, s, 0)
  BY ONLY <1>2 DEF NoOther
<1>5. /\ OnceOnStacks'
      /\ Active' = (Active \ {calls[w][j] : j \in 1..1})
                   \cup {s[i] : i \in {j \in 1..0 : s[j].fn = "task"}}
  BY <1>4, ActiveStep
<1>6. {calls[w][j] : j \in 1..1} = {Top(w)}
  BY ONLY <1>2 DEF Top
<1>7. {s[i] : i \in {j \in 1..0 : s[j].fn = "task"}} = {}
  BY ONLY <1>2
<1> QED
  BY ONLY <1>3, <1>5, <1>6, <1>7

(* A wait is over: the function under it goes on.                          *)
LEMMA Resumed ==
  ASSUME Shape, OnceOnStacks, NEW w \in Worker, Top(w).fn = "wait",
         NEW h, h = calls[w][2], NEW s, Resumes(w, s, Advanced(h))
  PROVE  /\ Shape' /\ OnceOnStacks' /\ Active' = (Active \ {h}) \cup {Advanced(h)}
         /\ h \in Active /\ h.at = "body" /\ h.task = Top(w).task
         /\ h.pos <= Len(Body[h.task]) /\ Body[h.task][h.pos] = Wait
<1> DEFINE g == Advanced(h)
<1>0. /\ Replaces(w, 2, s, 1) /\ calls'[w] = s /\ s[1] = Advanced(h)
      /\ Len(s) = Len(calls[w]) - 1 /\ \A i \in 2..Len(s) : s[i] = calls[w][i + 1]
  BY DEF Resumes
<1>1. /\ Len(calls[w]) \in Nat /\ 2 \in 1..Len(calls[w])
      /\ FrameOK(w, 1) /\ Nested(w, 1) /\ FrameOK(w, 2) /\ Nested(w, 2)
  BY TopFacts
<1>2. /\ h.fn = "task" /\ h.task = Top(w).task /\ h.at = "body"
      /\ h.pos <= Len(Body[h.task]) /\ Body[h.task][h.pos] = Wait
  <2>1. /\ calls[w][1 + 1].fn = "task" /\ calls[w][1 + 1].task = Top(w).task
        /\ calls[w][1 + 1].pos <= Len(Body[Top(w).task])
        /\ Body[Top(w).task][calls[w][1 + 1].pos] = Wait
    BY ONLY <1>1, Top(w).fn = "wait" DEF FrameOK, Nested, Top
  <2>2. h.fn = "task" => (h.at # "body" => 2 = 1)
    BY ONLY <1>1, h = calls[w][2] DEF Nested
  <2>3. h.fn = "task" => h.at \in {"body", "push", "release"}
    BY ONLY <1>1, h = calls[w][2] DEF FrameOK
  <2> QED
    BY ONLY <2>1, <2>2, <2>3, h = calls[w][2]
<1>3. h \in Active /\ h \in Frame /\ h.task \in Task /\ Len(Body[h.task]) \in Nat
  BY <1>1, <1>2, ActiveMember, ActiveFrames, OpsOfBody
<1>4. /\ g \in Frame /\ g.fn = "task" /\ g.task = h.task /\ g.at = "body"
      /\ g.owned = h.owned /\ g.pos = h.pos + 1 /\ g.time = h.time
  BY ONLY <1>2, <1>3, NewFrames
<1> HIDE DEF g
<1>5. /\ h.owned <=> calls[w][2 + 1].fn # "task"
      /\ h.time \in 0..NumWorkers - 1
      /\ 2 # Len(calls[w])
  BY ONLY <1>1, <1>2, h = calls[w][2] DEF FrameOK
<1>6. /\ calls'[w][1] = g /\ calls'[w][1 + 1] = calls[w][2 + 1] /\ 1 # Len(calls'[w]) /\ Len(s) >= 1
  <2>1. 2 \in 2..Len(s) /\ 1 # Len(s) /\ Len(s) >= 1
    <3>1. \A k \in Nat : 2 \in 1..k /\ 2 # k => 2 \in 2..k - 1 /\ 1 # k - 1 /\ k - 1 >= 1
      BY ONLY SMT
    <3> QED
      BY ONLY <3>1, <1>1, <1>5, <1>0
  <2>2. s[1] = g
    BY <1>0 DEF g
  <2> QED
    BY ONLY <1>0, <2>1, <2>2
<1>7. FrameOK(w, 1)' /\ Nested(w, 1)'
  <2>1. g.pos \in 1..Len(Body[g.task]) + 1
    <3>1. h.pos \in Nat
      BY ONLY <1>3 DEF Frame
    <3> QED
      BY ONLY <3>1, <1>2, <1>3, <1>4
  <2>2. FrameOK(w, 1)'
    <3>1. g.owned <=> calls'[w][1 + 1].fn # "task"
      BY ONLY <1>4, <1>5, <1>6
    <3>2. g.time \in 0..NumWorkers - 1
      BY ONLY <1>4, <1>5
    <3> QED
      BY ONLY <2>1, <3>1, <3>2, <1>3, <1>4, <1>6 DEF FrameOK
  <2>3. Nested(w, 1)'
    <3>1. h.owned <=> Submitted(h.task)
      BY ONLY <1>1, <1>2, h = calls[w][2] DEF Nested
    <3> QED
      BY ONLY <3>1, <1>4, <1>6 DEF Nested, Submitted, Parent
  <2> QED
    BY <2>2, <2>3
<1>8. 1..2 = {1, 2} /\ 1..1 = {1} /\ s[1].fn = "task" /\ s[1].task = h.task /\ s[1] = g
  <2>1. 1..2 = {1, 2} /\ 1..1 = {1}
    BY ONLY SMT
  <2>2. s[1] = g
    BY <1>0 DEF g
  <2> QED
    BY ONLY <2>1, <2>2, <1>4
<1>9. Shape'
  <2>1. \A i \in 1..1 : FrameOK(w, i)' /\ Nested(w, i)'
    BY ONLY <1>7, <1>8
  <2> QED
    BY <1>0, <1>6, <2>1, ShapeStep
<1>10. NoOther(w, 2, s, 1)
  <2>1. \A v \in Worker : \A j \in 1..Len(calls[v]) :
          calls[v][j].fn = "task" /\ calls[v][j].task = h.task => v = w /\ j = 2
    BY <1>1, <1>2 DEF OnceOnStacks
  <2> QED
    BY ONLY <2>1, <1>8 DEF NoOther
<1>11. /\ OnceOnStacks'
       /\ Active' = (Active \ {calls[w][j] : j \in 1..2})
                    \cup {s[i] : i \in {j \in 1..1 : s[j].fn = "task"}}
  BY ONLY Shape, OnceOnStacks, w \in Worker, <1>0, <1>10, ActiveStep
<1>12. {calls[w][j] : j \in 1..2} = {Top(w), h} /\ Top(w) \notin Active
  BY <1>8, ActiveMember DEF Top
<1>13. {s[i] : i \in {j \in 1..1 : s[j].fn = "task"}} = {g}
  <2>1. {j \in 1..1 : s[j].fn = "task"} = {1}
    BY ONLY <1>8
  <2> QED
    BY ONLY <2>1, <1>8
<1>14. Active' = (Active \ {h}) \cup {g}
  BY ONLY <1>11, <1>12, <1>13
<1> QED
  BY <1>2, <1>3, <1>9, <1>11, <1>14 DEF g

-----------------------------------------------------------------------------
(* The deques.                                                             *)
LEMMA PoolPush ==
  ASSUME queue \in [Worker -> Seq(Task)], OnceInDeques, NEW v \in Worker, NEW u \in Task,
         u \notin Pooled, queue' = [queue EXCEPT ![v] = <<u>> \o @]
  PROVE  queue' \in [Worker -> Seq(Task)] /\ OnceInDeques' /\ Pooled' = Pooled \cup {u}
<1>1. Apart(Worker, queue) /\ Pushes(Worker, Task, queue, queue', v, u)
  BY DEF OnceInDeques, Pooled, Pushes
<1>2. /\ queue' \in [Worker -> Seq(Task)] /\ Apart(Worker, queue')
      /\ Held(Worker, queue') = Held(Worker, queue) \cup {u}
  BY ONLY <1>1, PushOnTop
<1> QED
  BY ONLY <1>2 DEF OnceInDeques, Pooled

LEMMA PoolTake ==
  ASSUME queue \in [Worker -> Seq(Task)], OnceInDeques, NEW v \in Worker, queue[v] # <<>>,
         queue' = [queue EXCEPT ![v] = Tail(@)]
  PROVE  /\ queue' \in [Worker -> Seq(Task)] /\ OnceInDeques'
         /\ queue[v][1] \in Pooled /\ queue[v][1] \in Task
         /\ Pooled' = Pooled \ {queue[v][1]}
<1>1. Apart(Worker, queue) /\ Takes(Worker, Task, queue, queue', v)
  BY DEF OnceInDeques, Takes
<1>2. /\ queue' \in [Worker -> Seq(Task)] /\ Apart(Worker, queue')
      /\ queue[v][1] \in Held(Worker, queue) /\ queue[v][1] \in Task
      /\ Held(Worker, queue') = Held(Worker, queue) \ {queue[v][1]}
  BY ONLY <1>1, TakeTop
<1> QED
  BY ONLY <1>2 DEF OnceInDeques, Pooled

-----------------------------------------------------------------------------
(* The life of a function.                                                 *)
LEMMA NotPast ==
  ASSUME Lifecycle, NEW t \in Task, ~Past(t)
  PROVE  ~Out(t) /\ runs[t] = 0
BY DEF Lifecycle

(* What the step of f's body is about to submit or call is nowhere yet.    *)
LEMMA Future ==
  ASSUME Shape, OnceOnStacks, Lifecycle, NEW f \in Active, f.at \in {"body", "push"},
         f.pos <= Len(Body[f.task]), NEW u, u = Body[f.task][f.pos].fn,
         Body[f.task][f.pos].op \in {"run", "call"}
  PROVE  /\ u \in Task /\ Site[u] = <<f.task, f.pos>> /\ Parent(u) = f.task
         /\ ~Past(u) /\ ~Out(u) /\ runs[u] = 0 /\ u # f.task
         /\ Submitted(u) <=> Body[f.task][f.pos].op = "run"
<1> DEFINE p == f.task
<1>1. p \in Task /\ f.pos \in 1..Len(Body[p])
  <2>1. p \in Task /\ f.pos \in 1..Len(Body[p]) + 1
    BY ActiveFrames
  <2>2. Len(Body[p]) \in Nat
    BY <2>1, OpsOfBody
  <2> QED
    BY ONLY <2>1, <2>2, f.pos <= Len(Body[f.task])
<1>2. u \in Task
  BY <1>1, OpsOfBody
<1>3. Site[u] = <<p, f.pos>> /\ Parent(u) = p
  <2>1. \A q \in Task : \A i \in 1..Len(Body[q]) : \A t \in Task :
          Body[q][i].fn = t => Site[t] = <<q, i>> /\ Parent(t) = q
    BY ONLY SiteUnique
  <2> QED
    BY ONLY <1>1, <1>2, <2>1, u = Body[f.task][f.pos].fn
<1>4. p \notin Client /\ runs[p] # 1
  <2>1. runs[p] = 0
    BY DEF Lifecycle
  <2> QED
    BY ONLY <1>1, <2>1, PoolAssumption
<1>5. ~\E h \in Active : h.task = p /\ h.pos > f.pos
  <2>1. \A h \in Active : h.task = p => h = f
    BY OneFrame
  <2>2. f.pos \in Nat
    BY ONLY <1>1
  <2> QED
    BY ONLY <2>1, <2>2
<1>6. ~Past(u)
  <2>1. Site[u][2] = f.pos
    BY ONLY <1>3
  <2> QED
    BY ONLY <1>3, <1>4, <1>5, <2>1 DEF Past
<1>7. ~Out(u) /\ runs[u] = 0
  BY <1>2, <1>6, NotPast
<1>8. u # p
  BY <1>7 DEF Out
<1>9. Submitted(u) <=> Body[p][f.pos].op = "run"
  <2>1. Site[u][2] = f.pos
    BY ONLY <1>3
  <2> QED
    BY ONLY <1>3, <1>4, <2>1 DEF Submitted
<1> QED
  BY <1>2, <1>3, <1>6, <1>7, <1>8, <1>9

(* What a client is about to submit is nowhere yet.                        *)
LEMMA FutureRoot ==
  ASSUME Shape, Lifecycle, NEW c \in Client, client[c] = "out", NEW u, u = Root[c]
  PROVE  /\ u \in Task /\ Parent(u) = c /\ Submitted(u)
         /\ ~Past(u) /\ ~Out(u) /\ runs[u] = 0
         /\ ~Announced(u)
<1>1. u \in Task /\ Parent(u) = c
  BY SiteUnique
<1>2. c \notin Task
  BY ONLY PoolAssumption, c \in Client
<1>3. \A f \in Active : f.task # c
  BY <1>2, ActiveFrames
<1>4. ~Past(u)
  BY ONLY <1>1, <1>2, <1>3, client[c] = "out" DEF Past
<1>5. ~Out(u) /\ runs[u] = 0
  BY <1>1, <1>4, NotPast
<1>6. Submitted(u)
  BY ONLY <1>1, c \in Client DEF Submitted
<1>7. ~Announced(u)
  BY ONLY <1>1, <1>3 DEF Announced
<1> QED
  BY <1>1, <1>4, <1>5, <1>6, <1>7

LEMMA LiveIsHasGroup ==
  ASSUME Shape, NEW p \in Task \cup Client
  PROVE  HasGroup(p) => Live(p)
<1>1. \A f \in Active : f.task \in Task
  BY ActiveFrames
<1>2. (\E f \in Active : f.task = p /\ \E j \in f.pos..Len(Body[p]) : Body[p][j] = Wait)
      <=> \E w \in Worker : \E i \in 1..Len(calls[w]) :
            /\ calls[w][i].fn = "task" /\ calls[w][i].task = p
            /\ \E j \in calls[w][i].pos..Len(Body[p]) : Body[p][j] = Wait
  BY ONLY ActiveMember
<1>3. p \in Client => p \notin Task
  BY ONLY PoolAssumption
<1> QED
  BY ONLY <1>1, <1>2, <1>3, p \in Task \cup Client DEF Live, HasGroup

(* The steps of workers leave the clients' functors alone.                 *)
LEMMA CarriedStays ==
  ASSUME client' = client
  PROVE  \A t : Carried(t)' <=> Carried(t)
BY DEF Carried, Parent

(* Of a client that does not wait for begin_arena the pool has nothing.    *)
LEMMA AwayFromPool ==
  ASSUME Shape, GroupsHeld, NEW c \in Client, client[c] # "wait", NEW u, u = Root[c]
  PROVE  u \in Task /\ Parent(u) = c /\ Submitted(u) /\ ~Out(u) /\ ~Announced(u)
<1>1. u \in Task /\ Parent(u) = c /\ Submitted(u)
  BY SiteUnique DEF Submitted
<1>2. \A f \in Active : f.task # c
  BY ActiveFrames, PoolAssumption
<1>3. ~HasGroup(c)
  BY ONLY <1>2, client[c] # "wait" DEF HasGroup
<1>4. ~Out(u)
  BY <1>1, <1>3 DEF GroupsHeld
<1>5. ~Announced(u)
  BY ONLY <1>1, <1>2 DEF Announced
<1> QED
  BY <1>1, <1>4, <1>5

LEMMA NotCarried ==
  ASSUME Shape, NEW t, HasGroup(Parent(t)) \/ Parent(t) \in Task
  PROVE  ~Carried(t)
<1>1. Parent(t) \in Client => \A f \in Active : f.task # Parent(t)
  BY ActiveFrames, PoolAssumption
<1> QED
  BY <1>1, PoolAssumption DEF Carried, HasGroup, Holding

-----------------------------------------------------------------------------
(* The counters.                                                           *)
LEMMA SameCounts ==
  ASSUME CountsExact, pending' = pending,
         \A t \in Task : Submitted(t) => (Counting(t)' <=> Counting(t))
  PROVE  CountsExact'
<1>1. \A p : Members(p)' = Members(p)
  BY DEF Members, Submitted, Parent
<1> QED
  BY <1>1 DEF CountsExact

LEMMA OneMore ==
  ASSUME CountsExact, pending \in [Task \cup Client -> Nat], NEW u \in Task, Submitted(u),
         ~Counting(u), pending' = [pending EXCEPT ![Parent(u)] = @ + 1],
         \A t \in Task : Submitted(t) => (Counting(t)' <=> Counting(t) \/ t = u)
  PROVE  CountsExact' /\ pending' \in [Task \cup Client -> Nat]
<1> DEFINE q == Parent(u)
<1>1. q \in Task \cup Client
  BY SiteUnique
<1>2. \A p : p # q => Members(p)' = Members(p)
  BY DEF Members, Submitted, Parent
<1>3. Members(q)' = Members(q) \cup {u} /\ u \notin Members(q)
  BY DEF Members, Submitted, Parent
<1>4. IsFiniteSet(Members(q)) /\ pending[q] = Cardinality(Members(q))
  BY <1>1 DEF CountsExact
<1>5. IsFiniteSet(Members(q) \cup {u}) /\ Cardinality(Members(q) \cup {u}) = Cardinality(Members(q)) + 1
  BY <1>3, <1>4, FS_AddElement
<1>6. /\ pending' \in [Task \cup Client -> Nat] /\ pending'[q] = pending[q] + 1
      /\ \A p \in Task \cup Client : p # q => pending'[p] = pending[p]
  BY <1>1
<1> HIDE DEF q
<1>7. ASSUME NEW p \in Task \cup Client
      PROVE  IsFiniteSet(Members(p)') /\ pending'[p] = Cardinality(Members(p)')
  <2>1. CASE p = q
    BY ONLY <1>3, <1>4, <1>5, <1>6, <2>1
  <2>2. CASE p # q
    BY <1>2, <1>6, <2>2 DEF CountsExact
  <2> QED
    BY <2>1, <2>2
<1> QED
  BY <1>6, <1>7 DEF CountsExact

LEMMA OneLess ==
  ASSUME CountsExact, pending \in [Task \cup Client -> Nat], NEW u \in Task, Submitted(u),
         Counting(u), pending' = [pending EXCEPT ![Parent(u)] = @ - 1],
         \A t \in Task : Submitted(t) => (Counting(t)' <=> Counting(t) /\ t # u)
  PROVE  CountsExact' /\ pending' \in [Task \cup Client -> Nat]
<1> DEFINE q == Parent(u)
<1>1. q \in Task \cup Client
  BY SiteUnique
<1>2. \A p : p # q => Members(p)' = Members(p)
  BY DEF Members, Submitted, Parent
<1>3. Members(q)' = Members(q) \ {u} /\ u \in Members(q)
  BY DEF Members, Submitted, Parent
<1>4. IsFiniteSet(Members(q)) /\ pending[q] = Cardinality(Members(q)) /\ pending[q] \in Nat
  BY <1>1 DEF CountsExact
<1>5. IsFiniteSet(Members(q) \ {u}) /\ Cardinality(Members(q) \ {u}) = Cardinality(Members(q)) - 1
      /\ Cardinality(Members(q) \ {u}) \in Nat
  BY <1>3, <1>4, FS_RemoveElement, FS_CardinalityType
<1>6. /\ pending' \in [Task \cup Client -> Int] /\ pending'[q] = pending[q] - 1
      /\ \A p \in Task \cup Client : p # q => pending'[p] = pending[p]
  BY <1>1
<1>7. pending'[q] \in Nat
  BY ONLY <1>4, <1>5, <1>6
<1> HIDE DEF q
<1>8. ASSUME NEW p \in Task \cup Client
      PROVE  IsFiniteSet(Members(p)') /\ pending'[p] = Cardinality(Members(p)') /\ pending'[p] \in Nat
  <2>1. CASE p = q
    BY ONLY <1>3, <1>4, <1>5, <1>6, <1>7, <2>1
  <2>2. CASE p # q
    BY <1>2, <1>6, <2>2 DEF CountsExact
  <2> QED
    BY <2>1, <2>2
<1>9. pending' \in [Task \cup Client -> Nat]
  BY ONLY <1>6, <1>8
<1> QED
  BY <1>8, <1>9 DEF CountsExact

(* A counter at zero: the group has no functors.                           *)
LEMMA NoMembers ==
  ASSUME CountsExact, NEW p \in Task \cup Client, pending[p] = 0
  PROVE  \A t \in Task : Submitted(t) /\ Parent(t) = p => ~Counting(t)
<1>1. Members(p) = {}
  BY FS_EmptySet DEF CountsExact
<1> QED
  BY <1>1 DEF Members

-----------------------------------------------------------------------------
(* Sites stay behind when nothing goes backwards.                          *)
LEMMA PastGrows ==
  ASSUME \A c \in Client : client[c] # "out" => client'[c] # "out",
         \A t \in Task : runs[t] = 1 => runs'[t] = 1,
         \A f \in Active : /\ f.pos \in Nat
                           /\ \/ f.task \in Task /\ runs'[f.task] = 1
                              \/ \E g \in Active' : g.task = f.task /\ g.pos \in Nat /\ g.pos >= f.pos
  PROVE  \A t \in Task : Past(t) => Past(t)'
<1>1. ASSUME NEW t \in Task, Past(t)
      PROVE  Past(t)'
  <2> DEFINE p == Parent(t)
             n == Site[t][2]
  <2>1. p \in Task \cup Client /\ n \in Nat
    BY SiteUnique
  <2>2. Past(t)' <=> \/ p \in Client /\ client'[p] # "out"
                     \/ p \in Task /\ runs'[p] = 1
                     \/ \E f \in Active' : f.task = p /\ f.pos > n
    BY DEF Past, Parent
  <2>3. \/ p \in Client /\ client[p] # "out"
        \/ p \in Task /\ runs[p] = 1
        \/ \E f \in Active : f.task = p /\ f.pos > n
    BY <1>1 DEF Past
  <2> HIDE DEF p, n
  <2>4. CASE \E f \in Active : f.task = p /\ f.pos > n
    <3>1. PICK f \in Active : f.task = p /\ f.pos > n
      BY <2>4
    <3>2. CASE f.task \in Task /\ runs'[f.task] = 1
      BY <2>2, <3>1, <3>2
    <3>3. CASE \E g \in Active' : g.task = f.task /\ g.pos \in Nat /\ g.pos >= f.pos
      <4>1. PICK g \in Active' : g.task = f.task /\ g.pos \in Nat /\ g.pos >= f.pos
        BY <3>3
      <4>2. g.pos > n
        BY ONLY <2>1, <3>1, <4>1, \A h \in Active : h.pos \in Nat
      <4> QED
        BY <2>2, <3>1, <4>1, <4>2
    <3> QED
      BY <3>2, <3>3
  <2> QED
    BY <2>2, <2>3, <2>4
<1> QED
  BY <1>1

(* A function's frame f becomes g.                                         *)
Becomes(f, g) ==
  /\ f \in Active /\ g \in Frame /\ g.task = f.task /\ g.pos >= f.pos
  /\ Active' = (Active \ {f}) \cup {g}

LEMMA BecomesFacts ==
  ASSUME Shape, OnceOnStacks, NEW f, NEW g, Becomes(f, g)
  PROVE  /\ \A t : (\E h \in Active' : h.task = t) <=> (\E h \in Active : h.task = t)
         /\ \A h : h.task # f.task => (h \in Active' <=> h \in Active)
         /\ \A h \in Active' : h.task = f.task => h = g
         /\ \A h \in Active : h.task = f.task => h = f
         /\ f \in Active /\ g \in Active' /\ g.task = f.task
         /\ \A h \in Active : h.pos \in Nat /\ \E k \in Active' : k.task = h.task /\ k.pos \in Nat /\ k.pos >= h.pos
<1>1. \A h \in Active : h.task = f.task => h = f
  BY OneFrame DEF Becomes
<1>2. /\ f \in Active /\ g.task = f.task /\ g.pos >= f.pos /\ g \in Frame
      /\ Active' = (Active \ {f}) \cup {g}
  BY DEF Becomes
<1>3. \A h \in Active : h.pos \in Nat
  BY ActiveFrames DEF Frame
<1>4. g.pos \in Nat
  BY ONLY <1>2 DEF Frame
<1>5. ASSUME NEW h \in Active
      PROVE  \E k \in Active' : k.task = h.task /\ k.pos \in Nat /\ k.pos >= h.pos
  <2>1. CASE h = f
    BY ONLY <1>2, <1>4, <2>1
  <2>2. CASE h # f
    BY ONLY <1>2, <1>3, <2>2, h \in Active
  <2> QED
    BY <2>1, <2>2
<1> QED
  BY ONLY <1>1, <1>2, <1>3, <1>5

(* D is what the step pushes.                                              *)
LEMMA LifeMove ==
  ASSUME Shape, OnceOnStacks, Lifecycle, NEW f, NEW g, Becomes(f, g),
         f.at # "release", g.at # "release", runs' = runs, client' = client,
         NEW D, Pooled' = Pooled \cup D,
         \A t \in D : t \in Task /\ Submitted(t) /\ ~Out(t) /\ runs[t] = 0 /\ Past(t)'
  PROVE  Lifecycle' /\ \A t : Out(t)' <=> Out(t) \/ t \in D
<1>1. /\ \A t : (\E h \in Active' : h.task = t) <=> (\E h \in Active : h.task = t)
      /\ \A h : h.task # f.task => (h \in Active' <=> h \in Active)
      /\ \A h \in Active' : h.task = f.task => h = g
      /\ \A h \in Active : h.task = f.task => h = f
      /\ f \in Active /\ g \in Active' /\ g.task = f.task
  BY BecomesFacts
<1>2. \A t \in Task : Past(t) => Past(t)'
  <2>1. \A h \in Active : h.pos \in Nat /\ \E k \in Active' : k.task = h.task /\ k.pos \in Nat /\ k.pos >= h.pos
    BY BecomesFacts
  <2>2. (\A c \in Client : client[c] # "out" => client'[c] # "out")
        /\ (\A t \in Task : runs[t] = 1 => runs'[t] = 1)
    BY ONLY runs' = runs, client' = client
  <2> QED
    BY <2>1, <2>2, PastGrows
<1>3. \A t : Out(t)' <=> Out(t) \/ t \in D
  BY ONLY <1>1, Pooled' = Pooled \cup D DEF Out
<1>4. /\ \A t \in Pooled : Submitted(t) /\ runs[t] = 0 /\ \A h \in Active : h.task # t
      /\ \A h \in Active : runs[h.task] = IF h.at = "release" THEN 1 ELSE 0
      /\ \A t \in Task : runs[t] \in {0, 1}
      /\ \A t \in Task : Out(t) \/ runs[t] = 1 => Past(t)
  BY DEF Lifecycle
<1>5. \A t \in Pooled' : Submitted(t)' /\ runs'[t] = 0 /\ \A h \in Active' : h.task # t
  <2>1. \A t \in Pooled' : Submitted(t) /\ runs[t] = 0 /\ \A h \in Active : h.task # t
    BY ONLY <1>4, Pooled' = Pooled \cup D,
            \A t \in D : t \in Task /\ Submitted(t) /\ ~Out(t) /\ runs[t] = 0 /\ Past(t)' DEF Out
  <2> QED
    BY <2>1, <1>1 DEF Submitted, Parent
<1>6. \A h \in Active' : runs'[h.task] = IF h.at = "release" THEN 1 ELSE 0
  <2>1. ASSUME NEW h \in Active'
        PROVE  runs'[h.task] = IF h.at = "release" THEN 1 ELSE 0
    <3>1. CASE h.task = f.task
      BY ONLY <1>1, <1>4, <3>1, h \in Active', runs' = runs, f.at # "release", g.at # "release"
    <3>2. CASE h.task # f.task
      BY ONLY <1>1, <1>4, <3>2, h \in Active', runs' = runs
    <3> QED
      BY <3>1, <3>2
  <2> QED
    BY <2>1
<1>7. \A t \in Task : runs'[t] \in {0, 1} /\ (Out(t)' \/ runs'[t] = 1 => Past(t)')
  BY ONLY <1>2, <1>3, <1>4, runs' = runs,
          \A t \in D : t \in Task /\ Submitted(t) /\ ~Out(t) /\ runs[t] = 0 /\ Past(t)'
<1> QED
  BY <1>3, <1>5, <1>6, <1>7 DEF Lifecycle

LEMMA LifeStay ==
  ASSUME Shape, OnceOnStacks, Lifecycle, NEW f, NEW g, Becomes(f, g),
         f.at # "release", g.at # "release", runs' = runs, client' = client, Pooled' = Pooled
  PROVE  Lifecycle' /\ \A t : Out(t)' <=> Out(t)
<1>1. PICK D : D = {}
  OBVIOUS
<1>2. Pooled' = Pooled \cup D
  BY <1>1
<1>3. \A t \in D : t \in Task /\ Submitted(t) /\ ~Out(t) /\ runs[t] = 0 /\ Past(t)'
  BY <1>1
<1>4. Lifecycle' /\ \A t : Out(t)' <=> Out(t) \/ t \in D
  BY <1>2, <1>3, LifeMove
<1> QED
  BY <1>1, <1>4

LEMMA SamePool ==
  ASSUME queue' = queue
  PROVE  Pooled' = Pooled /\ (OnceInDeques <=> OnceInDeques')
BY DEF Pooled, OnceInDeques

LEMMA SameStacks ==
  ASSUME calls' = calls
  PROVE  Active' = Active /\ (Shape <=> Shape') /\ (OnceOnStacks <=> OnceOnStacks')
<1>1. Active' = Active
  BY DEF Active
<1>2. OnceOnStacks <=> OnceOnStacks'
  BY DEF OnceOnStacks
<1>3. Shape <=> Shape'
  BY DEF Shape, FrameOK, Nested, Submitted, Parent
<1> QED
  BY <1>1, <1>2, <1>3

(* A frame that goes past no wait keeps its group.                         *)
LEMMA GroupMove ==
  ASSUME Shape, OnceOnStacks, NEW f, NEW g, Becomes(f, g), client' = client,
         (\E j \in f.pos..Len(Body[f.task]) : Body[f.task][j] = Wait)
           => \E j \in g.pos..Len(Body[f.task]) : Body[f.task][j] = Wait
  PROVE  \A p : HasGroup(p) => HasGroup(p)'
<1>1. /\ \A h : h.task # f.task => (h \in Active' <=> h \in Active)
      /\ \A h \in Active : h.task = f.task => h = f
      /\ g \in Active' /\ g.task = f.task
  BY BecomesFacts
<1>2. ASSUME NEW p, HasGroup(p)
      PROVE  HasGroup(p)'
  <2>1. CASE p \in Client /\ client[p] = "wait"
    BY ONLY <2>1, client' = client DEF HasGroup
  <2>2. CASE \E h \in Active : h.task = p /\ \E j \in h.pos..Len(Body[p]) : Body[p][j] = Wait
    <3>1. PICK h \in Active : h.task = p /\ \E j \in h.pos..Len(Body[p]) : Body[p][j] = Wait
      BY <2>2
    <3>2. CASE p = f.task
      <4>1. g \in Active' /\ g.task = p /\ \E j \in g.pos..Len(Body[p]) : Body[p][j] = Wait
        BY <1>1, <3>1, <3>2
      <4> QED
        BY ONLY <4>1 DEF HasGroup
    <3>3. CASE p # f.task
      BY ONLY <1>1, <3>1, <3>3 DEF HasGroup
    <3> QED
      BY <3>2, <3>3
  <2> QED
    BY ONLY <1>2, <2>1, <2>2 DEF HasGroup
<1> QED
  BY <1>2

(* The body's step that w makes.                                           *)
LEMMA DoingFacts ==
  ASSUME Shape, NEW w \in Worker, NEW op \in {"run", "call", "wait"}, Doing(w, op)
  PROVE  /\ Top(w) \in Active /\ Top(w) \in Frame /\ Top(w).fn = "task" /\ Top(w).at = "body"
         /\ Top(w).task \in Task /\ Top(w).pos \in 1..Len(Body[Top(w).task])
         /\ Top(w).pos \in Nat /\ Len(Body[Top(w).task]) \in Nat
         /\ Body[Top(w).task][Top(w).pos].op = op
<1>1. /\ Top(w).fn = "task" /\ Top(w).at = "body"
      /\ Top(w).pos <= Len(Body[Top(w).task])
      /\ Body[Top(w).task][Top(w).pos].op = op
  BY DEF Doing, At
<1>2. Top(w) \in Active /\ Top(w) \in Frame
  BY <1>1, TopFacts
<1>3. /\ Top(w).task \in Task /\ Top(w).pos \in 1..Len(Body[Top(w).task]) + 1
      /\ Len(Body[Top(w).task]) \in Nat
  BY <1>2, ActiveFrames, OpsOfBody
<1>4. Top(w).pos \in 1..Len(Body[Top(w).task]) /\ Top(w).pos \in Nat
  BY ONLY <1>1, <1>3
<1> QED
  BY <1>1, <1>2, <1>3, <1>4

LEMMA FrameAt ==
  ASSUME NEW f \in Frame, NEW a \in {"look", "check", "body", "push", "release"}
  PROVE  LET g == [f EXCEPT !.at = a] IN
           /\ g \in Frame /\ g.fn = f.fn /\ g.task = f.task /\ g.at = a
           /\ g.owned = f.owned /\ g.pos = f.pos /\ g.time = f.time
BY DEF Frame

(* run counts, ...                                                         *)
LEMMA RunCountStep ==
  ASSUME PoolInv, NEW w \in Worker, RunCount(w)
  PROVE  PoolInv'
<1> DEFINE f == Top(w)
           g == [f EXCEPT !.at = "push"]
           u == Body[f.task][f.pos].fn
<1>1. Types /\ Shape /\ OnceInDeques /\ OnceOnStacks /\ Lifecycle /\ GroupsHeld /\ CountsExact
  BY DEF PoolInv
<1>2. /\ Doing(w, "run") /\ pending' = [pending EXCEPT ![f.task] = @ + 1] /\ Goto(w, g)
      /\ queue' = queue /\ client' = client /\ runs' = runs
  BY DEF RunCount
<1>3. /\ f \in Active /\ f \in Frame /\ f.fn = "task" /\ f.at = "body"
      /\ f.task \in Task /\ f.pos \in 1..Len(Body[f.task])
      /\ f.pos \in Nat /\ Len(Body[f.task]) \in Nat /\ Body[f.task][f.pos].op = "run"
  BY <1>1, <1>2, DoingFacts
<1>4. /\ g \in Frame /\ g.fn = "task" /\ g.task = f.task /\ g.at = "push"
      /\ g.owned = f.owned /\ g.pos = f.pos /\ g.time = f.time
  BY ONLY <1>3, FrameAt
<1>5. /\ u \in Task /\ Parent(u) = f.task /\ ~Out(u) /\ Submitted(u)
  BY <1>1, <1>3, Future
<1> HIDE DEF f, g, u
<1>6. g.pos \in 1..Len(Body[g.task]) + 1 /\ g.pos <= Len(Body[g.task]) /\ g.pos >= f.pos
  BY ONLY <1>3, <1>4
<1>7. Shape' /\ OnceOnStacks' /\ Active' = (Active \ {f}) \cup {g}
  <2>1. Top(w) = f
    BY DEF f
  <2> QED
    BY ONLY <1>1, <1>2, <1>3, <1>4, <1>6, <2>1, w \in Worker, Moved
<1>8. Becomes(f, g)
  BY ONLY <1>3, <1>4, <1>6, <1>7 DEF Becomes
<1>9. Pooled' = Pooled /\ OnceInDeques'
  BY ONLY <1>1, <1>2, SamePool
<1>10. Lifecycle' /\ \A t : Out(t)' <=> Out(t)
  <2>1. f.at # "release" /\ g.at # "release"
    BY ONLY <1>3, <1>4
  <2> QED
    BY ONLY <1>1, <1>2, <1>8, <1>9, <2>1, LifeStay
<1>11. GroupsHeld'
  <2>1. \A p : HasGroup(p) => HasGroup(p)'
    BY <1>1, <1>2, <1>4, <1>8, GroupMove
  <2> QED
    BY <1>1, <1>10, <2>1 DEF GroupsHeld, Submitted, Parent
<1>12. /\ \A h : h.task # f.task => (h \in Active' <=> h \in Active)
       /\ \A h \in Active' : h.task = f.task => h = g
       /\ \A h \in Active : h.task = f.task => h = f
       /\ g \in Active'
  BY <1>1, <1>8, BecomesFacts
<1>13. \A t \in Task : Submitted(t) => (Counting(t)' <=> Counting(t) \/ t = u)
  <2>1. ASSUME NEW t \in Task, Parent(t) # f.task
        PROVE  Announced(t)' <=> Announced(t)
    BY <1>12, <2>1 DEF Announced, Parent
  <2>2. ASSUME NEW t \in Task, Parent(t) = f.task
        PROVE  ~Announced(t) /\ (Announced(t)' <=> t = u)
    <3>1. ~Announced(t)
      BY ONLY <1>3, <1>12, <2>2 DEF Announced
    <3>2. Announced(t)' <=> Body[f.task][g.pos].fn = t
      BY <1>4, <1>12, <2>2 DEF Announced, Parent
    <3>3. Body[f.task][g.pos].fn = u
      BY ONLY <1>4 DEF u
    <3> QED
      BY <3>1, <3>2, <3>3
  <2> QED
    BY ONLY <1>2, <2>1, <2>2, <1>5, <1>10, CarriedStays DEF Counting
<1>14. ~Counting(u)
  <2>1. ~Announced(u)
    BY ONLY <1>3, <1>5, <1>12 DEF Announced
  <2>2. ~Carried(u)
    BY ONLY <1>1, <1>3, <1>5, NotCarried
  <2> QED
    BY ONLY <2>1, <2>2, <1>5 DEF Counting
<1>15. CountsExact' /\ pending' \in [Task \cup Client -> Nat]
  <2>1. pending' = [pending EXCEPT ![Parent(u)] = @ + 1] /\ pending \in [Task \cup Client -> Nat]
    BY ONLY <1>1, <1>2, <1>5 DEF Types
  <2> QED
    BY ONLY <1>1, <1>5, <1>13, <1>14, <2>1, OneMore
<1>16. Types'
  BY ONLY <1>1, <1>2, <1>15 DEF Types
<1> QED
  BY ONLY <1>7, <1>9, <1>10, <1>11, <1>15, <1>16 DEF PoolInv

(* ... and pushes.                                                         *)
LEMMA RunPushStep ==
  ASSUME PoolInv, NEW w \in Worker, RunPush(w)
  PROVE  PoolInv'
<1>0. PICK f, g, u : f = Top(w) /\ g = Advanced(f) /\ u = Body[f.task][f.pos].fn
  OBVIOUS
<1>1. Types /\ Shape /\ OnceInDeques /\ OnceOnStacks /\ Lifecycle /\ GroupsHeld /\ CountsExact
  BY DEF PoolInv
<1>2. /\ f.fn = "task" /\ f.at = "push" /\ queue' = [queue EXCEPT ![w] = <<u>> \o @] /\ Goto(w, g)
      /\ pending' = pending /\ client' = client /\ runs' = runs
  BY <1>0 DEF RunPush, At, Arg
<1>3. /\ f \in Active /\ f \in Frame /\ f.task \in Task /\ Len(Body[f.task]) \in Nat
      /\ f.pos \in 1..Len(Body[f.task]) + 1
      /\ f.pos <= Len(Body[f.task]) /\ Body[f.task][f.pos].op = "run"
  BY <1>0, <1>1, <1>2, TopFacts, ActiveFrames, OpsOfBody
<1>4. /\ g \in Frame /\ g.fn = "task" /\ g.task = f.task /\ g.at = "body"
      /\ g.owned = f.owned /\ g.pos = f.pos + 1 /\ g.time = f.time
  BY ONLY <1>0, <1>2, <1>3, NewFrames
<1>5. /\ u \in Task /\ Site[u] = <<f.task, f.pos>> /\ Parent(u) = f.task /\ ~Out(u)
      /\ Submitted(u) /\ runs[u] = 0
  BY ONLY <1>0, <1>1, <1>2, <1>3, Future
<1>6. \E j \in f.pos + 1..Len(Body[f.task]) : Body[f.task][j] = Wait
  <2>1. f.pos \in 1..Len(Body[f.task])
    BY ONLY <1>3
  <2> QED
    BY ONLY <1>3, <2>1, OpsOfBody
<1>7. /\ g.pos \in 1..Len(Body[g.task]) + 1 /\ g.pos >= f.pos
      /\ f.pos \in Nat /\ f.pos \in 1..Len(Body[f.task])
  BY ONLY <1>3, <1>4
<1>8. Shape' /\ OnceOnStacks' /\ Active' = (Active \ {f}) \cup {g}
  BY ONLY <1>0, <1>1, <1>2, <1>3, <1>4, <1>7, w \in Worker, Moved
<1>9. Becomes(f, g)
  BY ONLY <1>3, <1>4, <1>7, <1>8 DEF Becomes
<1>10. queue' \in [Worker -> Seq(Task)] /\ OnceInDeques' /\ Pooled' = Pooled \cup {u}
  <2>1. u \notin Pooled /\ queue \in [Worker -> Seq(Task)]
    BY ONLY <1>1, <1>5 DEF Out, Types
  <2> QED
    BY ONLY <1>1, <1>2, <1>5, <2>1, w \in Worker, PoolPush
<1>11. /\ \A h : h.task # f.task => (h \in Active' <=> h \in Active)
       /\ \A h \in Active' : h.task = f.task => h = g
       /\ \A h \in Active : h.task = f.task => h = f
       /\ g \in Active' /\ f \in Active
  BY <1>1, <1>9, BecomesFacts
<1>12. Past(u)'
  <2>1. g \in Active' /\ g.task = Parent(u) /\ g.pos > Site[u][2]
    BY ONLY <1>3, <1>4, <1>5, <1>7, <1>11
  <2> QED
    BY ONLY <2>1 DEF Past, Parent
<1>13. Lifecycle' /\ \A t : Out(t)' <=> Out(t) \/ t = u
  <2>1. PICK D : D = {u}
    OBVIOUS
  <2>2. \A t \in D : t \in Task /\ Submitted(t) /\ ~Out(t) /\ runs[t] = 0 /\ Past(t)'
    BY <2>1, <1>5, <1>12
  <2>3. f.at # "release" /\ g.at # "release" /\ Pooled' = Pooled \cup D
    BY ONLY <1>2, <1>4, <1>10, <2>1
  <2>4. Lifecycle' /\ \A t : Out(t)' <=> Out(t) \/ t \in D
    BY ONLY <1>1, <1>2, <1>9, <2>2, <2>3, LifeMove
  <2> QED
    BY <2>1, <2>4
<1>14. GroupsHeld'
  <2>1. \A p : HasGroup(p) => HasGroup(p)'
    <3>1. \E j \in g.pos..Len(Body[f.task]) : Body[f.task][j] = Wait
      BY ONLY <1>4, <1>6
    <3> QED
      BY ONLY <1>1, <1>2, <1>9, <3>1, GroupMove
  <2>2. HasGroup(f.task)'
    BY ONLY <1>4, <1>6, <1>11 DEF HasGroup
  <2>3. ASSUME NEW t \in Task, Submitted(t)', Out(t)'
        PROVE  HasGroup(Parent(t))'
    <3>1. CASE t = u
      BY <1>5, <2>2, <3>1 DEF Parent
    <3>2. CASE t # u
      BY <1>1, <1>13, <2>1, <2>3, <3>2 DEF GroupsHeld, Submitted, Parent
    <3> QED
      BY <3>1, <3>2
  <2> QED
    BY <2>3 DEF GroupsHeld
<1>15. \A t \in Task : Submitted(t) => (Counting(t)' <=> Counting(t))
  <2>1. ASSUME NEW t \in Task, Parent(t) # f.task
        PROVE  (Announced(t)' <=> Announced(t)) /\ t # u
    BY <1>5, <1>11, <2>1 DEF Announced, Parent
  <2>2. ASSUME NEW t \in Task, Parent(t) = f.task
        PROVE  ~Announced(t)' /\ (Announced(t) <=> t = u)
    <3>1. ~Announced(t)'
      BY <1>4, <1>11, <2>2 DEF Announced, Parent
    <3>2. Announced(t) <=> Body[f.task][f.pos].fn = t
      BY ONLY <1>2, <1>11, <2>2 DEF Announced
    <3> QED
      BY <3>1, <3>2, <1>0
  <2> QED
    BY ONLY <1>2, <2>1, <2>2, <1>13, CarriedStays DEF Counting
<1>16. CountsExact'
  BY ONLY <1>1, <1>2, <1>15, SameCounts
<1>17. Types'
  BY ONLY <1>1, <1>2, <1>10 DEF Types
<1> QED
  BY ONLY <1>8, <1>10, <1>13, <1>14, <1>16, <1>17 DEF PoolInv

(* Steps that only move between the points of a look_for_task or a wait.   *)
LEMMA NothingElse ==
  ASSUME PoolInv, Shape', OnceOnStacks', Active' = Active,
         queue' = queue, pending' = pending, client' = client, runs' = runs
  PROVE  PoolInv'
<1>1. Types /\ Shape /\ OnceInDeques /\ OnceOnStacks /\ Lifecycle /\ GroupsHeld /\ CountsExact
  BY DEF PoolInv
<1>2. Pooled' = Pooled /\ OnceInDeques'
  BY ONLY <1>1, queue' = queue, SamePool
<1>3. \A t : /\ Out(t)' <=> Out(t)
             /\ Announced(t)' <=> Announced(t)
             /\ Past(t)' <=> Past(t)
             /\ HasGroup(t)' <=> HasGroup(t)
             /\ Submitted(t)' <=> Submitted(t)
             /\ Parent(t)' = Parent(t)
  BY ONLY <1>2, Active' = Active, client' = client, runs' = runs
     DEF Out, Announced, Past, HasGroup, Parent, Submitted
<1>4. Lifecycle'
  BY ONLY <1>1, <1>2, <1>3, Active' = Active, runs' = runs DEF Lifecycle
<1>5. GroupsHeld'
  BY ONLY <1>1, <1>3 DEF GroupsHeld, Submitted, Parent
<1>6. CountsExact'
  <2>1. \A t \in Task : Submitted(t) => (Counting(t)' <=> Counting(t))
    BY ONLY <1>3, client' = client, CarriedStays DEF Counting
  <2> QED
    BY ONLY <1>1, <2>1, pending' = pending, SameCounts
<1>7. Types'
  BY ONLY <1>1, queue' = queue, pending' = pending, client' = client, runs' = runs DEF Types
<1> QED
  BY ONLY Shape', OnceOnStacks', <1>2, <1>4, <1>5, <1>6, <1>7 DEF PoolInv

LEMMA CallWaitStep ==
  ASSUME PoolInv, NEW w \in Worker, CallWait(w)
  PROVE  PoolInv'
<1>1. Shape /\ OnceOnStacks
  BY DEF PoolInv
<1>2. /\ Doing(w, "wait") /\ calls' = [calls EXCEPT ![w] = <<WaitFrame(Top(w).task)>> \o @]
      /\ queue' = queue /\ pending' = pending /\ client' = client /\ runs' = runs
  BY DEF CallWait, Top
<1>3. /\ Top(w).fn = "task" /\ Top(w).at = "body" /\ Top(w).task \in Task
      /\ Top(w).pos \in 1..Len(Body[Top(w).task]) /\ Top(w).pos <= Len(Body[Top(w).task])
      /\ Body[Top(w).task][Top(w).pos].op = "wait"
  <2>1. /\ Top(w).fn = "task" /\ Top(w).at = "body" /\ Top(w).task \in Task
        /\ Top(w).pos \in 1..Len(Body[Top(w).task])
        /\ Body[Top(w).task][Top(w).pos].op = "wait"
    BY ONLY <1>1, <1>2, w \in Worker, DoingFacts
  <2>2. Top(w).pos <= Len(Body[Top(w).task])
    BY DEF CallWait, Doing
  <2> QED
    BY <2>1, <2>2
<1>4. Body[Top(w).task][Top(w).pos] = Wait
  BY ONLY <1>3, OpsOfBody
<1>5. WaitFrame(Top(w).task) \in Frame
  BY ONLY <1>3, NewFrames
<1>6. PICK s : Pushed(w, s, WaitFrame(Top(w).task), Top(w))
  BY ONLY <1>1, <1>2, <1>5, w \in Worker, OnTopReplaces
<1>7. Shape' /\ OnceOnStacks' /\ Active' = Active
  BY ONLY <1>1, <1>3, <1>4, <1>6, w \in Worker, WaitBegun
<1> QED
  BY ONLY PoolInv, <1>2, <1>7, NothingElse

LEMMA LookInVainStep ==
  ASSUME PoolInv, NEW w \in Worker, LookInVain(w)
  PROVE  PoolInv'
<1>1. Shape /\ OnceOnStacks
  BY DEF PoolInv
<1>2. /\ Top(w).at = "look" /\ Goto(w, Tried(Top(w)))
      /\ queue' = queue /\ pending' = pending /\ client' = client /\ runs' = runs
  BY DEF LookInVain
<1>3. Top(w) \in Frame /\ Top(w).fn \in {"loop", "wait"} /\ Top(w).time \in 0..NumWorkers - 1
  <2>1. Top(w) \in Frame /\ Top(w).fn \in {"loop", "wait"} /\ FrameOK(w, 1)
    BY <1>1, <1>2, TopFacts
  <2> QED
    BY <2>1 DEF FrameOK, Top
<1>4. PICK g : g = Tried(Top(w))
  OBVIOUS
<1>5. /\ g \in Frame /\ g.fn = Top(w).fn /\ g.task = Top(w).task /\ g.pos = Top(w).pos
      /\ g.time \in 0..NumWorkers - 1
      /\ g.at = "look" \/ (g.fn = "wait" /\ g.at = "check")
  BY ONLY <1>2, <1>3, <1>4, NewFrames
<1>6. Shape' /\ OnceOnStacks' /\ Active' = Active
  <2>1. Goto(w, g)
    BY <1>2, <1>4
  <2> QED
    BY ONLY <1>1, <1>3, <1>5, <2>1, w \in Worker, Idle
<1> QED
  BY ONLY PoolInv, <1>2, <1>6, NothingElse

(* A wait ends when its group has no functors: no function that is out     *)
(* loses its counter.                                                      *)
LEMMA WaitCheckStep ==
  ASSUME PoolInv, NEW w \in Worker, WaitCheck(w)
  PROVE  PoolInv'
<1>1. Types /\ Shape /\ OnceInDeques /\ OnceOnStacks /\ Lifecycle /\ GroupsHeld /\ CountsExact
  BY DEF PoolInv
<1>2. /\ Top(w).fn = "wait" /\ Top(w).at = "check"
      /\ queue' = queue /\ pending' = pending /\ client' = client /\ runs' = runs
  BY DEF WaitCheck, At
<1>3. /\ Top(w) \in Frame /\ Len(calls[w]) \in Nat /\ 2 \in 1..Len(calls[w])
      /\ FrameOK(w, 1)
  BY <1>1, <1>2, TopFacts
<1>4. CASE pending[Top(w).task] # 0
  <2>1. Goto(w, [Top(w) EXCEPT !.at = "look"])
    BY <1>4 DEF WaitCheck
  <2>2. PICK g : g = [Top(w) EXCEPT !.at = "look"]
    OBVIOUS
  <2>3. /\ g \in Frame /\ g.fn = Top(w).fn /\ g.task = Top(w).task /\ g.at = "look"
        /\ g.pos = Top(w).pos /\ g.time = Top(w).time
    BY ONLY <1>3, <2>2, FrameAt
  <2>4. Top(w).time \in 0..NumWorkers - 1
    BY <1>3 DEF FrameOK, Top
  <2>5. Shape' /\ OnceOnStacks' /\ Active' = Active
    <3>1. Goto(w, g) /\ g.time \in 0..NumWorkers - 1 /\ Top(w).fn \in {"loop", "wait"}
      BY <1>2, <2>1, <2>2, <2>3, <2>4
    <3> QED
      BY ONLY <1>1, <2>3, <3>1, w \in Worker, Idle
  <2> QED
    BY ONLY PoolInv, <1>2, <2>5, NothingElse
<1>5. CASE pending[Top(w).task] = 0
  <2>0. PICK h, g, p : h = calls[w][2] /\ g = Advanced(h) /\ p = Top(w).task
    OBVIOUS
  <2>1. calls' = [calls EXCEPT ![w] = <<g>> \o Tail(Tail(@))]
    BY <1>5, <2>0 DEF WaitCheck, WaitOver
  <2>2. h \in Frame /\ g \in Frame /\ Len(calls[w]) >= 2
    <3>1. h \in Frame
      BY ONLY <1>1, <1>3, <2>0, w \in Worker DEF Shape
    <3> QED
      BY ONLY <1>3, <2>0, <3>1, NewFrames
  <2>4. PICK s : Resumes(w, s, g)
    BY ONLY <1>1, <2>1, <2>2, w \in Worker, OverReplaces
  <2>5. /\ Shape' /\ OnceOnStacks' /\ Active' = (Active \ {h}) \cup {g}
        /\ h \in Active /\ h.at = "body" /\ h.task = p
        /\ h.pos <= Len(Body[h.task]) /\ Body[h.task][h.pos] = Wait
    BY ONLY <1>1, <1>2, <2>0, <2>4, w \in Worker, Resumed
  <2>6. g.at = "body" /\ g.task = h.task /\ g.pos = h.pos + 1 /\ h.pos \in Nat
    BY ONLY <2>0, <2>2, NewFrames DEF Frame
  <2>7. Becomes(h, g)
    BY ONLY <2>2, <2>5, <2>6 DEF Becomes
  <2>8. Pooled' = Pooled /\ OnceInDeques'
    BY ONLY <1>1, <1>2, SamePool
  <2>9. Lifecycle' /\ \A t : Out(t)' <=> Out(t)
    <3>1. h.at # "release" /\ g.at # "release"
      BY ONLY <2>5, <2>6
    <3> QED
      BY ONLY <1>1, <1>2, <2>7, <2>8, <3>1, LifeStay
  <2>10. /\ \A k : k.task # h.task => (k \in Active' <=> k \in Active)
         /\ \A k \in Active' : k.task = h.task => k = g
         /\ \A k \in Active : k.task = h.task => k = h
    BY <1>1, <2>7, BecomesFacts
  <2>11. p \in Task
    BY <1>1, <2>5, ActiveFrames
  <2>12. \A t \in Task : Submitted(t) /\ Parent(t) = p => ~Counting(t)
    BY <1>1, <1>5, <2>0, <2>11, NoMembers
  <2>13. GroupsHeld'
    <3>1. ASSUME NEW t \in Task, Submitted(t), Out(t)
          PROVE  HasGroup(Parent(t))'
      <4>1. Parent(t) # h.task
        BY <2>5, <2>12, <3>1 DEF Counting
      <4>2. HasGroup(Parent(t))
        BY <1>1, <3>1 DEF GroupsHeld
      <4> QED
        BY <4>1, <4>2, <1>2, <2>10 DEF HasGroup, Parent
    <3> QED
      BY <2>9, <3>1 DEF GroupsHeld, Submitted, Parent
  <2>14. \A t \in Task : Submitted(t) => (Counting(t)' <=> Counting(t))
    <3>1. ASSUME NEW t \in Task
          PROVE  Announced(t)' <=> Announced(t)
      <4>1. CASE Parent(t) = h.task
        BY <4>1, <2>5, <2>6, <2>10 DEF Announced, Parent
      <4>2. CASE Parent(t) # h.task
        BY <4>2, <2>10 DEF Announced, Parent
      <4> QED
        BY <4>1, <4>2
    <3> QED
      BY ONLY <1>2, <2>9, <3>1, CarriedStays DEF Counting
  <2>15. CountsExact'
    BY ONLY <1>1, <1>2, <2>14, SameCounts
  <2>16. Types'
    BY ONLY <1>1, <1>2 DEF Types
  <2> QED
    BY ONLY <2>5, <2>8, <2>9, <2>13, <2>15, <2>16 DEF PoolInv
<1> QED
  BY <1>4, <1>5

(* A call: the callee is nobody's functor.                                 *)
LEMMA CallFnStep ==
  ASSUME PoolInv, NEW w \in Worker, CallFn(w)
  PROVE  PoolInv'
<1>0. PICK f, g, u, n : /\ f = Top(w) /\ g = Advanced(f) /\ u = Body[f.task][f.pos].fn
                        /\ n = TaskFrame(u, FALSE)
  OBVIOUS
<1>1. Types /\ Shape /\ OnceInDeques /\ OnceOnStacks /\ Lifecycle /\ GroupsHeld /\ CountsExact
  BY DEF PoolInv
<1>2. /\ Doing(w, "call") /\ calls' = [calls EXCEPT ![w] = <<n, g>> \o Tail(@)]
      /\ queue' = queue /\ pending' = pending /\ client' = client /\ runs' = runs
  BY <1>0 DEF CallFn, Top, Arg
<1>3. /\ f \in Active /\ f \in Frame /\ f.fn = "task" /\ f.at = "body"
      /\ f.task \in Task /\ f.pos \in 1..Len(Body[f.task])
      /\ f.pos \in Nat /\ Len(Body[f.task]) \in Nat /\ Body[f.task][f.pos].op = "call"
  BY ONLY <1>0, <1>1, <1>2, w \in Worker, DoingFacts
<1>4. f.pos <= Len(Body[f.task])
  BY ONLY <1>3
<1>5. /\ u \in Task /\ Site[u] = <<f.task, f.pos>> /\ Parent(u) = f.task /\ ~Out(u)
      /\ runs[u] = 0 /\ u # f.task /\ ~Submitted(u)
  BY ONLY <1>0, <1>1, <1>3, <1>4, Future
<1>6. /\ g \in Frame /\ g.fn = "task" /\ g.task = f.task /\ g.at = "body" /\ g.pos = f.pos + 1
      /\ n \in Frame /\ n.fn = "task" /\ n.task = u /\ n.at = "body" /\ n.pos = 1
  <2>1. g \in Frame /\ g.fn = "task" /\ g.task = f.task /\ g.at = "body" /\ g.pos = f.pos + 1
    BY ONLY <1>0, <1>3, NewFrames
  <2>2. n \in Frame /\ n.fn = "task" /\ n.task = u /\ n.at = "body" /\ n.pos = 1
    BY ONLY <1>0, <1>5, NewFrames
  <2> QED
    BY ONLY <2>1, <2>2
<1>7. \A h \in Active : h.task # u
  BY ONLY <1>5 DEF Out
<1>8. PICK s : Pushed(w, s, n, g)
  BY ONLY <1>1, <1>2, <1>6, w \in Worker, PushReplaces
<1>9. Shape' /\ OnceOnStacks' /\ Active' = (Active \ {f}) \cup {n, g}
  BY ONLY <1>0, <1>1, <1>3, <1>4, <1>5, <1>7, <1>8, w \in Worker, Called
<1>10. Pooled' = Pooled /\ OnceInDeques'
  BY ONLY <1>1, <1>2, SamePool
<1>11. \A h \in Active : h.task = f.task => h = f
  BY <1>1, <1>3, OneFrame
<1>12. /\ \A h : h.task # f.task /\ h.task # u => (h \in Active' <=> h \in Active)
       /\ \A h \in Active' : h.task = f.task => h = g
       /\ \A h \in Active' : h.task = u => h = n
       /\ g \in Active' /\ n \in Active' /\ f \in Active
       /\ \A h : h.at = "push" => (h \in Active' <=> h \in Active)
  BY ONLY <1>3, <1>5, <1>6, <1>7, <1>9, <1>11
<1>13. \A t : Out(t)' <=> Out(t) \/ t = u
  BY ONLY <1>3, <1>5, <1>6, <1>10, <1>12 DEF Out
<1>14. \A t \in Task : Past(t) => Past(t)'
  <2>1. \A h \in Active : h.pos \in Nat
    BY <1>1, ActiveFrames DEF Frame
  <2>2. \A h \in Active : \E k \in Active' : k.task = h.task /\ k.pos \in Nat /\ k.pos >= h.pos
    <3>1. g.pos \in Nat /\ g.pos >= f.pos
      BY ONLY <1>3, <1>6
    <3>2. ASSUME NEW h \in Active
          PROVE  \E k \in Active' : k.task = h.task /\ k.pos \in Nat /\ k.pos >= h.pos
      <4>1. CASE h = f
        BY ONLY <1>6, <1>12, <3>1, <4>1
      <4>2. CASE h # f
        BY ONLY <1>9, <2>1, <4>2, h \in Active
      <4> QED
        BY <4>1, <4>2
    <3> QED
      BY <3>2
  <2>3. (\A c \in Client : client[c] # "out" => client'[c] # "out")
        /\ (\A t \in Task : runs[t] = 1 => runs'[t] = 1)
    BY ONLY <1>2
  <2> QED
    BY ONLY <2>1, <2>2, <2>3, PastGrows
<1>15. Past(u)'
  <2>1. g \in Active' /\ g.task = Parent(u) /\ g.pos > Site[u][2]
    BY ONLY <1>3, <1>5, <1>6, <1>12
  <2> QED
    BY ONLY <2>1 DEF Past, Parent
<1>16. Lifecycle'
  <2>1. /\ \A t \in Pooled : Submitted(t) /\ runs[t] = 0 /\ \A h \in Active : h.task # t
        /\ \A h \in Active : runs[h.task] = IF h.at = "release" THEN 1 ELSE 0
        /\ \A t \in Task : runs[t] \in {0, 1}
        /\ \A t \in Task : Out(t) \/ runs[t] = 1 => Past(t)
    BY <1>1 DEF Lifecycle
  <2>2. \A t \in Pooled' : Submitted(t)' /\ runs'[t] = 0 /\ \A h \in Active' : h.task # t
    <3>1. u \notin Pooled
      BY ONLY <1>5 DEF Out
    <3> QED
      BY <2>1, <3>1, <1>2, <1>3, <1>6, <1>9, <1>10 DEF Submitted, Parent
  <2>3. \A h \in Active' : runs'[h.task] = IF h.at = "release" THEN 1 ELSE 0
    BY ONLY <2>1, <1>2, <1>3, <1>5, <1>6, <1>9
  <2>4. \A t \in Task : runs'[t] \in {0, 1} /\ (Out(t)' \/ runs'[t] = 1 => Past(t)')
    BY ONLY <2>1, <1>2, <1>13, <1>14, <1>15
  <2> QED
    BY ONLY <2>2, <2>3, <2>4 DEF Lifecycle
<1>17. \A p : HasGroup(p) => HasGroup(p)'
  <2>1. ASSUME NEW j \in f.pos..Len(Body[f.task]), Body[f.task][j] = Wait
        PROVE  j \in g.pos..Len(Body[f.task])
    <3>1. j # f.pos
      BY ONLY <1>3, <2>1 DEF Wait
    <3> QED
      BY ONLY <1>3, <1>6, <3>1, j \in f.pos..Len(Body[f.task])
  <2>2. ASSUME NEW p, NEW h \in Active, h.task = p, NEW j \in h.pos..Len(Body[p]), Body[p][j] = Wait
        PROVE  \E k \in Active' : k.task = p /\ \E i \in k.pos..Len(Body[p]) : Body[p][i] = Wait
    <3>1. CASE h = f
      BY ONLY <1>6, <1>12, <2>1, <2>2, <3>1
    <3>2. CASE h # f
      BY ONLY <1>9, <2>2, <3>2
    <3> QED
      BY <3>1, <3>2
  <2>3. ASSUME NEW p, HasGroup(p)
        PROVE  HasGroup(p)'
    <3>1. CASE p \in Client /\ client[p] = "wait"
      BY ONLY <3>1, <1>2 DEF HasGroup
    <3>2. CASE \E h \in Active : h.task = p /\ \E j \in h.pos..Len(Body[p]) : Body[p][j] = Wait
      BY ONLY <3>2, <2>2 DEF HasGroup
    <3> QED
      BY ONLY <2>3, <3>1, <3>2 DEF HasGroup
  <2> QED
    BY <2>3
<1>18. GroupsHeld'
  BY <1>1, <1>5, <1>13, <1>17 DEF GroupsHeld, Submitted, Parent
<1>19. \A t \in Task : Submitted(t) => (Counting(t)' <=> Counting(t))
  <2>1. \A t : Announced(t)' <=> Announced(t)
    BY ONLY <1>12 DEF Announced, Parent
  <2> QED
    BY ONLY <1>2, <2>1, <1>5, <1>13, CarriedStays DEF Counting
<1>20. CountsExact'
  BY ONLY <1>1, <1>2, <1>19, SameCounts
<1>21. Types'
  BY ONLY <1>1, <1>2 DEF Types
<1> QED
  BY ONLY <1>9, <1>10, <1>16, <1>18, <1>20, <1>21 DEF PoolInv

(* A functor moves from a deque to the stack of the worker that takes it.  *)
LEMMA LookStep ==
  ASSUME PoolInv, NEW w \in Worker, Look(w)
  PROVE  PoolInv'
<1>1. Types /\ Shape /\ OnceInDeques /\ OnceOnStacks /\ Lifecycle /\ GroupsHeld /\ CountsExact
  BY DEF PoolInv
<1>2. PICK v \in Worker :
        /\ queue[v] # <<>> /\ queue' = [queue EXCEPT ![v] = Tail(@)]
        /\ calls' = [calls EXCEPT ![w] = <<TaskFrame(queue[v][1], TRUE), Tried(@[1])>> \o Tail(@)]
  BY DEF Look, Victims
<1>3. PICK u, n, g : u = queue[v][1] /\ n = TaskFrame(u, TRUE) /\ g = Tried(Top(w))
  OBVIOUS
<1>4. /\ Top(w).at = "look" /\ pending' = pending /\ client' = client /\ runs' = runs
      /\ calls' = [calls EXCEPT ![w] = <<n, g>> \o Tail(@)]
  BY <1>2, <1>3 DEF Look, Top
<1>5. /\ queue' \in [Worker -> Seq(Task)] /\ OnceInDeques'
      /\ u \in Pooled /\ u \in Task /\ Pooled' = Pooled \ {u}
  <2>1. queue \in [Worker -> Seq(Task)]
    BY ONLY <1>1 DEF Types
  <2> QED
    BY ONLY <1>1, <1>2, <1>3, <2>1, v \in Worker, PoolTake
<1>6. /\ \A t \in Pooled : Submitted(t) /\ runs[t] = 0 /\ \A h \in Active : h.task # t
      /\ \A h \in Active : runs[h.task] = IF h.at = "release" THEN 1 ELSE 0
      /\ \A t \in Task : runs[t] \in {0, 1}
      /\ \A t \in Task : Out(t) \/ runs[t] = 1 => Past(t)
  BY <1>1 DEF Lifecycle
<1>7. Submitted(u) /\ runs[u] = 0 /\ \A h \in Active : h.task # u
  BY ONLY <1>5, <1>6
<1>8. Top(w) \in Frame /\ Top(w).fn \in {"loop", "wait"} /\ Top(w).time \in 0..NumWorkers - 1
  <2>1. Top(w) \in Frame /\ Top(w).fn \in {"loop", "wait"} /\ FrameOK(w, 1)
    BY <1>1, <1>4, TopFacts
  <2> QED
    BY <2>1 DEF FrameOK, Top
<1>9. /\ g \in Frame /\ g.fn = Top(w).fn /\ g.task = Top(w).task /\ g.pos = Top(w).pos
      /\ g.time \in 0..NumWorkers - 1
      /\ g.at = "look" \/ (g.fn = "wait" /\ g.at = "check")
  BY ONLY <1>3, <1>4, <1>8, NewFrames
<1>10. n \in Frame /\ n.fn = "task" /\ n.task = u /\ n.at = "body" /\ n.pos = 1
  BY ONLY <1>3, <1>5, NewFrames
<1>11. PICK s : Pushed(w, s, n, g)
  BY ONLY <1>1, <1>4, <1>9, <1>10, w \in Worker, PushReplaces
<1>12. Shape' /\ OnceOnStacks' /\ Active' = Active \cup {n}
  BY ONLY <1>1, <1>3, <1>5, <1>7, <1>8, <1>9, <1>11, w \in Worker, Landed
<1>13. \A t : Out(t)' <=> Out(t)
  BY ONLY <1>5, <1>10, <1>12 DEF Out
<1>14. \A t \in Task : Past(t) => Past(t)'
  <2>1. \A h \in Active : h.pos \in Nat
    BY <1>1, ActiveFrames DEF Frame
  <2>2. \A h \in Active : \E k \in Active' : k.task = h.task /\ k.pos \in Nat /\ k.pos >= h.pos
    BY ONLY <1>12, <2>1
  <2>3. (\A c \in Client : client[c] # "out" => client'[c] # "out")
        /\ (\A t \in Task : runs[t] = 1 => runs'[t] = 1)
    BY ONLY <1>4
  <2> QED
    BY ONLY <2>1, <2>2, <2>3, PastGrows
<1>15. Lifecycle'
  <2>1. \A t \in Pooled' : Submitted(t)' /\ runs'[t] = 0 /\ \A h \in Active' : h.task # t
    BY <1>4, <1>5, <1>6, <1>10, <1>12 DEF Submitted, Parent
  <2>2. \A h \in Active' : runs'[h.task] = IF h.at = "release" THEN 1 ELSE 0
    BY ONLY <1>4, <1>6, <1>7, <1>10, <1>12
  <2>3. \A t \in Task : runs'[t] \in {0, 1} /\ (Out(t)' \/ runs'[t] = 1 => Past(t)')
    BY ONLY <1>4, <1>6, <1>13, <1>14
  <2> QED
    BY ONLY <2>1, <2>2, <2>3 DEF Lifecycle
<1>16. GroupsHeld'
  <2>1. \A p : HasGroup(p) => HasGroup(p)'
    BY ONLY <1>4, <1>12 DEF HasGroup
  <2> QED
    BY <1>1, <1>13, <2>1 DEF GroupsHeld, Submitted, Parent
<1>17. \A t \in Task : Submitted(t) => (Counting(t)' <=> Counting(t))
  <2>1. \A t : Announced(t)' <=> Announced(t)
    BY ONLY <1>10, <1>12 DEF Announced, Parent
  <2> QED
    BY ONLY <1>4, <2>1, <1>13, CarriedStays DEF Counting
<1>18. CountsExact'
  BY ONLY <1>1, <1>4, <1>17, SameCounts
<1>19. Types'
  BY ONLY <1>1, <1>4, <1>5 DEF Types
<1> QED
  BY ONLY <1>5, <1>12, <1>15, <1>16, <1>18, <1>19 DEF PoolInv

(* A function returns.                                                     *)
LEMMA FnReturnStep ==
  ASSUME PoolInv, NEW w \in Worker, FnReturn(w)
  PROVE  PoolInv'
<1>0. PICK f, g : f = Top(w) /\ g = [f EXCEPT !.at = "release"]
  OBVIOUS
<1>1. Types /\ Shape /\ OnceInDeques /\ OnceOnStacks /\ Lifecycle /\ GroupsHeld /\ CountsExact
  BY DEF PoolInv
<1>2. /\ f.fn = "task" /\ f.at = "body" /\ f.pos > Len(Body[f.task])
      /\ runs' = [runs EXCEPT ![f.task] = @ + 1]
      /\ f.owned => Goto(w, g)
      /\ ~f.owned => calls' = [calls EXCEPT ![w] = Tail(@)]
      /\ queue' = queue /\ pending' = pending /\ client' = client
  BY <1>0 DEF FnReturn, At
<1>3. /\ f \in Active /\ f \in Frame /\ f.task \in Task /\ Len(Body[f.task]) \in Nat
      /\ f.pos \in 1..Len(Body[f.task]) + 1 /\ f.pos \in Nat
  <2>1. f \in Active /\ f \in Frame
    BY <1>0, <1>1, <1>2, TopFacts
  <2> QED
    BY <2>1, <1>1, ActiveFrames, OpsOfBody DEF Frame
<1>4. f.owned <=> Submitted(f.task)
  <2>1. Nested(w, 1)
    BY <1>1, TopFacts
  <2> QED
    BY ONLY <1>0, <1>2, <2>1 DEF Nested, Top
<1>5. Pooled' = Pooled /\ OnceInDeques'
  BY ONLY <1>1, <1>2, SamePool
<1>6. /\ \A t \in Pooled : Submitted(t) /\ runs[t] = 0 /\ \A h \in Active : h.task # t
      /\ \A h \in Active : runs[h.task] = IF h.at = "release" THEN 1 ELSE 0
      /\ \A t \in Task : runs[t] \in {0, 1}
      /\ \A t \in Task : Out(t) \/ runs[t] = 1 => Past(t)
  BY <1>1 DEF Lifecycle
<1>7. /\ runs' \in [Task -> Nat] /\ runs'[f.task] = 1 /\ Out(f.task)
      /\ \A t \in Task : t # f.task => runs'[t] = runs[t]
  <2>1. runs[f.task] = 0 /\ runs \in [Task -> Nat]
    BY ONLY <1>1, <1>2, <1>3, <1>6 DEF Types
  <2>2. Out(f.task)
    BY ONLY <1>3 DEF Out
  <2> QED
    BY ONLY <1>2, <1>3, <2>1, <2>2
<1>8. \A h \in Active : h.task = f.task => h = f
  BY <1>1, <1>3, OneFrame
<1>9. \A h \in Active : h.pos \in Nat /\ h.task \in Task
  BY <1>1, ActiveFrames DEF Frame
<1>10. ~\E j \in f.pos..Len(Body[f.task]) : Body[f.task][j] = Wait
  BY ONLY <1>2, <1>3
<1>11. /\ Shape' /\ OnceOnStacks'
       /\ \/ /\ Submitted(f.task)
             /\ Active' = (Active \ {f}) \cup {g}
             /\ g \in Frame /\ g.task = f.task /\ g.at = "release" /\ g.pos = f.pos
          \/ ~Submitted(f.task) /\ Active' = Active \ {f}
  <2>1. CASE f.owned
    <3>1. /\ g \in Frame /\ g.fn = "task" /\ g.task = f.task /\ g.at = "release"
          /\ g.owned = f.owned /\ g.pos = f.pos /\ g.time = f.time
      BY ONLY <1>0, <1>2, <1>3, FrameAt
    <3>2. g.pos \in 1..Len(Body[g.task]) + 1 /\ g.pos > Len(Body[g.task])
      BY ONLY <1>2, <1>3, <3>1
    <3>3. Shape' /\ OnceOnStacks' /\ Active' = (Active \ {f}) \cup {g}
      BY ONLY <1>0, <1>1, <1>2, <2>1, <3>1, <3>2, w \in Worker, Moved
    <3> QED
      BY <1>4, <2>1, <3>1, <3>3
  <2>2. CASE ~f.owned
    <3>1. PICK s : s = Tail(calls[w])
      OBVIOUS
    <3>2. calls' = [calls EXCEPT ![w] = s]
      BY ONLY <1>2, <2>2, <3>1
    <3>3. Replaces(w, 1, s, 0) /\ Len(s) = Len(calls[w]) - 1
      BY ONLY <1>1, <3>1, <3>2, w \in Worker, PopReplaces
    <3>4. Shape' /\ OnceOnStacks' /\ Active' = Active \ {f}
      BY ONLY <1>0, <1>1, <1>2, <3>3, w \in Worker, Popped
    <3> QED
      BY <1>4, <2>2, <3>4
  <2> QED
    BY <2>1, <2>2
<1>12. /\ \A h : h.task # f.task => (h \in Active' <=> h \in Active)
       /\ \A h \in Active' : h.task = f.task => Submitted(f.task) /\ h = g /\ g.at = "release" /\ g.pos = f.pos
       /\ \A h : h.at = "push" => (h \in Active' <=> h \in Active)
       /\ Submitted(f.task) => g \in Active' /\ g.task = f.task
  BY ONLY <1>2, <1>3, <1>8, <1>11
<1>13. \A t : /\ Out(t)' => Out(t)
              /\ Submitted(t) => (Out(t)' <=> Out(t))
  <2>1. \A t : (\E h \in Active' : h.task = t) => \E h \in Active : h.task = t
    BY ONLY <1>3, <1>12
  <2>2. \A t : Submitted(t) /\ (\E h \in Active : h.task = t) => \E h \in Active' : h.task = t
    BY ONLY <1>3, <1>8, <1>12
  <2> QED
    BY ONLY <2>1, <2>2, <1>5 DEF Out
<1>14. \A t \in Task : Past(t) => Past(t)'
  <2>1. ASSUME NEW h \in Active
        PROVE  /\ h.pos \in Nat
               /\ \/ h.task \in Task /\ runs'[h.task] = 1
                  \/ \E k \in Active' : k.task = h.task /\ k.pos \in Nat /\ k.pos >= h.pos
    BY ONLY <1>3, <1>7, <1>9, <1>12, h \in Active
  <2>2. (\A c \in Client : client[c] # "out" => client'[c] # "out")
        /\ (\A t \in Task : runs[t] = 1 => runs'[t] = 1)
    BY ONLY <1>2, <1>7
  <2> QED
    BY ONLY <2>1, <2>2, PastGrows
<1>15. Lifecycle'
  <2>1. \A t \in Pooled' : Submitted(t)' /\ runs'[t] = 0 /\ \A h \in Active' : h.task # t
    <3>1. ASSUME NEW t \in Pooled
          PROVE  Submitted(t) /\ t \in Task /\ t # f.task /\ runs[t] = 0 /\ \A h \in Active' : h.task # t
      <4>1. t \in Task
        <5>1. PICK v \in Worker : \E i \in 1..Len(queue[v]) : queue[v][i] = t
          BY PooledMember
        <5>2. queue[v] \in Seq(Task)
          BY ONLY <1>1, v \in Worker DEF Types
        <5> QED
          BY ONLY <5>1, <5>2
      <4> QED
        BY ONLY <4>1, <1>3, <1>6, <1>12, t \in Pooled
    <3> QED
      BY <3>1, <1>5, <1>7 DEF Submitted, Parent
  <2>2. \A h \in Active' : runs'[h.task] = IF h.at = "release" THEN 1 ELSE 0
    <3>1. ASSUME NEW h \in Active'
          PROVE  runs'[h.task] = IF h.at = "release" THEN 1 ELSE 0
      <4>1. CASE h.task = f.task
        BY ONLY <1>7, <1>12, <4>1, h \in Active'
      <4>2. CASE h.task # f.task
        BY ONLY <1>6, <1>7, <1>9, <1>12, <4>2, h \in Active'
      <4> QED
        BY <4>1, <4>2
    <3> QED
      BY <3>1
  <2>3. \A t \in Task : runs'[t] \in {0, 1} /\ (Out(t)' \/ runs'[t] = 1 => Past(t)')
    <3>1. ASSUME NEW t \in Task
          PROVE  runs'[t] \in {0, 1} /\ (Out(t)' \/ runs'[t] = 1 => Out(t) \/ runs[t] = 1)
      BY ONLY <1>6, <1>7, <1>13, t \in Task
    <3> QED
      BY ONLY <3>1, <1>6, <1>14
  <2> QED
    BY ONLY <2>1, <2>2, <2>3 DEF Lifecycle
<1>16. GroupsHeld'
  <2>1. ASSUME NEW p, HasGroup(p)
        PROVE  HasGroup(p)'
    <3>1. CASE p \in Client /\ client[p] = "wait"
      BY ONLY <3>1, <1>2 DEF HasGroup
    <3>2. CASE \E h \in Active : h.task = p /\ \E j \in h.pos..Len(Body[p]) : Body[p][j] = Wait
      <4>1. PICK h \in Active : h.task = p /\ \E j \in h.pos..Len(Body[p]) : Body[p][j] = Wait
        BY <3>2
      <4>2. h.task # f.task
        BY ONLY <1>8, <1>10, <4>1
      <4> QED
        BY ONLY <1>12, <4>1, <4>2 DEF HasGroup
    <3> QED
      BY ONLY <2>1, <3>1, <3>2 DEF HasGroup
  <2> QED
    BY <1>1, <1>13, <2>1 DEF GroupsHeld, Submitted, Parent
<1>17. \A t \in Task : Submitted(t) => (Counting(t)' <=> Counting(t))
  <2>1. \A t : Announced(t)' <=> Announced(t)
    BY ONLY <1>12 DEF Announced, Parent
  <2> QED
    BY ONLY <1>2, <2>1, <1>13, CarriedStays DEF Counting
<1>18. CountsExact'
  BY ONLY <1>1, <1>2, <1>17, SameCounts
<1>19. Types'
  <2>1. ASSUME NEW c \in Client, client'[c] = "spawn"
        PROVE  runs'[Root[c]] = 0
    <3>1. client[c] = "spawn" /\ client[c] # "wait"
      BY ONLY <1>2, <2>1
    <3>2. PICK r : r = Root[c]
      OBVIOUS
    <3>3. r \in Task /\ ~Out(r)
      BY ONLY <1>1, <3>1, <3>2, c \in Client, AwayFromPool
    <3>4. runs[r] = 0
      BY ONLY <1>1, <3>1, <3>2, c \in Client DEF Types
    <3> QED
      BY ONLY <1>7, <3>2, <3>3, <3>4
  <2> QED
    BY ONLY <1>1, <1>2, <1>7, <2>1 DEF Types
<1> QED
  BY ONLY <1>5, <1>11, <1>15, <1>16, <1>18, <1>19 DEF PoolInv

(* A functor is dropped: its counter is there and counts it.               *)
LEMMA ReleaseStep ==
  ASSUME PoolInv, NEW w \in Worker, Release(w)
  PROVE  PoolInv'
<1>0. PICK f, u, p : f = Top(w) /\ u = f.task /\ p = Parent(u)
  OBVIOUS
<1>1. Types /\ Shape /\ OnceInDeques /\ OnceOnStacks /\ Lifecycle /\ GroupsHeld /\ CountsExact
  BY DEF PoolInv
<1>2. /\ f.fn = "task" /\ f.at = "release"
      /\ pending' = IF Live(p) THEN [pending EXCEPT ![p] = @ - 1] ELSE pending
      /\ calls' = [calls EXCEPT ![w] = Tail(@)]
      /\ queue' = queue /\ client' = client /\ runs' = runs
  BY <1>0 DEF Release, At
<1>3. /\ f \in Active /\ f \in Frame /\ u \in Task /\ Len(Body[u]) \in Nat
      /\ f.pos \in Nat /\ f.pos > Len(Body[u]) /\ Submitted(u)
  <2>1. f \in Active /\ f \in Frame
    BY <1>0, <1>1, <1>2, TopFacts
  <2> QED
    BY <2>1, <1>0, <1>1, <1>2, ActiveFrames, OpsOfBody DEF Frame
<1>4. Pooled' = Pooled /\ OnceInDeques'
  BY ONLY <1>1, <1>2, SamePool
<1>5. /\ \A t \in Pooled : Submitted(t) /\ runs[t] = 0 /\ \A h \in Active : h.task # t
      /\ \A h \in Active : runs[h.task] = IF h.at = "release" THEN 1 ELSE 0
      /\ \A t \in Task : runs[t] \in {0, 1}
      /\ \A t \in Task : Out(t) \/ runs[t] = 1 => Past(t)
  BY <1>1 DEF Lifecycle
<1>6. runs[u] = 1 /\ Out(u) /\ u \notin Pooled
  BY ONLY <1>0, <1>2, <1>3, <1>5 DEF Out
<1>7. \A h \in Active : h.task = u => h = f
  BY <1>0, <1>1, <1>3, OneFrame
<1>8. Shape' /\ OnceOnStacks' /\ Active' = Active \ {f}
  <2>1. PICK s : s = Tail(calls[w])
    OBVIOUS
  <2>2. calls' = [calls EXCEPT ![w] = s]
    BY ONLY <1>2, <2>1
  <2>3. Replaces(w, 1, s, 0) /\ Len(s) = Len(calls[w]) - 1
    BY ONLY <1>1, <2>1, <2>2, w \in Worker, PopReplaces
  <2> QED
    BY ONLY <1>0, <1>1, <1>2, <2>3, w \in Worker, Popped
<1>9. /\ \A h : h \in Active' <=> h \in Active /\ h.task # u
      /\ \A h : h.at = "push" => (h \in Active' <=> h \in Active)
  BY ONLY <1>0, <1>2, <1>7, <1>8
<1>10. \A t : Out(t)' <=> Out(t) /\ t # u
  BY ONLY <1>4, <1>6, <1>9 DEF Out
<1>11. \A t \in Task : Past(t) => Past(t)'
  <2>1. ASSUME NEW h \in Active
        PROVE  /\ h.pos \in Nat
               /\ \/ h.task \in Task /\ runs'[h.task] = 1
                  \/ \E k \in Active' : k.task = h.task /\ k.pos \in Nat /\ k.pos >= h.pos
    <3>1. h.pos \in Nat
      BY <1>1, ActiveFrames DEF Frame
    <3>2. h.pos >= h.pos
      BY ONLY <3>1
    <3> QED
      BY ONLY <1>2, <1>3, <1>6, <1>9, <3>1, <3>2, h \in Active
  <2>2. (\A c \in Client : client[c] # "out" => client'[c] # "out")
        /\ (\A t \in Task : runs[t] = 1 => runs'[t] = 1)
    BY ONLY <1>2
  <2> QED
    BY ONLY <2>1, <2>2, PastGrows
<1>12. Lifecycle'
  <2>1. \A t \in Pooled' : Submitted(t)' /\ runs'[t] = 0 /\ \A h \in Active' : h.task # t
    BY <1>2, <1>4, <1>5, <1>9 DEF Submitted, Parent
  <2>2. \A h \in Active' : runs'[h.task] = IF h.at = "release" THEN 1 ELSE 0
    BY ONLY <1>2, <1>5, <1>9
  <2>3. \A t \in Task : runs'[t] \in {0, 1} /\ (Out(t)' \/ runs'[t] = 1 => Past(t)')
    BY ONLY <1>2, <1>5, <1>10, <1>11
  <2> QED
    BY ONLY <2>1, <2>2, <2>3 DEF Lifecycle
<1>13. GroupsHeld'
  <2>1. ASSUME NEW q, HasGroup(q)
        PROVE  HasGroup(q)'
    <3>1. CASE q \in Client /\ client[q] = "wait"
      BY ONLY <3>1, <1>2 DEF HasGroup
    <3>2. CASE \E h \in Active : h.task = q /\ \E j \in h.pos..Len(Body[q]) : Body[q][j] = Wait
      <4>1. PICK h \in Active : h.task = q /\ \E j \in h.pos..Len(Body[q]) : Body[q][j] = Wait
        BY <3>2
      <4>2. h.task # u
        <5>1. ~\E j \in f.pos..Len(Body[u]) : Body[u][j] = Wait
          BY ONLY <1>3
        <5> QED
          BY ONLY <1>7, <4>1, <5>1
      <4> QED
        BY ONLY <1>9, <4>1, <4>2 DEF HasGroup
    <3> QED
      BY ONLY <2>1, <3>1, <3>2 DEF HasGroup
  <2> QED
    BY <1>1, <1>10, <2>1 DEF GroupsHeld, Submitted, Parent
<1>14. pending' = [pending EXCEPT ![Parent(u)] = @ - 1]
  <2>1. HasGroup(p) /\ p \in Task \cup Client
    BY <1>0, <1>1, <1>3, <1>6, SiteUnique DEF GroupsHeld
  <2>2. Live(p)
    BY <1>1, <2>1, LiveIsHasGroup
  <2> QED
    BY ONLY <1>0, <1>2, <2>2
<1>15. \A t \in Task : Submitted(t) => (Counting(t)' <=> Counting(t) /\ t # u)
  <2>1. \A t : Announced(t)' <=> Announced(t)
    BY ONLY <1>9 DEF Announced, Parent
  <2>2. ~Announced(u)
    <3>1. ASSUME Announced(u)
          PROVE  FALSE
      <4>1. PICK h \in Active : h.at = "push" /\ h.task = Parent(u) /\ Body[Parent(u)][h.pos].fn = u
        BY <3>1 DEF Announced
      <4>2. h.pos <= Len(Body[h.task]) /\ Body[h.task][h.pos].op = "run"
        BY <1>1, <4>1, ActiveFrames
      <4>3. u = Body[h.task][h.pos].fn
        BY ONLY <4>1
      <4>4. ~Out(u)
        BY ONLY <1>1, <4>1, <4>2, <4>3, Future
      <4> QED
        BY <1>6, <4>4
    <3> QED
      BY <3>1
  <2>3. ~Carried(u)
    <3>1. HasGroup(Parent(u))
      BY <1>1, <1>3, <1>6 DEF GroupsHeld
    <3> QED
      BY ONLY <1>1, <3>1, NotCarried
  <2> QED
    BY ONLY <1>2, <2>1, <2>2, <2>3, <1>10, CarriedStays DEF Counting
<1>16. CountsExact' /\ pending' \in [Task \cup Client -> Nat]
  <2>1. Counting(u) /\ pending \in [Task \cup Client -> Nat]
    BY ONLY <1>1, <1>6 DEF Counting, Types
  <2> QED
    BY ONLY <1>1, <1>3, <1>14, <1>15, <2>1, OneLess
<1>17. Types'
  BY ONLY <1>1, <1>2, <1>16 DEF Types
<1> QED
  BY ONLY <1>4, <1>8, <1>12, <1>13, <1>16, <1>17 DEF PoolInv

(* The clients.                                                            *)
LEMMA BeginArenaStep ==
  ASSUME PoolInv, NEW c \in Client, BeginArena(c)
  PROVE  PoolInv'
<1>0. PICK u : u = Root[c]
  OBVIOUS
<1>1. Types /\ Shape /\ OnceInDeques /\ OnceOnStacks /\ Lifecycle /\ GroupsHeld /\ CountsExact
  BY DEF PoolInv
<1>2. /\ client[c] = "out" /\ client' = [client EXCEPT ![c] = "wait"]
      /\ pending' = [pending EXCEPT ![c] = @ + 1]
      /\ queue' = [queue EXCEPT ![Front] = <<u>> \o @]
      /\ calls' = calls /\ runs' = runs
  BY <1>0 DEF BeginArena
<1>3. /\ u \in Task /\ Parent(u) = c /\ Submitted(u) /\ ~Out(u) /\ runs[u] = 0 /\ ~Announced(u)
  BY ONLY <1>0, <1>1, <1>2, c \in Client, FutureRoot
<1>4. Active' = Active /\ Shape' /\ OnceOnStacks'
  BY ONLY <1>1, <1>2, SameStacks
<1>5. queue' \in [Worker -> Seq(Task)] /\ OnceInDeques' /\ Pooled' = Pooled \cup {u}
  <2>1. Front \in Worker
    BY PoolAssumption DEF Front, Worker
  <2>2. u \notin Pooled /\ queue \in [Worker -> Seq(Task)]
    BY ONLY <1>1, <1>3 DEF Out, Types
  <2> QED
    BY ONLY <1>1, <1>2, <1>3, <2>1, <2>2, PoolPush
<1>6. /\ client' \in [Client -> Place] /\ client'[c] = "wait"
      /\ \A k \in Client : k # c => client'[k] = client[k]
  BY ONLY <1>1, <1>2, c \in Client DEF Types, Place
<1>7. \A t : Out(t)' <=> Out(t) \/ t = u
  BY ONLY <1>4, <1>5 DEF Out
<1>8. \A t \in Task : Past(t) => Past(t)'
  BY ONLY <1>2, <1>4, <1>6 DEF Past, Parent
<1>9. Past(u)'
  BY ONLY <1>3, <1>6, c \in Client DEF Past, Parent
<1>10. Lifecycle'
  <2>1. /\ \A t \in Pooled : Submitted(t) /\ runs[t] = 0 /\ \A h \in Active : h.task # t
        /\ \A h \in Active : runs[h.task] = IF h.at = "release" THEN 1 ELSE 0
        /\ \A t \in Task : runs[t] \in {0, 1}
        /\ \A t \in Task : Out(t) \/ runs[t] = 1 => Past(t)
    BY <1>1 DEF Lifecycle
  <2>2. \A h \in Active : h.task # u
    BY ONLY <1>3 DEF Out
  <2>3. \A t \in Pooled' : Submitted(t)' /\ runs'[t] = 0 /\ \A h \in Active' : h.task # t
    BY <1>2, <1>3, <1>4, <1>5, <2>1, <2>2 DEF Submitted, Parent
  <2>4. \A t \in Task : runs'[t] \in {0, 1} /\ (Out(t)' \/ runs'[t] = 1 => Past(t)')
    BY ONLY <1>2, <1>7, <1>8, <1>9, <2>1
  <2>5. \A h \in Active' : runs'[h.task] = IF h.at = "release" THEN 1 ELSE 0
    BY ONLY <1>2, <1>4, <2>1
  <2> QED
    BY ONLY <2>3, <2>4, <2>5 DEF Lifecycle
<1>11. GroupsHeld'
  <2>1. \A p : HasGroup(p) => HasGroup(p)'
    BY ONLY <1>4, <1>6 DEF HasGroup
  <2>2. HasGroup(c)'
    BY ONLY <1>6, c \in Client DEF HasGroup
  <2> QED
    BY <1>1, <1>3, <1>7, <2>1, <2>2 DEF GroupsHeld, Submitted, Parent
<1>12. CountsExact' /\ pending' \in [Task \cup Client -> Nat]
  <2>0. \A t : (Carried(t)' <=> Carried(t)) /\ ~Carried(u)
    BY ONLY <1>2, <1>3, <1>6 DEF Carried, Parent, Holding
  <2>1. \A t : Announced(t)' <=> Announced(t)
    BY ONLY <1>4 DEF Announced, Parent
  <2>2. \A t \in Task : Submitted(t) => (Counting(t)' <=> Counting(t) \/ t = u)
    BY ONLY <2>1, <2>0, <1>7 DEF Counting
  <2>3. ~Counting(u) /\ pending \in [Task \cup Client -> Nat]
    BY ONLY <1>1, <1>3, <2>0 DEF Counting, Types
  <2>4. pending' = [pending EXCEPT ![Parent(u)] = @ + 1]
    BY ONLY <1>2, <1>3
  <2> QED
    BY ONLY <1>1, <1>3, <2>2, <2>3, <2>4, OneMore
<1>13. Types'
  <2>1. \A k \in Client : client'[k] = "spawn" => runs'[Root[k]] = 0
    BY ONLY <1>1, <1>2, <1>6 DEF Types
  <2> QED
    BY ONLY <1>1, <1>2, <1>5, <1>6, <1>12, <2>1 DEF Types
<1> QED
  BY ONLY <1>4, <1>5, <1>10, <1>11, <1>12, <1>13 DEF PoolInv

(* A begin_arena returns when nothing points to its counter.               *)
LEMMA ArenaReturnStep ==
  ASSUME PoolInv, NEW c \in Client, ArenaReturn(c)
  PROVE  PoolInv'
<1>1. Types /\ Shape /\ OnceInDeques /\ OnceOnStacks /\ Lifecycle /\ GroupsHeld /\ CountsExact
  BY DEF PoolInv
<1>2. /\ client[c] = "wait" /\ client' = [client EXCEPT ![c] = "back"] /\ pending[c] = 0
      /\ queue' = queue /\ calls' = calls /\ pending' = pending /\ runs' = runs
  BY DEF ArenaReturn
<1>3. Active' = Active /\ Shape' /\ OnceOnStacks'
  BY ONLY <1>1, <1>2, SameStacks
<1>4. Pooled' = Pooled /\ OnceInDeques'
  BY ONLY <1>1, <1>2, SamePool
<1>5. /\ client' \in [Client -> Place] /\ client'[c] = "back"
      /\ \A k \in Client : k # c => client'[k] = client[k]
  BY ONLY <1>1, <1>2, c \in Client DEF Types, Place
<1>6. \A t : Out(t)' <=> Out(t)
  BY ONLY <1>3, <1>4 DEF Out
<1>7. \A t \in Task : Past(t) => Past(t)'
  BY ONLY <1>2, <1>3, <1>5 DEF Past, Parent
<1>8. Lifecycle'
  <2>1. /\ \A t \in Pooled : Submitted(t) /\ runs[t] = 0 /\ \A h \in Active : h.task # t
        /\ \A h \in Active : runs[h.task] = IF h.at = "release" THEN 1 ELSE 0
        /\ \A t \in Task : runs[t] \in {0, 1}
        /\ \A t \in Task : Out(t) \/ runs[t] = 1 => Past(t)
    BY <1>1 DEF Lifecycle
  <2>2. \A t \in Pooled' : Submitted(t)' /\ runs'[t] = 0 /\ \A h \in Active' : h.task # t
    BY <1>2, <1>3, <1>4, <2>1 DEF Submitted, Parent
  <2>3. \A t \in Task : runs'[t] \in {0, 1} /\ (Out(t)' \/ runs'[t] = 1 => Past(t)')
    BY ONLY <1>2, <1>6, <1>7, <2>1
  <2>4. \A h \in Active' : runs'[h.task] = IF h.at = "release" THEN 1 ELSE 0
    BY ONLY <1>2, <1>3, <2>1
  <2> QED
    BY ONLY <2>2, <2>3, <2>4 DEF Lifecycle
<1>9. GroupsHeld'
  <2>1. \A t \in Task : Submitted(t) /\ Parent(t) = c => ~Counting(t)
    BY <1>1, <1>2, NoMembers
  <2>2. \A p : p # c /\ HasGroup(p) => HasGroup(p)'
    BY ONLY <1>3, <1>5 DEF HasGroup
  <2>3. ASSUME NEW t \in Task, Submitted(t), Out(t)
        PROVE  HasGroup(Parent(t))'
    <3>1. Parent(t) # c
      BY ONLY <2>1, <2>3, t \in Task DEF Counting
    <3>2. HasGroup(Parent(t))
      BY <1>1, <2>3 DEF GroupsHeld
    <3> QED
      BY <2>2, <3>1, <3>2 DEF Parent
  <2> QED
    BY <1>6, <2>3 DEF GroupsHeld, Submitted, Parent
<1>10. CountsExact'
  <2>0. \A t : Carried(t)' <=> Carried(t)
    BY ONLY <1>2, <1>5 DEF Carried, Parent, Holding
  <2>1. \A t : Announced(t)' <=> Announced(t)
    BY ONLY <1>3 DEF Announced, Parent
  <2>2. \A t \in Task : Submitted(t) => (Counting(t)' <=> Counting(t))
    BY ONLY <2>1, <2>0, <1>6 DEF Counting
  <2> QED
    BY ONLY <1>1, <1>2, <2>2, SameCounts
<1>11. Types'
  <2>1. \A k \in Client : client'[k] = "spawn" => runs'[Root[k]] = 0
    BY ONLY <1>1, <1>2, <1>5 DEF Types
  <2> QED
    BY ONLY <1>1, <1>2, <1>5, <2>1 DEF Types
<1> QED
  BY ONLY <1>3, <1>4, <1>8, <1>9, <1>10, <1>11 DEF PoolInv

(* A client in run, or unwinding from it, moves on to a.                   *)
LEMMA ClientMoves ==
  ASSUME PoolInv, NEW c \in Client, NEW a \in Place, a \notin {"out", "wait"}, client[c] # "wait",
         client' = [client EXCEPT ![c] = a], queue' = queue, calls' = calls, runs' = runs
  PROVE  /\ client' \in [Client -> Place] /\ client'[c] = a
         /\ \A k \in Client : k # c => client'[k] = client[k]
         /\ Shape' /\ OnceOnStacks' /\ OnceInDeques' /\ Lifecycle' /\ GroupsHeld'
         /\ \A t : (Out(t)' <=> Out(t)) /\ (Announced(t)' <=> Announced(t))
<1>1. Types /\ Shape /\ OnceInDeques /\ OnceOnStacks /\ Lifecycle /\ GroupsHeld
  BY DEF PoolInv
<1>2. Active' = Active /\ Shape' /\ OnceOnStacks'
  BY ONLY <1>1, calls' = calls, SameStacks
<1>3. Pooled' = Pooled /\ OnceInDeques'
  BY ONLY <1>1, queue' = queue, SamePool
<1>4. /\ client' \in [Client -> Place] /\ client'[c] = a
      /\ \A k \in Client : k # c => client'[k] = client[k]
  BY ONLY <1>1, client' = [client EXCEPT ![c] = a], c \in Client, a \in Place DEF Types
<1>5. \A t : (Out(t)' <=> Out(t)) /\ (Announced(t)' <=> Announced(t))
  BY ONLY <1>2, <1>3 DEF Out, Announced, Parent
<1>6. \A t \in Task : Past(t) => Past(t)'
  BY ONLY <1>2, <1>4, a \notin {"out", "wait"}, runs' = runs DEF Past, Parent
<1>7. Lifecycle'
  <2>1. /\ \A t \in Pooled : Submitted(t) /\ runs[t] = 0 /\ \A h \in Active : h.task # t
        /\ \A h \in Active : runs[h.task] = IF h.at = "release" THEN 1 ELSE 0
        /\ \A t \in Task : runs[t] \in {0, 1}
        /\ \A t \in Task : Out(t) \/ runs[t] = 1 => Past(t)
    BY <1>1 DEF Lifecycle
  <2>2. \A t \in Pooled' : Submitted(t)' /\ runs'[t] = 0 /\ \A h \in Active' : h.task # t
    BY <1>2, <1>3, <2>1 DEF Submitted, Parent
  <2>3. \A h \in Active' : runs'[h.task] = IF h.at = "release" THEN 1 ELSE 0
    BY ONLY <1>2, <2>1, runs' = runs
  <2>4. \A t \in Task : runs'[t] \in {0, 1} /\ (Out(t)' \/ runs'[t] = 1 => Past(t)')
    BY ONLY <1>5, <1>6, <2>1, runs' = runs
  <2> QED
    BY ONLY <2>2, <2>3, <2>4 DEF Lifecycle
<1>8. GroupsHeld'
  <2>1. \A p : HasGroup(p) => HasGroup(p)'
    BY ONLY <1>2, <1>4, client[c] # "wait" DEF HasGroup
  <2> QED
    BY <1>1, <1>5, <2>1 DEF GroupsHeld, Submitted, Parent
<1> QED
  BY ONLY <1>2, <1>3, <1>4, <1>5, <1>7, <1>8

(* run outside the pool counts, ...                                        *)
LEMMA RunOutsideStep ==
  ASSUME PoolInv, NEW c \in Client, RunOutside(c)
  PROVE  PoolInv'
<1>0. PICK u, a : u = Root[c] /\ a = "spawn"
  OBVIOUS
<1>1. Types /\ Shape /\ OnceInDeques /\ OnceOnStacks /\ Lifecycle /\ GroupsHeld /\ CountsExact
  BY DEF PoolInv
<1>2. /\ client[c] = "out" /\ client' = [client EXCEPT ![c] = a]
      /\ pending' = [pending EXCEPT ![c] = @ + 1]
      /\ queue' = queue /\ calls' = calls /\ runs' = runs
  BY <1>0 DEF RunOutside
<1>3. /\ u \in Task /\ Parent(u) = c /\ Submitted(u) /\ ~Out(u) /\ runs[u] = 0 /\ ~Announced(u)
  BY ONLY <1>0, <1>1, <1>2, c \in Client, FutureRoot
<1>4. /\ client' \in [Client -> Place] /\ client'[c] = a
      /\ \A k \in Client : k # c => client'[k] = client[k]
      /\ Shape' /\ OnceOnStacks' /\ OnceInDeques' /\ Lifecycle' /\ GroupsHeld'
      /\ \A t : (Out(t)' <=> Out(t)) /\ (Announced(t)' <=> Announced(t))
  <2>1. a \in Place /\ a \notin {"out", "wait"} /\ client[c] # "wait"
    BY ONLY <1>0, <1>2 DEF Place
  <2> QED
    BY ONLY PoolInv, <1>2, <2>1, c \in Client, ClientMoves
<1>5. \A t \in Task : Carried(t)' <=> Carried(t) \/ t = u
  BY <1>0, <1>2, <1>3, <1>4, SiteUnique DEF Carried, Parent, Holding
<1>6. \A t \in Task : Submitted(t) => (Counting(t)' <=> Counting(t) \/ t = u)
  BY ONLY <1>4, <1>5 DEF Counting
<1>7. ~Counting(u) /\ pending \in [Task \cup Client -> Nat]
  <2>1. ~Carried(u)
    BY ONLY <1>2, <1>3 DEF Carried, Holding
  <2> QED
    BY ONLY <1>1, <1>3, <2>1 DEF Counting, Types
<1>8. CountsExact' /\ pending' \in [Task \cup Client -> Nat]
  <2>1. pending' = [pending EXCEPT ![Parent(u)] = @ + 1]
    BY ONLY <1>2, <1>3
  <2> QED
    BY ONLY <1>1, <1>3, <1>6, <1>7, <2>1, OneMore
<1>9. Types'
  <2>1. \A k \in Client : client'[k] = "spawn" => runs'[Root[k]] = 0
    BY ONLY <1>0, <1>1, <1>2, <1>3, <1>4 DEF Types
  <2> QED
    BY ONLY <1>1, <1>2, <1>4, <1>8, <2>1 DEF Types
<1> QED
  BY ONLY <1>4, <1>8, <1>9 DEF PoolInv

(* ... the throw drops the functor, which runs the function, ...           *)
LEMMA DropOutsideStep ==
  ASSUME PoolInv, NEW c \in Client, DropOutside(c)
  PROVE  PoolInv'
<1>0. PICK u : u = Root[c]
  OBVIOUS
<1>1. Types /\ Shape /\ OnceInDeques /\ OnceOnStacks /\ Lifecycle /\ GroupsHeld /\ CountsExact
  BY DEF PoolInv
<1>2. /\ client[c] = "spawn" /\ client' = [client EXCEPT ![c] = "release"]
      /\ runs' = [runs EXCEPT ![u] = @ + 1]
      /\ queue' = queue /\ calls' = calls /\ pending' = pending
  BY <1>0 DEF DropOutside
<1>3. /\ u \in Task /\ Parent(u) = c /\ ~Out(u) /\ runs[u] = 0
  <2>1. client[c] # "wait" /\ runs[u] = 0
    BY ONLY <1>0, <1>1, <1>2, c \in Client DEF Types
  <2> QED
    BY ONLY <1>0, <1>1, <2>1, c \in Client, AwayFromPool
<1>4. Active' = Active /\ Shape' /\ OnceOnStacks'
  BY ONLY <1>1, <1>2, SameStacks
<1>5. Pooled' = Pooled /\ OnceInDeques'
  BY ONLY <1>1, <1>2, SamePool
<1>6. /\ client' \in [Client -> Place] /\ client'[c] = "release"
      /\ \A k \in Client : k # c => client'[k] = client[k]
  BY ONLY <1>1, <1>2, c \in Client DEF Types, Place
<1>7. runs' \in [Task -> Nat] /\ runs'[u] = 1 /\ \A t \in Task : t # u => runs'[t] = runs[t]
  BY ONLY <1>1, <1>2, <1>3 DEF Types
<1>8. \A t : Out(t)' <=> Out(t)
  BY ONLY <1>4, <1>5 DEF Out
<1>9. \A t \in Task : Past(t) => Past(t)'
  BY ONLY <1>3, <1>4, <1>6, <1>7 DEF Past, Parent
<1>10. Past(u)'
  BY ONLY <1>3, <1>6, c \in Client DEF Past, Parent
<1>11. Lifecycle'
  <2>1. /\ \A t \in Pooled : Submitted(t) /\ runs[t] = 0 /\ \A h \in Active : h.task # t
        /\ \A h \in Active : runs[h.task] = IF h.at = "release" THEN 1 ELSE 0
        /\ \A t \in Task : runs[t] \in {0, 1}
        /\ \A t \in Task : Out(t) \/ runs[t] = 1 => Past(t)
    BY <1>1 DEF Lifecycle
  <2>2. u \notin Pooled /\ \A h \in Active : h.task # u /\ h.task \in Task
    <3>1. \A h \in Active : h.task \in Task
      BY <1>1, ActiveFrames
    <3> QED
      BY ONLY <1>3, <3>1 DEF Out
  <2>3. \A t \in Pooled' : Submitted(t)' /\ runs'[t] = 0 /\ \A h \in Active' : h.task # t
    <3>1. \A t \in Pooled : t \in Task
      <4>1. ASSUME NEW v \in Worker, NEW i \in 1..Len(queue[v])
            PROVE  queue[v][i] \in Task
        <5>1. queue[v] \in Seq(Task)
          BY ONLY <1>1, v \in Worker DEF Types
        <5> QED
          BY ONLY <5>1, i \in 1..Len(queue[v])
      <4> QED
        BY <4>1, PooledMember
    <3> QED
      BY <1>4, <1>5, <1>7, <2>1, <2>2, <3>1 DEF Submitted, Parent
  <2>4. \A h \in Active' : runs'[h.task] = IF h.at = "release" THEN 1 ELSE 0
    BY ONLY <1>4, <1>7, <2>1, <2>2
  <2>5. \A t \in Task : runs'[t] \in {0, 1} /\ (Out(t)' \/ runs'[t] = 1 => Past(t)')
    BY ONLY <1>3, <1>7, <1>8, <1>9, <1>10, <2>1
  <2> QED
    BY ONLY <2>3, <2>4, <2>5 DEF Lifecycle
<1>12. GroupsHeld'
  <2>1. \A p : HasGroup(p) => HasGroup(p)'
    BY ONLY <1>2, <1>4, <1>6 DEF HasGroup
  <2> QED
    BY <1>1, <1>8, <2>1 DEF GroupsHeld, Submitted, Parent
<1>13. CountsExact'
  <2>0. \A t : Carried(t)' <=> Carried(t)
    BY ONLY <1>2, <1>6 DEF Carried, Parent, Holding
  <2>1. \A t : Announced(t)' <=> Announced(t)
    BY ONLY <1>4 DEF Announced, Parent
  <2>2. \A t \in Task : Submitted(t) => (Counting(t)' <=> Counting(t))
    BY ONLY <2>1, <2>0, <1>8 DEF Counting
  <2> QED
    BY ONLY <1>1, <1>2, <2>2, SameCounts
<1>14. Types'
  <2>1. ASSUME NEW k \in Client, client'[k] = "spawn"
        PROVE  runs'[Root[k]] = 0
    <3>1. k # c /\ client[k] = "spawn"
      BY ONLY <1>6, <2>1
    <3>2. Root[k] \in Task /\ Parent(Root[k]) = k
      BY SiteUnique
    <3>3. Root[k] # u
      BY ONLY <1>3, <3>1, <3>2
    <3> QED
      BY ONLY <1>1, <1>7, <3>1, <3>2, <3>3 DEF Types
  <2> QED
    BY ONLY <1>1, <1>2, <1>6, <1>7, <2>1 DEF Types
<1> QED
  BY ONLY <1>4, <1>5, <1>11, <1>12, <1>13, <1>14 DEF PoolInv

(* ... and is no longer counted.                                           *)
LEMMA ReleaseOutsideStep ==
  ASSUME PoolInv, NEW c \in Client, ReleaseOutside(c)
  PROVE  PoolInv'
<1>0. PICK u, a : u = Root[c] /\ a = "unwind"
  OBVIOUS
<1>1. Types /\ Shape /\ OnceInDeques /\ OnceOnStacks /\ Lifecycle /\ GroupsHeld /\ CountsExact
  BY DEF PoolInv
<1>2. /\ client[c] = "release" /\ client' = [client EXCEPT ![c] = a] /\ client[c] # "wait"
      /\ pending' = [pending EXCEPT ![c] = @ - 1]
      /\ queue' = queue /\ calls' = calls /\ runs' = runs
  BY <1>0 DEF ReleaseOutside
<1>3. u \in Task /\ Parent(u) = c /\ Submitted(u) /\ ~Out(u) /\ ~Announced(u)
  BY ONLY <1>0, <1>1, <1>2, c \in Client, AwayFromPool
<1>4. /\ client' \in [Client -> Place] /\ client'[c] = a
      /\ \A k \in Client : k # c => client'[k] = client[k]
      /\ Shape' /\ OnceOnStacks' /\ OnceInDeques' /\ Lifecycle' /\ GroupsHeld'
      /\ \A t : (Out(t)' <=> Out(t)) /\ (Announced(t)' <=> Announced(t))
  <2>1. a \in Place /\ a \notin {"out", "wait"}
    BY ONLY <1>0 DEF Place
  <2> QED
    BY ONLY PoolInv, <1>2, <2>1, c \in Client, ClientMoves
<1>5. Carried(u) /\ \A t \in Task : Carried(t)' <=> Carried(t) /\ t # u
  BY <1>0, <1>2, <1>3, <1>4, SiteUnique DEF Carried, Parent, Holding
<1>6. \A t \in Task : Submitted(t) => (Counting(t)' <=> Counting(t) /\ t # u)
  BY ONLY <1>3, <1>4, <1>5 DEF Counting
<1>7. CountsExact' /\ pending' \in [Task \cup Client -> Nat]
  <2>1. pending' = [pending EXCEPT ![Parent(u)] = @ - 1]
    BY ONLY <1>2, <1>3
  <2>2. Counting(u) /\ pending \in [Task \cup Client -> Nat]
    BY ONLY <1>1, <1>5 DEF Counting, Types
  <2> QED
    BY ONLY <1>1, <1>3, <1>6, <2>1, <2>2, OneLess
<1>8. Types'
  <2>1. \A k \in Client : client'[k] = "spawn" => runs'[Root[k]] = 0
    BY ONLY <1>0, <1>1, <1>2, <1>4 DEF Types
  <2> QED
    BY ONLY <1>1, <1>2, <1>4, <1>7, <2>1 DEF Types
<1> QED
  BY ONLY <1>4, <1>7, <1>8 DEF PoolInv

(* So the counter is zero when the task_group is unwound, and the wait in  *)
(* its destructor does not throw.                                          *)
LEMMA UnwindGroupStep ==
  ASSUME PoolInv, NEW c \in Client, UnwindGroup(c)
  PROVE  PoolInv'
<1>0. PICK a : a = "threw"
  OBVIOUS
<1>1. Types /\ Shape /\ OnceInDeques /\ OnceOnStacks /\ Lifecycle /\ GroupsHeld /\ CountsExact
  BY DEF PoolInv
<1>2. /\ client[c] = "unwind" /\ client[c] # "wait"
      /\ client' = [client EXCEPT ![c] = IF pending[c] = 0 THEN "threw" ELSE "terminated"]
      /\ queue' = queue /\ calls' = calls /\ pending' = pending /\ runs' = runs
  BY DEF UnwindGroup
<1>3. pending[c] = 0
  <2>1. ASSUME NEW t \in Task, Parent(t) = c
        PROVE  ~Counting(t)
    <3>1. t = Root[c]
      BY <2>1, SiteUnique
    <3>2. ~Out(t) /\ ~Announced(t)
      BY ONLY <1>1, <1>2, <3>1, c \in Client, AwayFromPool
    <3>3. ~Carried(t)
      BY ONLY <1>2, <2>1 DEF Carried, Holding
    <3> QED
      BY ONLY <3>2, <3>3 DEF Counting
  <2>2. Members(c) = {}
    BY ONLY <2>1 DEF Members
  <2> QED
    BY ONLY <1>1, <2>2, c \in Client, FS_EmptySet DEF CountsExact
<1>4. client' = [client EXCEPT ![c] = a]
  BY ONLY <1>0, <1>2, <1>3
<1>5. /\ client' \in [Client -> Place] /\ client'[c] = a
      /\ \A k \in Client : k # c => client'[k] = client[k]
      /\ Shape' /\ OnceOnStacks' /\ OnceInDeques' /\ Lifecycle' /\ GroupsHeld'
      /\ \A t : (Out(t)' <=> Out(t)) /\ (Announced(t)' <=> Announced(t))
  <2>1. a \in Place /\ a \notin {"out", "wait"}
    BY ONLY <1>0 DEF Place
  <2> QED
    BY ONLY PoolInv, <1>2, <1>4, <2>1, c \in Client, ClientMoves
<1>6. \A t : Carried(t)' <=> Carried(t)
  BY ONLY <1>0, <1>2, <1>5 DEF Carried, Parent, Holding
<1>7. CountsExact'
  <2>1. \A t \in Task : Submitted(t) => (Counting(t)' <=> Counting(t))
    BY ONLY <1>5, <1>6 DEF Counting
  <2> QED
    BY ONLY <1>1, <1>2, <2>1, SameCounts
<1>8. Types'
  <2>1. \A k \in Client : client'[k] = "spawn" => runs'[Root[k]] = 0
    BY ONLY <1>0, <1>1, <1>2, <1>5 DEF Types
  <2> QED
    BY ONLY <1>1, <1>2, <1>5, <2>1 DEF Types
<1> QED
  BY ONLY <1>5, <1>7, <1>8 DEF PoolInv

-----------------------------------------------------------------------------
LEMMA PoolInit == Init => PoolInv
<1> SUFFICES ASSUME Init PROVE PoolInv
  OBVIOUS
<1>1. /\ queue = [w \in Worker |-> <<>>] /\ calls = [w \in Worker |-> <<LoopFrame>>]
      /\ pending = [p \in Task \cup Client |-> 0]
      /\ client = [c \in Client |-> "out"] /\ runs = [t \in Task |-> 0]
  BY DEF Init
<1>2. Types
  BY ONLY <1>1 DEF Types, Place
<1>3. /\ LoopFrame \in Frame /\ LoopFrame.fn = "loop" /\ LoopFrame.at = "look"
      /\ LoopFrame.task = None /\ LoopFrame.pos = 1 /\ LoopFrame.time = 0
  BY ONLY TRUE DEF LoopFrame, Frame
<1>4. ASSUME NEW w \in Worker
      PROVE  /\ queue[w] = <<>> /\ Len(queue[w]) = 0
             /\ calls[w] \in Seq(Frame) /\ Len(calls[w]) = 1 /\ calls[w][1] = LoopFrame
  <2>1. queue[w] = <<>> /\ calls[w] = <<LoopFrame>>
    BY ONLY <1>1, w \in Worker
  <2> QED
    BY ONLY <2>1, <1>3
<1>5. \A w \in Worker : \A i \in 1..Len(calls[w]) : i = 1 /\ calls[w][i] = LoopFrame
  <2>1. ASSUME NEW w \in Worker, NEW i \in 1..Len(calls[w])
        PROVE  i = 1 /\ calls[w][i] = LoopFrame
    <3>1. Len(calls[w]) = 1 /\ calls[w][1] = LoopFrame
      BY ONLY <1>4, w \in Worker
    <3>2. i \in 1..1
      BY ONLY <3>1, i \in 1..Len(calls[w])
    <3>3. \A k : k \in 1..1 => k = 1
      BY ONLY SMT
    <3> QED
      BY ONLY <3>1, <3>2, <3>3
  <2> QED
    BY ONLY <2>1
<1>6. Shape
  <2>1. calls \in [Worker -> Seq(Frame)]
    BY ONLY <1>1, <1>3
  <2>2. \A w \in Worker : Len(calls[w]) >= 1
    BY ONLY <1>4
  <2>3. ASSUME NEW w \in Worker, NEW i \in 1..Len(calls[w])
        PROVE  FrameOK(w, i) /\ Nested(w, i)
    <3>1. /\ calls[w][i] = LoopFrame /\ i = 1 /\ i = Len(calls[w])
          /\ 1 \in 1..0 + 1 /\ Len(<<>>) = 0 /\ 0 \in 0..NumWorkers - 1
      BY <1>4, <1>5, PoolAssumption
    <3> QED
      BY ONLY <1>3, <3>1 DEF FrameOK, Nested
  <2> QED
    BY ONLY <2>1, <2>2, <2>3 DEF Shape
<1>7. Pooled = {}
  BY ONLY <1>4, PooledMember
<1>8. Active = {}
  <2>1. \A f : f \notin Active
    BY ONLY <1>3, <1>5, ActiveMember
  <2> QED
    BY <2>1
<1>9. OnceInDeques
  BY ONLY <1>4 DEF OnceInDeques, Apart
<1>10. OnceOnStacks
  BY ONLY <1>3, <1>5 DEF OnceOnStacks
<1>11. Lifecycle
  BY ONLY <1>1, <1>7, <1>8 DEF Lifecycle, Out
<1>12. GroupsHeld
  BY ONLY <1>7, <1>8 DEF GroupsHeld, Out
<1>13. CountsExact
  <2>1. \A t : ~Carried(t)
    BY ONLY <1>1 DEF Carried, Holding
  <2>2. \A p : Members(p) = {}
    BY ONLY <1>7, <1>8, <2>1 DEF Members, Counting, Out, Announced
  <2> QED
    BY ONLY <1>1, <2>2, FS_EmptySet DEF CountsExact
<1> QED
  BY ONLY <1>2, <1>6, <1>9, <1>10, <1>11, <1>12, <1>13 DEF PoolInv

LEMMA PoolNext == PoolInv /\ [Next]_vars => PoolInv'
<1> SUFFICES ASSUME PoolInv, [Next]_vars PROVE PoolInv'
  OBVIOUS
<1>1. ASSUME NEW c \in Client, BeginArena(c)
      PROVE  PoolInv'
  BY <1>1, BeginArenaStep
<1>2. ASSUME NEW c \in Client, ArenaReturn(c)
      PROVE  PoolInv'
  BY <1>2, ArenaReturnStep
<1>3. ASSUME NEW c \in Client, RunOutside(c) \/ DropOutside(c) \/ ReleaseOutside(c) \/ UnwindGroup(c)
      PROVE  PoolInv'
  BY <1>3, RunOutsideStep, DropOutsideStep, ReleaseOutsideStep, UnwindGroupStep
<1>4. ASSUME NEW w \in Worker, Step(w)
      PROVE  PoolInv'
  <2>1. CASE RunCount(w)
    BY <2>1, RunCountStep
  <2>2. CASE RunPush(w)
    BY <2>2, RunPushStep
  <2>3. CASE CallFn(w)
    BY <2>3, CallFnStep
  <2>4. CASE CallWait(w)
    BY <2>4, CallWaitStep
  <2>5. CASE FnReturn(w)
    BY <2>5, FnReturnStep
  <2>6. CASE Release(w)
    BY <2>6, ReleaseStep
  <2>7. CASE Look(w)
    BY <2>7, LookStep
  <2>8. CASE LookInVain(w)
    BY <2>8, LookInVainStep
  <2>9. CASE WaitCheck(w)
    BY <2>9, WaitCheckStep
  <2> QED
    BY ONLY <1>4, <2>1, <2>2, <2>3, <2>4, <2>5, <2>6, <2>7, <2>8, <2>9 DEF Step
<1>5. CASE UNCHANGED vars
  <2>1. queue' = queue /\ calls' = calls /\ pending' = pending /\ client' = client /\ runs' = runs
    BY <1>5 DEF vars
  <2>2. Shape' /\ OnceOnStacks' /\ Active' = Active
    BY <2>1, SameStacks DEF PoolInv
  <2> QED
    BY ONLY PoolInv, <2>1, <2>2, NothingElse
<1> QED
  BY <1>1, <1>2, <1>3, <1>4, <1>5 DEF Next, ClientStep

(* The inductive invariant: however submitting, stealing, helping waits    *)
(* and dropping interleave.                                                *)
THEOREM PoolInvariant == Spec => []PoolInv
<1>1. Init => PoolInv
  BY PoolInit
<1>2. PoolInv /\ [Next]_vars => PoolInv'
  BY PoolNext
<1> QED
  BY <1>1, <1>2, PTL DEF Spec

(* The shape of the stacks: a functor runs on top of a look_for_task, a    *)
(* call on top of its caller, a wait on top of its group's function.       *)
THEOREM TypesHold == Spec => []TypeOK
<1>1. PoolInv => TypeOK
  BY DEF PoolInv, Types, Place, Holding, Shape, TypeOK
<1> QED
  BY <1>1, PoolInvariant, PTL

-----------------------------------------------------------------------------
(* Places of functions, as RunOnce and PendingCounts speak of them.        *)
LEMMA QueuedPooled ==
  ASSUME NEW t
  PROVE  Queued(t) # {} <=> t \in Pooled
<1>1. ASSUME NEW w \in Worker, NEW i \in 1..Len(queue[w]), queue[w][i] = t
      PROVE  Queued(t) # {}
  <2>1. <<w, i>> \in Queued(t)
    BY <1>1 DEF Queued
  <2> QED
    BY <2>1
<1>2. ASSUME NEW x \in Queued(t)
      PROVE  \E w \in Worker : \E i \in 1..Len(queue[w]) : queue[w][i] = t
  BY DEF Queued
<1> QED
  BY <1>1, <1>2, PooledMember

LEMMA OnStackActive ==
  ASSUME NEW t
  PROVE  OnStack(t) # {} <=> \E f \in Active : f.task = t
<1>1. ASSUME NEW w \in Worker, NEW i \in 1..Len(calls[w]), calls[w][i].fn = "task", calls[w][i].task = t
      PROVE  OnStack(t) # {}
  <2>1. <<w, i>> \in OnStack(t)
    BY <1>1 DEF OnStack
  <2> QED
    BY <2>1
<1>2. ASSUME NEW x \in OnStack(t)
      PROVE  \E w \in Worker : \E i \in 1..Len(calls[w]) : calls[w][i].fn = "task" /\ calls[w][i].task = t
  BY DEF OnStack
<1> QED
  BY <1>1, <1>2, ActiveMember

LEMMA RunOnceOfInv == PoolInv => RunOnce
<1> SUFFICES ASSUME PoolInv, NEW t \in Task
             PROVE  Cardinality(Queued(t)) + Cardinality(Running(t)) + Cardinality(InHand(t)) + runs[t] <= 1
  BY DEF RunOnce
<1>1. OnceInDeques /\ OnceOnStacks /\ Lifecycle
  BY DEF PoolInv
<1>2. Cardinality(Queued(t)) \in {0, 1} /\ (Cardinality(Queued(t)) = 1 => Queued(t) # {})
  <2>1. \A x, y \in Queued(t) : x = y
    <3>1. ASSUME NEW x \in Queued(t), NEW y \in Queued(t)
          PROVE  x = y
      <4>1. /\ x = <<x[1], x[2]>> /\ x[1] \in Worker /\ x[2] \in 1..Len(queue[x[1]]) /\ queue[x[1]][x[2]] = t
            /\ y = <<y[1], y[2]>> /\ y[1] \in Worker /\ y[2] \in 1..Len(queue[y[1]]) /\ queue[y[1]][y[2]] = t
        BY DEF Queued
      <4>2. x[1] = y[1] /\ x[2] = y[2]
        BY ONLY <4>1, <1>1 DEF OnceInDeques, Apart
      <4> QED
        BY ONLY <4>1, <4>2
    <3> QED
      BY <3>1
  <2> QED
    BY <2>1, AtMostOne
<1>3. Cardinality(Running(t)) \in {0, 1} /\ (Cardinality(Running(t)) = 1 => Running(t) # {})
  <2>1. \A x, y \in Running(t) : x = y
    <3>1. ASSUME NEW x \in Running(t), NEW y \in Running(t)
          PROVE  x = y
      <4>1. /\ x = <<x[1], x[2]>> /\ x[1] \in Worker /\ x[2] \in 1..Len(calls[x[1]])
            /\ calls[x[1]][x[2]].fn = "task" /\ calls[x[1]][x[2]].task = t
            /\ y = <<y[1], y[2]>> /\ y[1] \in Worker /\ y[2] \in 1..Len(calls[y[1]])
            /\ calls[y[1]][y[2]].fn = "task" /\ calls[y[1]][y[2]].task = t
        BY DEF Running, OnStack
      <4>2. x[1] = y[1] /\ x[2] = y[2]
        BY ONLY <4>1, <1>1 DEF OnceOnStacks
      <4> QED
        BY ONLY <4>1, <4>2
    <3> QED
      BY <3>1
  <2> QED
    BY <2>1, AtMostOne
<1>4. Queued(t) # {} => runs[t] = 0 /\ Running(t) = {}
  <2>1. Running(t) # {} => \E f \in Active : f.task = t
    BY OnStackActive DEF Running
  <2> QED
    BY <1>1, <2>1, QueuedPooled DEF Lifecycle
<1>5. Running(t) # {} => runs[t] = 0
  <2>1. ASSUME NEW x \in Running(t)
        PROVE  \E f \in Active : f.task = t /\ f.at # "release"
    <3>1. /\ x[1] \in Worker /\ x[2] \in 1..Len(calls[x[1]]) /\ calls[x[1]][x[2]].fn = "task"
          /\ calls[x[1]][x[2]].task = t /\ calls[x[1]][x[2]].at # "release"
      BY DEF Running, OnStack
    <3> QED
      BY <3>1, ActiveMember
  <2> QED
    BY <1>1, <2>1 DEF Lifecycle
<1>6. runs[t] \in {0, 1}
  BY <1>1 DEF Lifecycle
<1>7. Cardinality(InHand(t)) \in {0, 1} /\ (Cardinality(InHand(t)) = 1 => InHand(t) # {})
  <2>1. \A x, y \in InHand(t) : x = y
    BY SiteUnique DEF InHand
  <2> QED
    BY <2>1, AtMostOne
<1>8. InHand(t) # {} => Queued(t) = {} /\ Running(t) = {} /\ runs[t] = 0
  <2>1. ASSUME NEW c \in InHand(t)
        PROVE  runs[t] = 0 /\ ~Out(t)
    <3>1. c \in Client /\ t = Root[c] /\ client[c] = "spawn" /\ client[c] # "wait"
      BY DEF InHand
    <3>2. Types /\ Shape /\ GroupsHeld
      BY DEF PoolInv
    <3> QED
      BY ONLY <3>1, <3>2, AwayFromPool DEF Types
  <2>2. ~Out(t) => Queued(t) = {} /\ Running(t) = {}
    BY QueuedPooled, OnStackActive DEF Out, Running
  <2> QED
    BY <2>1, <2>2
<1> QED
  BY ONLY <1>2, <1>3, <1>4, <1>5, <1>6, <1>7, <1>8

(* No function is run twice, whoever steals it, and none is in two places. *)
THEOREM RunOnceHolds == Spec => []RunOnce
BY RunOnceOfInv, PoolInvariant, PTL

LEMMA GroupOutlivesOfInv == PoolInv => GroupOutlivesTasks
<1> SUFFICES ASSUME PoolInv, NEW t \in Task, Queued(t) # {} \/ (Submitted(t) /\ OnStack(t) # {})
             PROVE  Live(Parent(t))
  BY DEF GroupOutlivesTasks
<1>1. Shape /\ Lifecycle /\ GroupsHeld
  BY DEF PoolInv
<1>2. Submitted(t) /\ Out(t)
  BY <1>1, QueuedPooled, OnStackActive DEF Lifecycle, Out
<1>3. HasGroup(Parent(t)) /\ Parent(t) \in Task \cup Client
  BY <1>1, <1>2, SiteUnique DEF GroupsHeld
<1> QED
  BY <1>1, <1>3, LiveIsHasGroup

(* The destructor of a functor never decrements a counter that is gone.    *)
THEOREM GroupOutlivesHolds == Spec => []GroupOutlivesTasks
BY GroupOutlivesOfInv, PoolInvariant, PTL

LEMMA CountedMembers ==
  ASSUME Shape, NEW p \in Task \cup Client
  PROVE  Counted(p) = Members(p)
<1>1. ASSUME NEW t \in Task, Parent(t) = p
      PROVE  (\E w \in Worker : At(w, "task", "push") /\ Top(w).task = p /\ Arg(w) = t) <=> Announced(t)
  <2>1. ASSUME NEW w \in Worker, At(w, "task", "push"), Top(w).task = p, Arg(w) = t
        PROVE  Announced(t)
    <3>1. Top(w) \in Active /\ Top(w).at = "push"
      BY <2>1, TopFacts DEF At
    <3> QED
      BY <1>1, <2>1, <3>1 DEF Announced, Arg
  <2>2. ASSUME Announced(t)
        PROVE  \E w \in Worker : At(w, "task", "push") /\ Top(w).task = p /\ Arg(w) = t
    <3>1. PICK f \in Active : f.at = "push" /\ f.task = p /\ Body[p][f.pos].fn = t
      BY <1>1, <2>2 DEF Announced
    <3>2. PICK w \in Worker : \E i \in 1..Len(calls[w]) : calls[w][i] = f /\ f.fn = "task"
      BY ActiveMember
    <3>3. PICK i \in 1..Len(calls[w]) : calls[w][i] = f /\ f.fn = "task"
      BY <3>2
    <3>4. i = 1
      <4>1. Nested(w, i)
        BY DEF Shape
      <4> QED
        BY ONLY <3>1, <3>3, <4>1 DEF Nested
    <3>5. Top(w) = f
      BY ONLY <3>3, <3>4 DEF Top
    <3> QED
      BY ONLY <3>1, <3>3, <3>5, w \in Worker DEF At, Arg
  <2> QED
    BY <2>1, <2>2
<1>2. ASSUME NEW t \in Task
      PROVE  Queued(t) \cup OnStack(t) # {} <=> Out(t)
  BY QueuedPooled, OnStackActive DEF Out
<1>3. ASSUME NEW t \in Task, Parent(t) = p
      PROVE  p \in Client /\ client[p] \in Holding <=> Carried(t)
  BY ONLY <1>3 DEF Carried
<1> QED
  BY ONLY <1>1, <1>2, <1>3 DEF Counted, Members, Counting

LEMMA PendingCountsOfInv == PoolInv => PendingCounts
<1> SUFFICES ASSUME PoolInv, NEW p \in Task \cup Client
             PROVE  pending[p] = Cardinality(Counted(p))
  BY DEF PendingCounts
<1>1. Shape /\ CountsExact
  BY DEF PoolInv
<1> QED
  BY <1>1, CountedMembers DEF CountsExact

(* A group's counter is the number of its functors: wait returns neither   *)
(* early nor, when they are dropped, late.                                 *)
THEOREM PendingCountsHold == Spec => []PendingCounts
BY PendingCountsOfInv, PoolInvariant, PTL

-----------------------------------------------------------------------------
(* What a step does to the frames of functions, to the deques and to the   *)
(* history.                                                                *)
NoMove == Active' = Active /\ Pooled' = Pooled /\ runs' = runs /\ client' = client

CountMove(f, g) ==
  /\ Becomes(f, g) /\ f.at = "body" /\ g.at = "push" /\ g.pos = f.pos
  /\ f.pos \in 1..Len(Body[f.task]) /\ Body[f.task][f.pos].op = "run"
  /\ Pooled' = Pooled /\ runs' = runs /\ client' = client

PushMove(f, g) ==
  /\ Becomes(f, g) /\ f.at = "push" /\ g.at = "body" /\ g.pos = f.pos + 1
  /\ f.pos \in 1..Len(Body[f.task]) /\ Body[f.task][f.pos].op = "run"
  /\ Pooled' = Pooled \cup {Body[f.task][f.pos].fn} /\ runs' = runs /\ client' = client

CallMove(f, g, n) ==
  /\ f \in Active /\ f.at = "body" /\ g.at = "body" /\ g.task = f.task /\ g.pos = f.pos + 1
  /\ f.pos \in 1..Len(Body[f.task]) /\ Body[f.task][f.pos].op = "call"
  /\ n.at = "body" /\ n.task = Body[f.task][f.pos].fn /\ n.pos = 1
  /\ Active' = (Active \ {f}) \cup {n, g}
  /\ Pooled' = Pooled /\ runs' = runs /\ client' = client

WaitMove(f, g) ==
  /\ Becomes(f, g) /\ f.at = "body" /\ g.at = "body" /\ g.pos = f.pos + 1
  /\ f.pos \in 1..Len(Body[f.task]) /\ Body[f.task][f.pos] = Wait
  /\ Pooled' = Pooled /\ runs' = runs /\ client' = client

ReturnMove(f) ==
  /\ f \in Active /\ f.at = "body" /\ f.pos > Len(Body[f.task]) /\ runs[f.task] = 0
  /\ runs' = [runs EXCEPT ![f.task] = 1]
  /\ IF Submitted(f.task)
     THEN \E g : Becomes(f, g) /\ g.at = "release" /\ g.pos = f.pos
     ELSE Active' = Active \ {f}
  /\ Pooled' = Pooled /\ client' = client

DropMove(f) ==
  /\ f \in Active /\ f.at = "release" /\ Active' = Active \ {f}
  /\ Pooled' = Pooled /\ runs' = runs /\ client' = client

TakeMove(n) ==
  /\ n.task \in Pooled /\ Submitted(n.task) /\ n.at = "body" /\ n.pos = 1
  /\ Pooled' = Pooled \ {n.task} /\ Active' = Active \cup {n}
  /\ runs' = runs /\ client' = client

LEMMA CountEffect ==
  ASSUME PoolInv, NEW w \in Worker, RunCount(w)
  PROVE  \E g : CountMove(Top(w), g)
<1>0. PICK f, g : f = Top(w) /\ g = [f EXCEPT !.at = "push"]
  OBVIOUS
<1>1. Shape /\ OnceOnStacks
  BY DEF PoolInv
<1>2. Doing(w, "run") /\ Goto(w, g) /\ queue' = queue /\ client' = client /\ runs' = runs
  BY <1>0 DEF RunCount
<1>3. /\ f \in Active /\ f \in Frame /\ f.fn = "task" /\ f.at = "body"
      /\ f.task \in Task /\ f.pos \in 1..Len(Body[f.task])
      /\ f.pos \in Nat /\ Len(Body[f.task]) \in Nat /\ Body[f.task][f.pos].op = "run"
  BY ONLY <1>0, <1>1, <1>2, w \in Worker, DoingFacts
<1>4. /\ g \in Frame /\ g.fn = "task" /\ g.task = f.task /\ g.at = "push"
      /\ g.owned = f.owned /\ g.pos = f.pos /\ g.time = f.time
  BY ONLY <1>0, <1>3, FrameAt
<1>5. g.pos \in 1..Len(Body[g.task]) + 1 /\ g.pos <= Len(Body[g.task]) /\ g.pos >= f.pos
  BY ONLY <1>3, <1>4
<1>6. Shape' /\ OnceOnStacks' /\ Active' = (Active \ {f}) \cup {g}
  BY ONLY <1>0, <1>1, <1>2, <1>3, <1>4, <1>5, w \in Worker, Moved
<1>7. Becomes(f, g) /\ Pooled' = Pooled
  BY ONLY <1>1, <1>2, <1>3, <1>4, <1>5, <1>6, SamePool DEF Becomes
<1>8. CountMove(f, g)
  BY ONLY <1>2, <1>3, <1>4, <1>7 DEF CountMove
<1> QED
  BY <1>0, <1>8

LEMMA PushEffect ==
  ASSUME PoolInv, NEW w \in Worker, RunPush(w)
  PROVE  \E g : PushMove(Top(w), g)
<1>0. PICK f, g, u : f = Top(w) /\ g = Advanced(f) /\ u = Body[f.task][f.pos].fn
  OBVIOUS
<1>1. Types /\ Shape /\ OnceInDeques /\ OnceOnStacks /\ Lifecycle
  BY DEF PoolInv
<1>2. /\ f.fn = "task" /\ f.at = "push" /\ queue' = [queue EXCEPT ![w] = <<u>> \o @] /\ Goto(w, g)
      /\ client' = client /\ runs' = runs
  BY <1>0 DEF RunPush, At, Arg
<1>3. /\ f \in Active /\ f \in Frame /\ f.task \in Task /\ Len(Body[f.task]) \in Nat
      /\ f.pos \in 1..Len(Body[f.task]) + 1
      /\ f.pos <= Len(Body[f.task]) /\ Body[f.task][f.pos].op = "run"
  BY <1>0, <1>1, <1>2, TopFacts, ActiveFrames, OpsOfBody
<1>4. /\ g \in Frame /\ g.fn = "task" /\ g.task = f.task /\ g.at = "body"
      /\ g.owned = f.owned /\ g.pos = f.pos + 1 /\ g.time = f.time
  BY ONLY <1>0, <1>2, <1>3, NewFrames
<1>5. u \in Task /\ ~Out(u)
  BY ONLY <1>0, <1>1, <1>2, <1>3, Future
<1>6. /\ g.pos \in 1..Len(Body[g.task]) + 1 /\ g.pos >= f.pos
      /\ f.pos \in 1..Len(Body[f.task])
  BY ONLY <1>3, <1>4
<1>7. Active' = (Active \ {f}) \cup {g}
  BY ONLY <1>0, <1>1, <1>2, <1>3, <1>4, <1>6, w \in Worker, Moved
<1>8. Becomes(f, g)
  BY ONLY <1>3, <1>4, <1>6, <1>7 DEF Becomes
<1>9. Pooled' = Pooled \cup {u}
  <2>1. u \notin Pooled /\ queue \in [Worker -> Seq(Task)]
    BY ONLY <1>1, <1>5 DEF Out, Types
  <2> QED
    BY ONLY <1>1, <1>2, <1>5, <2>1, w \in Worker, PoolPush
<1>10. PushMove(f, g)
  BY ONLY <1>0, <1>2, <1>3, <1>4, <1>6, <1>8, <1>9 DEF PushMove
<1> QED
  BY <1>0, <1>10

LEMMA CallEffect ==
  ASSUME PoolInv, NEW w \in Worker, CallFn(w)
  PROVE  \E g, n : CallMove(Top(w), g, n)
<1>0. PICK f, g, u, n : /\ f = Top(w) /\ g = Advanced(f) /\ u = Body[f.task][f.pos].fn
                        /\ n = TaskFrame(u, FALSE)
  OBVIOUS
<1>1. Shape /\ OnceOnStacks /\ Lifecycle
  BY DEF PoolInv
<1>2. /\ Doing(w, "call") /\ calls' = [calls EXCEPT ![w] = <<n, g>> \o Tail(@)]
      /\ queue' = queue /\ client' = client /\ runs' = runs
  BY <1>0 DEF CallFn, Top, Arg
<1>3. /\ f \in Active /\ f \in Frame /\ f.fn = "task" /\ f.at = "body"
      /\ f.task \in Task /\ f.pos \in 1..Len(Body[f.task])
      /\ f.pos \in Nat /\ Len(Body[f.task]) \in Nat /\ Body[f.task][f.pos].op = "call"
  BY ONLY <1>0, <1>1, <1>2, w \in Worker, DoingFacts
<1>4. f.pos <= Len(Body[f.task])
  BY ONLY <1>3
<1>5. u \in Task /\ ~Out(u) /\ ~Submitted(u)
  BY ONLY <1>0, <1>1, <1>3, <1>4, Future
<1>6. g \in Frame /\ g.fn = "task" /\ g.task = f.task /\ g.at = "body" /\ g.pos = f.pos + 1
  BY ONLY <1>0, <1>3, NewFrames
<1>7. n \in Frame /\ n.fn = "task" /\ n.task = u /\ n.at = "body" /\ n.pos = 1
  BY ONLY <1>0, <1>5, NewFrames
<1>8. \A h \in Active : h.task # u
  BY ONLY <1>5 DEF Out
<1>9. PICK s : Pushed(w, s, n, g)
  BY ONLY <1>1, <1>2, <1>6, <1>7, w \in Worker, PushReplaces
<1>10. Shape' /\ OnceOnStacks' /\ Active' = (Active \ {f}) \cup {n, g}
  BY ONLY <1>0, <1>1, <1>3, <1>4, <1>5, <1>8, <1>9, w \in Worker, Called
<1>11. Pooled' = Pooled
  BY ONLY <1>2, SamePool
<1>12. CallMove(f, g, n)
  BY ONLY <1>0, <1>2, <1>3, <1>6, <1>7, <1>10, <1>11 DEF CallMove
<1> QED
  BY <1>0, <1>12

LEMMA RestEffect ==
  ASSUME PoolInv, NEW w \in Worker,
         CallWait(w) \/ LookInVain(w) \/ (WaitCheck(w) /\ pending[Top(w).task] # 0)
  PROVE  NoMove
<1>1. Shape /\ OnceOnStacks
  BY DEF PoolInv
<1>2. queue' = queue /\ client' = client /\ runs' = runs
  BY DEF CallWait, LookInVain, WaitCheck
<1>3. Active' = Active
  <2>1. CASE CallWait(w)
    <3>1. PICK p, f : p = Top(w).task /\ f = WaitFrame(p)
      OBVIOUS
    <3>2. Doing(w, "wait") /\ calls' = [calls EXCEPT ![w] = <<f>> \o @]
      BY <2>1, <3>1 DEF CallWait, Top
    <3>3. /\ Top(w).fn = "task" /\ Top(w).at = "body" /\ p \in Task
          /\ Top(w).pos \in 1..Len(Body[p]) /\ Body[p][Top(w).pos].op = "wait"
      BY ONLY <1>1, <3>1, <3>2, w \in Worker, DoingFacts
    <3>4. Top(w).pos <= Len(Body[p]) /\ Body[p][Top(w).pos] = Wait
      <4>1. Len(Body[p]) \in Nat /\ Body[p][Top(w).pos] = Wait
        BY ONLY <3>3, OpsOfBody
      <4> QED
        BY ONLY <3>3, <4>1
    <3>5. f \in Frame
      BY ONLY <3>1, <3>3, NewFrames
    <3>6. PICK s : Pushed(w, s, f, Top(w))
      BY ONLY <1>1, <3>2, <3>5, w \in Worker, OnTopReplaces
    <3> QED
      BY ONLY <1>1, <3>1, <3>3, <3>4, <3>6, w \in Worker, WaitBegun
  <2>2. CASE LookInVain(w) \/ (WaitCheck(w) /\ pending[Top(w).task] # 0)
    <3>1. Top(w).at \in {"look", "check"}
      BY <2>2 DEF LookInVain, WaitCheck, At
    <3>2. Top(w) \in Frame /\ Top(w).fn \in {"loop", "wait"} /\ Top(w).time \in 0..NumWorkers - 1
      <4>1. Top(w) \in Frame /\ Top(w).fn \in {"loop", "wait"} /\ FrameOK(w, 1)
        BY <1>1, <3>1, TopFacts
      <4> QED
        BY <4>1 DEF FrameOK, Top
    <3>3. PICK g : Goto(w, g) /\ (\/ g = Tried(Top(w)) /\ Top(w).at = "look"
                                 \/ g = [Top(w) EXCEPT !.at = "look"])
      BY <2>2 DEF LookInVain, WaitCheck
    <3>4. /\ g \in Frame /\ g.fn = Top(w).fn /\ g.task = Top(w).task /\ g.pos = Top(w).pos
          /\ g.time \in 0..NumWorkers - 1
          /\ g.at = "look" \/ (g.fn = "wait" /\ g.at = "check")
      <4>1. CASE g = Tried(Top(w)) /\ Top(w).at = "look"
        BY ONLY <3>2, <4>1, NewFrames
      <4>2. CASE g = [Top(w) EXCEPT !.at = "look"]
        BY ONLY <3>2, <4>2, FrameAt
      <4> QED
        BY ONLY <3>3, <4>1, <4>2
    <3> QED
      BY ONLY <1>1, <3>2, <3>3, <3>4, w \in Worker, Idle
  <2> QED
    BY <2>1, <2>2
<1> QED
  BY ONLY <1>2, <1>3, SamePool DEF NoMove

LEMMA WaitEffect ==
  ASSUME PoolInv, NEW w \in Worker, WaitCheck(w), pending[Top(w).task] = 0
  PROVE  \E h, g : WaitMove(h, g)
<1>1. Shape /\ OnceOnStacks
  BY DEF PoolInv
<1>2. Top(w).fn = "wait" /\ queue' = queue /\ client' = client /\ runs' = runs
  BY DEF WaitCheck, At
<1>3. PICK h, g : h = calls[w][2] /\ g = Advanced(h)
  OBVIOUS
<1>4. calls' = [calls EXCEPT ![w] = <<g>> \o Tail(Tail(@))]
  BY <1>3 DEF WaitCheck, WaitOver
<1>5. h \in Frame /\ g \in Frame /\ Len(calls[w]) >= 2
  <2>1. Len(calls[w]) \in Nat /\ 2 \in 1..Len(calls[w])
    BY <1>1, <1>2, TopFacts
  <2>2. h \in Frame
    BY ONLY <1>1, <1>3, <2>1, w \in Worker DEF Shape
  <2> QED
    BY ONLY <1>3, <2>1, <2>2, NewFrames
<1>6. PICK s : Resumes(w, s, g)
  BY ONLY <1>1, <1>4, <1>5, w \in Worker, OverReplaces
<1>7. /\ Shape' /\ OnceOnStacks' /\ Active' = (Active \ {h}) \cup {g}
      /\ h \in Active /\ h.at = "body"
      /\ h.pos <= Len(Body[h.task]) /\ Body[h.task][h.pos] = Wait
  BY ONLY <1>1, <1>2, <1>3, <1>6, w \in Worker, Resumed
<1>8. g.at = "body" /\ g.task = h.task /\ g.pos = h.pos + 1 /\ h.pos \in Nat
  BY ONLY <1>3, <1>5, NewFrames DEF Frame
<1>9. h.pos \in 1..Len(Body[h.task])
  <2>1. h.pos \in 1..Len(Body[h.task]) + 1 /\ Len(Body[h.task]) \in Nat
    BY <1>1, <1>7, ActiveFrames, OpsOfBody
  <2> QED
    BY ONLY <1>7, <2>1
<1>10. Becomes(h, g) /\ Pooled' = Pooled
  BY ONLY <1>2, <1>5, <1>7, <1>8, SamePool DEF Becomes
<1>11. WaitMove(h, g)
  BY ONLY <1>2, <1>7, <1>8, <1>9, <1>10 DEF WaitMove
<1> QED
  BY ONLY <1>11

LEMMA ReturnEffect ==
  ASSUME PoolInv, NEW w \in Worker, FnReturn(w)
  PROVE  ReturnMove(Top(w))
<1>0. PICK f, g : f = Top(w) /\ g = [f EXCEPT !.at = "release"]
  OBVIOUS
<1>1. Types /\ Shape /\ OnceOnStacks /\ Lifecycle
  BY DEF PoolInv
<1>2. /\ f.fn = "task" /\ f.at = "body" /\ f.pos > Len(Body[f.task])
      /\ runs' = [runs EXCEPT ![f.task] = @ + 1]
      /\ f.owned => Goto(w, g)
      /\ ~f.owned => calls' = [calls EXCEPT ![w] = Tail(@)]
      /\ queue' = queue /\ client' = client
  BY <1>0 DEF FnReturn, At
<1>3. /\ f \in Active /\ f \in Frame /\ f.task \in Task /\ Len(Body[f.task]) \in Nat
      /\ f.pos \in 1..Len(Body[f.task]) + 1 /\ f.pos \in Nat
  <2>1. f \in Active /\ f \in Frame
    BY <1>0, <1>1, <1>2, TopFacts
  <2> QED
    BY <2>1, <1>1, ActiveFrames, OpsOfBody DEF Frame
<1>4. f.owned <=> Submitted(f.task)
  <2>1. Nested(w, 1)
    BY <1>1, TopFacts
  <2> QED
    BY ONLY <1>0, <1>2, <2>1 DEF Nested, Top
<1>5. runs[f.task] = 0 /\ runs' = [runs EXCEPT ![f.task] = 1]
  <2>1. runs[f.task] = 0 /\ runs \in [Task -> Nat]
    BY ONLY <1>1, <1>2, <1>3 DEF Lifecycle, Types
  <2> QED
    BY ONLY <1>2, <1>3, <2>1
<1>6. IF Submitted(f.task)
      THEN \E k : Becomes(f, k) /\ k.at = "release" /\ k.pos = f.pos
      ELSE Active' = Active \ {f}
  <2>1. CASE f.owned
    <3>1. /\ g \in Frame /\ g.fn = "task" /\ g.task = f.task /\ g.at = "release"
          /\ g.owned = f.owned /\ g.pos = f.pos /\ g.time = f.time
      BY ONLY <1>0, <1>2, <1>3, FrameAt
    <3>2. g.pos \in 1..Len(Body[g.task]) + 1 /\ g.pos > Len(Body[g.task]) /\ g.pos >= f.pos
      BY ONLY <1>2, <1>3, <3>1
    <3>3. Shape' /\ OnceOnStacks' /\ Active' = (Active \ {f}) \cup {g}
      BY ONLY <1>0, <1>1, <1>2, <2>1, <3>1, <3>2, w \in Worker, Moved
    <3>4. Becomes(f, g)
      BY ONLY <1>3, <3>1, <3>2, <3>3 DEF Becomes
    <3> QED
      BY ONLY <1>4, <2>1, <3>1, <3>4
  <2>2. CASE ~f.owned
    <3>1. PICK s : s = Tail(calls[w])
      OBVIOUS
    <3>2. calls' = [calls EXCEPT ![w] = s]
      BY ONLY <1>2, <2>2, <3>1
    <3>3. Replaces(w, 1, s, 0) /\ Len(s) = Len(calls[w]) - 1
      BY ONLY <1>1, <3>1, <3>2, w \in Worker, PopReplaces
    <3>4. Shape' /\ OnceOnStacks' /\ Active' = Active \ {f}
      BY ONLY <1>0, <1>1, <1>2, <3>3, w \in Worker, Popped
    <3> QED
      BY ONLY <1>4, <2>2, <3>4
  <2> QED
    BY ONLY <2>1, <2>2
<1>7. Pooled' = Pooled
  BY ONLY <1>2, SamePool
<1> QED
  BY ONLY <1>0, <1>2, <1>3, <1>5, <1>6, <1>7 DEF ReturnMove

LEMMA DropEffect ==
  ASSUME PoolInv, NEW w \in Worker, Release(w)
  PROVE  DropMove(Top(w))
<1>1. Shape /\ OnceOnStacks
  BY DEF PoolInv
<1>2. PICK s : s = Tail(calls[w])
  OBVIOUS
<1>3. /\ Top(w).fn = "task" /\ Top(w).at = "release" /\ calls' = [calls EXCEPT ![w] = s]
      /\ queue' = queue /\ client' = client /\ runs' = runs
  BY <1>2 DEF Release, At
<1>4. Replaces(w, 1, s, 0) /\ Len(s) = Len(calls[w]) - 1
  BY ONLY <1>1, <1>2, <1>3, w \in Worker, PopReplaces
<1>5. Shape' /\ OnceOnStacks' /\ Active' = Active \ {Top(w)}
  BY ONLY <1>1, <1>3, <1>4, w \in Worker, Popped
<1>6. Top(w) \in Active
  BY ONLY <1>1, <1>3, w \in Worker, TopFacts
<1> QED
  BY ONLY <1>3, <1>5, <1>6, SamePool DEF DropMove

LEMMA TakeEffect ==
  ASSUME PoolInv, NEW w \in Worker, Look(w)
  PROVE  \E n : TakeMove(n)
<1>1. Types /\ Shape /\ OnceInDeques /\ OnceOnStacks /\ Lifecycle
  BY DEF PoolInv
<1>2. PICK v \in Worker :
        /\ queue[v] # <<>> /\ queue' = [queue EXCEPT ![v] = Tail(@)]
        /\ calls' = [calls EXCEPT ![w] = <<TaskFrame(queue[v][1], TRUE), Tried(@[1])>> \o Tail(@)]
  BY DEF Look, Victims
<1>3. PICK u, n, g : u = queue[v][1] /\ n = TaskFrame(u, TRUE) /\ g = Tried(Top(w))
  OBVIOUS
<1>4. /\ Top(w).at = "look" /\ client' = client /\ runs' = runs
      /\ calls' = [calls EXCEPT ![w] = <<n, g>> \o Tail(@)]
  BY <1>2, <1>3 DEF Look, Top
<1>5. u \in Pooled /\ u \in Task /\ Pooled' = Pooled \ {u}
  <2>1. queue \in [Worker -> Seq(Task)]
    BY ONLY <1>1 DEF Types
  <2> QED
    BY ONLY <1>1, <1>2, <1>3, <2>1, v \in Worker, PoolTake
<1>6. Submitted(u) /\ \A h \in Active : h.task # u
  BY ONLY <1>1, <1>5 DEF Lifecycle
<1>7. Top(w) \in Frame /\ Top(w).fn \in {"loop", "wait"} /\ Top(w).time \in 0..NumWorkers - 1
  <2>1. Top(w) \in Frame /\ Top(w).fn \in {"loop", "wait"} /\ FrameOK(w, 1)
    BY <1>1, <1>4, TopFacts
  <2> QED
    BY <2>1 DEF FrameOK, Top
<1>8. /\ g \in Frame /\ g.fn = Top(w).fn /\ g.task = Top(w).task /\ g.pos = Top(w).pos
      /\ g.time \in 0..NumWorkers - 1
      /\ g.at = "look" \/ (g.fn = "wait" /\ g.at = "check")
  BY ONLY <1>3, <1>4, <1>7, NewFrames
<1>9. n \in Frame /\ n.fn = "task" /\ n.task = u /\ n.at = "body" /\ n.pos = 1
  BY ONLY <1>3, <1>5, NewFrames
<1>10. PICK s : Pushed(w, s, n, g)
  BY ONLY <1>1, <1>4, <1>8, <1>9, w \in Worker, PushReplaces
<1>11. Shape' /\ OnceOnStacks' /\ Active' = Active \cup {n}
  BY ONLY <1>1, <1>3, <1>5, <1>6, <1>7, <1>8, <1>10, w \in Worker, Landed
<1>12. TakeMove(n)
  BY ONLY <1>4, <1>5, <1>6, <1>9, <1>11 DEF TakeMove
<1> QED
  BY ONLY <1>12

-----------------------------------------------------------------------------
(* A client in run holds t's functor and has not dropped it.               *)
Handed(t) == Parent(t) \in Client /\ client[Parent(t)] = "spawn"

OutsideOnly == \A c \in Client : client[c] = "spawn" => c \in Outside

(* A function whose step has been made is in a deque, on a stack, in the   *)
(* hands of a client, or done.                                             *)
NoneLost == \A t \in Task : Past(t) => Out(t) \/ Handed(t) \/ runs[t] = 1

LEMMA SiteOps ==
  ASSUME NEW t \in Task, Parent(t) \in Task
  PROVE  Site[t][2] \in 1..Len(Body[Parent(t)]) /\ Body[Parent(t)][Site[t][2]].fn = t
<1>1. Site[t] \in Sites(t)
  BY ForestAssumption DEF Site
<1>2. Site[t] \notin {<<c, 1>> : c \in {k \in Client : Root[k] = t}}
  BY PoolAssumption DEF Parent
<1> QED
  BY <1>1, <1>2 DEF Sites, Parent

(* The step a function is at becomes a made one when it goes on.           *)
LEMMA NextSite ==
  ASSUME Shape, NEW f \in Active, NEW t \in Task, Parent(t) = f.task,
         ~Past(t), NEW g, g.pos = f.pos \/ g.pos = f.pos + 1, g.pos > Site[t][2]
  PROVE  g.pos = f.pos + 1 /\ Body[f.task][f.pos].fn = t
<1>1. f.pos \in Nat /\ f.task \in Task
  BY ActiveFrames DEF Frame
<1>2. Site[t][2] \in Nat /\ Body[f.task][Site[t][2]].fn = t
  BY <1>1, SiteOps, SiteUnique
<1>3. ~(f.pos > Site[t][2])
  BY DEF Past
<1>4. Site[t][2] = f.pos /\ g.pos = f.pos + 1
  BY ONLY <1>1, <1>2, <1>3, g.pos = f.pos \/ g.pos = f.pos + 1, g.pos > Site[t][2]
<1> QED
  BY ONLY <1>2, <1>4

(* A function that has just begun has made no step.                        *)
LEMMA NoSiteYet ==
  ASSUME NEW n, n.task \in Task, n.pos = 1, NEW t \in Task, Parent(t) = n.task
  PROVE  ~(n.pos > Site[t][2])
BY SiteOps

LEMMA NoneLostStep ==
  ASSUME NoneLost, \A t \in Task : runs[t] = 1 => runs'[t] = 1,
         \A t \in Task : Out(t) => Out(t)' \/ runs'[t] = 1,
         \A t \in Task : Handed(t) => Handed(t)' \/ runs'[t] = 1,
         \A t \in Task : Past(t)' /\ ~Past(t) => Out(t)' \/ Handed(t)' \/ runs'[t] = 1
  PROVE  NoneLost'
BY DEF NoneLost

LEMMA NoneLostInPool ==
  ASSUME NoneLost, client' = client, \A t \in Task : runs[t] = 1 => runs'[t] = 1,
         \A t \in Task : Out(t) => Out(t)' \/ runs'[t] = 1,
         \A t \in Task : Past(t)' /\ ~Past(t) => Out(t)' \/ runs'[t] = 1
  PROVE  NoneLost'
<1>1. \A t \in Task : Handed(t) => Handed(t)'
  BY ONLY client' = client DEF Handed, Parent
<1> QED
  BY ONLY <1>1, NoneLost, \A t \in Task : runs[t] = 1 => runs'[t] = 1,
          \A t \in Task : Out(t) => Out(t)' \/ runs'[t] = 1,
          \A t \in Task : Past(t)' /\ ~Past(t) => Out(t)' \/ runs'[t] = 1, NoneLostStep

LEMMA NoneLostMoving ==
  ASSUME Shape, NoneLost, NEW f, NEW g, Becomes(f, g), g.pos = f.pos \/ g.pos = f.pos + 1,
         Pooled \subseteq Pooled', runs' = runs, client' = client,
         g.pos = f.pos + 1 => Body[f.task][f.pos].fn \in Pooled' \cup {None}
  PROVE  NoneLost'
<1>1. /\ f \in Active /\ g.task = f.task /\ g \in Active' /\ Active' = (Active \ {f}) \cup {g}
  BY DEF Becomes
<1>2. \A t \in Task : Out(t) => Out(t)' \/ runs'[t] = 1
  BY ONLY <1>1, Pooled \subseteq Pooled' DEF Out
<1>3. ASSUME NEW t \in Task, Past(t)', ~Past(t)
      PROVE  Out(t)' \/ runs'[t] = 1
  <2>1. Parent(t) = f.task /\ g.pos > Site[t][2]
    BY ONLY <1>1, <1>3, runs' = runs, client' = client DEF Past, Parent
  <2>2. g.pos = f.pos + 1 /\ Body[f.task][f.pos].fn = t
    BY <1>1, <1>3, <2>1, NextSite
  <2>3. t \in Pooled'
    BY <2>2, PoolAssumption
  <2> QED
    BY ONLY <2>3 DEF Out
<1> QED
  BY ONLY <1>2, <1>3, NoneLost, runs' = runs, client' = client, NoneLostInPool

LEMMA NoneLostInCall ==
  ASSUME PoolInv, NoneLost, NEW f, NEW g, NEW n, CallMove(f, g, n)
  PROVE  NoneLost'
<1>0. Shape
  BY DEF PoolInv
<1>1. /\ f \in Active /\ g.task = f.task /\ g.pos = f.pos + 1
      /\ f.pos \in 1..Len(Body[f.task]) /\ Body[f.task][f.pos].op = "call"
      /\ n.task = Body[f.task][f.pos].fn /\ n.pos = 1 /\ n \in Active' /\ g \in Active'
      /\ Active' = (Active \ {f}) \cup {n, g} /\ Pooled' = Pooled /\ runs' = runs /\ client' = client
  BY DEF CallMove
<1>2. n.task \in Task
  BY <1>0, <1>1, ActiveFrames, OpsOfBody
<1>3. \A t \in Task : Out(t) => Out(t)' \/ runs'[t] = 1
  BY ONLY <1>1 DEF Out
<1>4. ASSUME NEW t \in Task, Past(t)', ~Past(t)
      PROVE  Out(t)' \/ runs'[t] = 1
  <2>1. ~(Parent(t) = n.task /\ n.pos > Site[t][2])
    BY <1>1, <1>2, NoSiteYet
  <2>2. Parent(t) = f.task /\ g.pos > Site[t][2]
    BY ONLY <1>1, <1>4, <2>1 DEF Past, Parent
  <2>3. Body[f.task][f.pos].fn = t
    BY <1>0, <1>1, <1>4, <2>2, NextSite
  <2> QED
    BY ONLY <1>1, <2>3 DEF Out
<1> QED
  BY ONLY <1>1, <1>3, <1>4, NoneLost, NoneLostInPool

LEMMA NoneLostInReturn ==
  ASSUME PoolInv, NoneLost, NEW f, ReturnMove(f)
  PROVE  NoneLost'
<1>0. Shape /\ Types
  BY DEF PoolInv
<1>1. /\ f \in Active /\ f.pos > Len(Body[f.task]) /\ runs' = [runs EXCEPT ![f.task] = 1]
      /\ Pooled' = Pooled /\ client' = client
  BY DEF ReturnMove
<1>2. PICK g : \/ Active' = (Active \ {f}) \cup {g} /\ g.task = f.task /\ g.pos = f.pos
               \/ Active' = Active \ {f}
  BY DEF ReturnMove, Becomes
<1>3. f.task \in Task /\ runs'[f.task] = 1 /\ \A t \in Task : t # f.task => runs'[t] = runs[t]
  BY <1>0, <1>1, ActiveFrames DEF Types
<1>4. \A t \in Task : Out(t) => Out(t)' \/ runs'[t] = 1
  BY ONLY <1>1, <1>2, <1>3 DEF Out
<1>5. ASSUME NEW t \in Task, Past(t)'
      PROVE  Past(t)
  <2>1. CASE Parent(t) = f.task
    <3>1. Site[t][2] \in 1..Len(Body[f.task])
      BY <1>3, <2>1, SiteOps
    <3>2. Len(Body[f.task]) \in Nat /\ f.pos \in Nat
      BY <1>0, <1>1, ActiveFrames, OpsOfBody DEF Frame
    <3>3. f.pos > Site[t][2]
      BY ONLY <1>1, <3>1, <3>2
    <3> QED
      BY ONLY <1>1, <2>1, <3>3 DEF Past
  <2>2. CASE Parent(t) # f.task
    BY ONLY <1>1, <1>2, <1>3, <1>5, <2>2 DEF Past, Parent
  <2> QED
    BY <2>1, <2>2
<1>6. \A t \in Task : runs[t] = 1 => runs'[t] = 1
  BY ONLY <1>3
<1> QED
  BY ONLY <1>1, <1>4, <1>5, <1>6, NoneLost, NoneLostInPool

LEMMA NoneLostInDrop ==
  ASSUME PoolInv, NoneLost, NEW f, DropMove(f)
  PROVE  NoneLost'
<1>1. /\ f \in Active /\ f.at = "release" /\ Active' = Active \ {f}
      /\ Pooled' = Pooled /\ runs' = runs /\ client' = client
  BY DEF DropMove
<1>2. runs[f.task] = 1
  BY <1>1 DEF PoolInv, Lifecycle
<1>3. \A t \in Task : Out(t) => Out(t)' \/ runs'[t] = 1
  BY ONLY <1>1, <1>2 DEF Out
<1>4. \A t \in Task : Past(t)' => Past(t)
  BY ONLY <1>1 DEF Past, Parent
<1> QED
  BY ONLY <1>1, <1>3, <1>4, NoneLost, NoneLostInPool

LEMMA NoneLostInTake ==
  ASSUME PoolInv, NoneLost, NEW n, TakeMove(n)
  PROVE  NoneLost'
<1>1. /\ n.task \in Pooled /\ n.pos = 1
      /\ Pooled' = Pooled \ {n.task} /\ Active' = Active \cup {n}
      /\ runs' = runs /\ client' = client
  BY DEF TakeMove
<1>2. \A t \in Task : Out(t) => Out(t)' \/ runs'[t] = 1
  BY ONLY <1>1 DEF Out
<1>3. n.task \in Task
  <2>1. PICK w \in Worker : \E i \in 1..Len(queue[w]) : queue[w][i] = n.task
    BY ONLY <1>1, PooledMember
  <2>2. queue[w] \in Seq(Task)
    BY DEF PoolInv, Types
  <2> QED
    BY ONLY <2>1, <2>2
<1>4. ASSUME NEW t \in Task, Past(t)', ~Past(t)
      PROVE  FALSE
  <2>1. Parent(t) = n.task /\ n.pos > Site[t][2]
    BY ONLY <1>1, <1>4 DEF Past, Parent
  <2> QED
    BY <1>1, <1>3, <2>1, NoSiteYet
<1> QED
  BY ONLY <1>1, <1>2, <1>4, NoneLost, NoneLostInPool

LEMMA NoneLostInArena ==
  ASSUME PoolInv, NoneLost, NEW c \in Client, BeginArena(c) \/ ArenaReturn(c)
  PROVE  NoneLost'
<1>1. Types
  BY DEF PoolInv
<1>2. runs' = runs /\ Active' = Active
  BY SameStacks DEF BeginArena, ArenaReturn
<1>3. \A k \in Client : k # c => client'[k] = client[k]
  BY <1>1 DEF BeginArena, ArenaReturn, Types
<1>4. /\ \A t : t \in Pooled => t \in Pooled'
      /\ client[c] # "out" \/ Root[c] \in Pooled'
  <2>1. CASE BeginArena(c)
    <3>1. queue' = [queue EXCEPT ![Front] = <<Root[c]>> \o @] /\ client[c] = "out"
      BY <2>1 DEF BeginArena
    <3>2. Front \in Worker
      BY PoolAssumption DEF Front, Worker
    <3>3. Root[c] \in Task /\ Root[c] \notin Pooled /\ queue \in [Worker -> Seq(Task)] /\ OnceInDeques
      BY <1>1, <3>1, FutureRoot DEF PoolInv, Out, Types
    <3>4. Pooled' = Pooled \cup {Root[c]}
      BY ONLY <3>1, <3>2, <3>3, PoolPush
    <3> QED
      BY ONLY <3>4
  <2>2. CASE ArenaReturn(c)
    BY <2>2, SamePool DEF ArenaReturn
  <2> QED
    BY <2>1, <2>2
<1>5. \A t \in Task : Out(t) => Out(t)' \/ runs'[t] = 1
  BY ONLY <1>2, <1>4 DEF Out
<1>6. ASSUME NEW t \in Task, Past(t)', ~Past(t)
      PROVE  Out(t)' \/ runs'[t] = 1
  <2>1. Parent(t) = c /\ client[c] = "out"
    BY ONLY <1>2, <1>3, <1>6, c \in Client DEF Past, Parent
  <2>2. t = Root[c]
    BY <2>1, SiteUnique
  <2> QED
    BY ONLY <1>4, <2>1, <2>2 DEF Out
<1>7. client[c] # "spawn"
  BY DEF BeginArena, ArenaReturn
<1>8. \A t \in Task : Handed(t) => Handed(t)'
  BY ONLY <1>3, <1>7 DEF Handed, Parent
<1> QED
  BY ONLY <1>2, <1>5, <1>6, <1>8, NoneLost, NoneLostStep

LEMMA NoneLostOutside ==
  ASSUME PoolInv, NoneLost, OutsideOnly, NEW c \in Client,
         RunOutside(c) \/ DropOutside(c) \/ ReleaseOutside(c) \/ UnwindGroup(c)
  PROVE  NoneLost'
<1>1. Types /\ Shape
  BY DEF PoolInv
<1>2. Active' = Active /\ Pooled' = Pooled
  BY SameStacks, SamePool DEF RunOutside, DropOutside, ReleaseOutside, UnwindGroup
<1>3. \A k \in Client : k # c => client'[k] = client[k]
  BY <1>1 DEF RunOutside, DropOutside, ReleaseOutside, UnwindGroup, Types
<1>4. \A t \in Task : Out(t) => Out(t)'
  BY ONLY <1>2 DEF Out
<1>5. CASE runs' = runs /\ client[c] # "spawn" /\ (client[c] = "out" => client'[c] = "spawn")
  <2>1. \A t \in Task : Handed(t) => Handed(t)'
    BY ONLY <1>3, <1>5 DEF Handed, Parent
  <2>2. \A t \in Task : Past(t)' /\ ~Past(t) => Handed(t)'
    BY ONLY <1>2, <1>3, <1>5, c \in Client DEF Past, Handed, Parent
  <2> QED
    BY ONLY <1>4, <1>5, <2>1, <2>2, NoneLost, NoneLostStep
<1>6. CASE DropOutside(c)
  <2>1. PICK u : u = Root[c]
    OBVIOUS
  <2>2. client[c] = "spawn" /\ runs' = [runs EXCEPT ![u] = @ + 1]
    BY <1>6, <2>1 DEF DropOutside
  <2>3. runs[u] = 0 /\ c \in Outside /\ u \in Task
    BY <1>1, <2>1, <2>2, PoolAssumption DEF Types, OutsideOnly
  <2>4. runs'[u] = 1 /\ \A t \in Task : t # u => runs'[t] = runs[t]
    BY ONLY <1>1, <2>2, <2>3 DEF Types
  <2>5. \A t \in Task : Parent(t) = c => t = u
    BY <2>1, SiteUnique
  <2>6. \A t \in Task : Handed(t) => Handed(t)' \/ runs'[t] = 1
    BY ONLY <1>3, <2>4, <2>5 DEF Handed, Parent
  <2>7. \A t \in Task : Parent(t) # u
    <3>1. Len(Body[u]) = 0
      BY <2>1, <2>3, PoolAssumption
    <3>2. ASSUME NEW t \in Task, Parent(t) = u
          PROVE  Site[t][2] \in 1..Len(Body[u])
      BY <2>3, <3>2, SiteOps
    <3> QED
      BY ONLY <3>1, <3>2
  <2>8. ASSUME NEW t \in Task, Past(t)', ~Past(t)
        PROVE  FALSE
    <3>1. Parent(t) # u /\ (Parent(t) \in Task => runs'[Parent(t)] = runs[Parent(t)])
      BY ONLY <2>4, <2>7
    <3> QED
      BY ONLY <1>2, <1>3, <2>2, <2>8, <3>1, c \in Client DEF Past, Parent
  <2>9. \A t \in Task : runs[t] = 1 => runs'[t] = 1
    BY ONLY <2>4
  <2> QED
    BY ONLY <1>4, <2>6, <2>8, <2>9, NoneLost, NoneLostStep
<1>7. CASE RunOutside(c)
  <2>1. client[c] = "out" /\ client' = [client EXCEPT ![c] = "spawn"] /\ runs' = runs
    BY <1>7 DEF RunOutside
  <2>2. client'[c] = "spawn"
    BY ONLY <1>1, <2>1 DEF Types
  <2> QED
    BY <1>5, <2>1, <2>2
<1>8. CASE ReleaseOutside(c) \/ UnwindGroup(c)
  BY <1>5, <1>8 DEF ReleaseOutside, UnwindGroup
<1> QED
  BY <1>6, <1>7, <1>8

(* Only a run outside the pool is interrupted by the exception.            *)
LEMMA OutsideOnlyNext == PoolInv /\ OutsideOnly /\ [Next]_vars => OutsideOnly'
<1> SUFFICES ASSUME PoolInv, OutsideOnly, [Next]_vars PROVE OutsideOnly'
  OBVIOUS
<1>1. client \in [Client -> Place]
  BY DEF PoolInv, Types
<1>2. ASSUME client' = client
      PROVE  OutsideOnly'
  BY <1>2 DEF OutsideOnly
<1>3. ASSUME NEW c \in Client, NEW a, client' = [client EXCEPT ![c] = a],
             a = "spawn" => c \in Outside
      PROVE  OutsideOnly'
  BY <1>1, <1>3 DEF OutsideOnly
<1>4. ASSUME NEW c \in Client, BeginArena(c) \/ RunOutside(c) \/ ClientStep(c)
      PROVE  OutsideOnly'
  <2>1. \/ client' = [client EXCEPT ![c] = "spawn"] /\ c \in Outside
        \/ client' = [client EXCEPT ![c] = "wait"]
        \/ client' = [client EXCEPT ![c] = "back"]
        \/ client' = [client EXCEPT ![c] = "release"]
        \/ client' = [client EXCEPT ![c] = "unwind"]
        \/ client' = [client EXCEPT ![c] = "threw"]
        \/ client' = [client EXCEPT ![c] = "terminated"]
    BY <1>4 DEF BeginArena, RunOutside, ClientStep, ArenaReturn, DropOutside, ReleaseOutside,
                UnwindGroup
  <2> QED
    BY <1>3, <2>1
<1>5. ASSUME NEW w \in Worker, Step(w)
      PROVE  OutsideOnly'
  BY <1>2, <1>5 DEF Step, RunCount, RunPush, CallFn, CallWait, FnReturn, Release, Look, LookInVain,
                    WaitCheck
<1>6. CASE UNCHANGED vars
  BY <1>2, <1>6 DEF vars
<1> QED
  BY <1>4, <1>5, <1>6 DEF Next

LEMMA NoneLostNext == PoolInv /\ NoneLost /\ OutsideOnly /\ [Next]_vars => NoneLost'
<1> SUFFICES ASSUME PoolInv, NoneLost, OutsideOnly, [Next]_vars PROVE NoneLost'
  OBVIOUS
<1>0. Shape
  BY DEF PoolInv
<1>1. ASSUME NoMove
      PROVE  NoneLost'
  BY ONLY <1>1, NoneLost DEF NoMove, NoneLost, Past, Out, Handed, Parent
<1>2. ASSUME NEW c \in Client, BeginArena(c) \/ RunOutside(c) \/ ClientStep(c)
      PROVE  NoneLost'
  BY <1>2, NoneLostInArena, NoneLostOutside DEF ClientStep
<1>3. ASSUME NEW w \in Worker, Step(w)
      PROVE  NoneLost'
  <2>1. CASE RunCount(w)
    <3>1. PICK g : CountMove(Top(w), g)
      BY <2>1, CountEffect
    <3>2. \A x \in Nat : x # x + 1
      OBVIOUS
    <3>3. /\ Becomes(Top(w), g) /\ g.pos = Top(w).pos /\ Top(w).pos \in Nat
          /\ Pooled \subseteq Pooled' /\ runs' = runs /\ client' = client
      BY <1>0, <3>1, ActiveFrames DEF CountMove, Becomes, Frame
    <3> QED
      BY ONLY <1>0, <3>2, <3>3, NoneLost, NoneLostMoving
  <2>2. CASE RunPush(w)
    <3>1. PICK g : PushMove(Top(w), g)
      BY <2>2, PushEffect
    <3>2. /\ Becomes(Top(w), g) /\ g.pos = Top(w).pos + 1 /\ Pooled \subseteq Pooled'
          /\ Body[Top(w).task][Top(w).pos].fn \in Pooled' /\ runs' = runs /\ client' = client
      BY ONLY <3>1 DEF PushMove
    <3> QED
      BY ONLY <1>0, <3>2, NoneLost, NoneLostMoving
  <2>3. CASE CallFn(w)
    BY <2>3, CallEffect, NoneLostInCall
  <2>4. CASE CallWait(w) \/ LookInVain(w)
    BY <1>1, <2>4, RestEffect
  <2>5. CASE FnReturn(w)
    BY <2>5, ReturnEffect, NoneLostInReturn
  <2>6. CASE Release(w)
    BY <2>6, DropEffect, NoneLostInDrop
  <2>7. CASE Look(w)
    BY <2>7, TakeEffect, NoneLostInTake
  <2>8. CASE WaitCheck(w) /\ pending[Top(w).task] # 0
    BY <1>1, <2>8, RestEffect
  <2>9. CASE WaitCheck(w) /\ pending[Top(w).task] = 0
    <3>1. PICK h, g : WaitMove(h, g)
      BY <2>9, WaitEffect
    <3>2. /\ Becomes(h, g) /\ g.pos = h.pos + 1 /\ Pooled \subseteq Pooled'
          /\ Body[h.task][h.pos].fn = None /\ runs' = runs /\ client' = client
      BY ONLY <3>1 DEF WaitMove, Wait
    <3> QED
      BY ONLY <1>0, <3>2, NoneLost, NoneLostMoving
  <2> QED
    BY ONLY <1>3, <2>1, <2>2, <2>3, <2>4, <2>5, <2>6, <2>7, <2>8, <2>9 DEF Step
<1>4. CASE UNCHANGED vars
  <2>1. NoMove
    BY <1>4, SameStacks, SamePool DEF vars, NoMove
  <2> QED
    BY <1>1, <2>1
<1> QED
  BY <1>2, <1>3, <1>4 DEF Next

LEMMA NoneLostInit == Init => NoneLost
<1> SUFFICES ASSUME Init PROVE NoneLost
  OBVIOUS
<1>1. \A f : f \notin Active
  BY ActiveMember DEF Init, LoopFrame
<1>2. \A t \in Task : ~Past(t)
  BY <1>1 DEF Init, Past
<1> QED
  BY ONLY <1>2 DEF NoneLost

(* No functor gets lost between a count, a deque, a thief, a throwing run  *)
(* and its end: what has been submitted or called is queued, on a stack,   *)
(* in the hands of the client that run threw at, or has run.               *)
THEOREM NoneLostHolds == Spec => []NoneLost
<1>1. Init => PoolInv /\ NoneLost /\ OutsideOnly
  <2>1. Init => OutsideOnly
    BY DEF Init, OutsideOnly
  <2> QED
    BY <2>1, PoolInit, NoneLostInit
<1>2. (PoolInv /\ NoneLost /\ OutsideOnly) /\ [Next]_vars => (PoolInv /\ NoneLost /\ OutsideOnly)'
  BY PoolNext, NoneLostNext, OutsideOnlyNext
<1> QED
  BY <1>1, <1>2, PTL DEF Spec
=============================================================================
