------------------------ MODULE ParallelReduce_proof ------------------------
(***************************************************************************)
(* The body objects of parallel_reduce, for any range, grain and number of *)
(* workers: none is worked on by two threads at a time, none is used after *)
(* the call it lives in has returned, and the caller's is given the whole  *)
(* range, in order.  The first two follow from the pool's invariant and    *)
(* from where a range's object comes from, the range itself if it was run  *)
(* or a range further down the same stack; the third from what an object   *)
(* holds while its range is under way.                                     *)
(***************************************************************************)
EXTENDS ParallelReduce, TaskPool_proof

(* The range that f's call has the object of is on f's stack, not above f, *)
(* and was run.                                                            *)
OwnerBelow(w, i, g) ==
  \E j \in i..Len(calls[w]) :
    calls[w][j].fn = "task" /\ calls[w][j].task = g /\ Submitted(g)

(* A function that is called is right above its caller.                    *)
CallerBelow(w, i) ==
  \/ Submitted(calls[w][i].task)
  \/ calls[w][i + 1].fn = "task" /\ calls[w][i + 1].task = Parent(calls[w][i].task)

OwnersBelow ==
  \A w \in Worker : \A i \in 1..Len(calls[w]) : calls[w][i].fn = "task" =>
    OwnerBelow(w, i, given[calls[w][i].task]) /\ CallerBelow(w, i)

OwnObjects ==
  /\ given \in [Task -> Task]
  /\ \A t \in Task : Submitted(t) => given[t] = t

ReduceInv == PoolInv /\ OwnObjects /\ OwnersBelow

-----------------------------------------------------------------------------
(* The stacks keep their functions, but for the innermost frame, which is  *)
(* new (k = 1) or dropped (l = 1) or neither.                              *)
Keeps(w, l, s, k) ==
  /\ calls'[w] = s /\ \A v \in Worker \ {w} : calls'[v] = calls[v]
  /\ l \in {0, 1} /\ k \in {0, 1} /\ Len(s) \in Nat /\ Len(calls[w]) \in Nat
  /\ Len(s) = Len(calls[w]) - l + k
  /\ \A i \in k + 1..Len(s) : s[i].fn = calls[w][i - k + l].fn /\ s[i].task = calls[w][i - k + l].task

LEMMA OwnersKept ==
  ASSUME Shape, OwnersBelow, NEW w \in Worker, NEW l, NEW s, NEW k, Keeps(w, l, s, k),
         \A f \in Active : given'[f.task] = given[f.task],
         k = 1 /\ s[1].fn = "task" => OwnerBelow(w, 1, given[s[1].task])' /\ CallerBelow(w, 1)'
  PROVE  OwnersBelow'
<1>1. /\ calls'[w] = s /\ \A v \in Worker \ {w} : calls'[v] = calls[v]
      /\ l \in {0, 1} /\ k \in {0, 1} /\ Len(s) \in Nat /\ Len(calls[w]) \in Nat
      /\ Len(s) = Len(calls[w]) - l + k
      /\ \A i \in k + 1..Len(s) : s[i].fn = calls[w][i - k + l].fn /\ s[i].task = calls[w][i - k + l].task
  BY DEF Keeps
<1>2. ASSUME NEW v \in Worker \ {w}, NEW i \in 1..Len(calls'[v]), calls'[v][i].fn = "task"
      PROVE  OwnerBelow(v, i, given[calls[v][i].task])' /\ CallerBelow(v, i)'
  <2>1. calls'[v] = calls[v]
    BY ONLY <1>1, v \in Worker \ {w}
  <2>2. OwnerBelow(v, i, given[calls[v][i].task]) /\ CallerBelow(v, i)
    BY ONLY <2>1, <1>2, OwnersBelow DEF OwnersBelow
  <2>3. calls[v][i] \in Active
    BY ONLY <2>1, <1>2, ActiveMember
  <2>4. given'[calls[v][i].task] = given[calls[v][i].task]
    BY <2>3
  <2> QED
    BY ONLY <2>1, <2>2, <2>4 DEF OwnerBelow, CallerBelow, Submitted, Parent
<1>3. ASSUME NEW i \in k + 1..Len(s), s[i].fn = "task"
      PROVE  OwnerBelow(w, i, given[calls[w][i].task])' /\ CallerBelow(w, i)'
  <2>1. PICK h : h = i - k + l
    OBVIOUS
  <2>2. h \in 1..Len(calls[w]) /\ s[i].fn = calls[w][h].fn /\ s[i].task = calls[w][h].task
    <3>1. h \in 1..Len(calls[w])
      BY ONLY <1>1, <2>1, i \in k + 1..Len(s)
    <3> QED
      BY ONLY <3>1, <1>1, <2>1, i \in k + 1..Len(s)
  <2>3. OwnerBelow(w, h, given[calls[w][h].task]) /\ CallerBelow(w, h)
    BY ONLY <2>2, <1>3, OwnersBelow, w \in Worker DEF OwnersBelow
  <2>4. PICK j \in h..Len(calls[w]) :
          /\ calls[w][j].fn = "task" /\ calls[w][j].task = given[s[i].task]
          /\ Submitted(given[s[i].task])
    BY ONLY <2>2, <2>3 DEF OwnerBelow
  <2>5. PICK m : m = j + k - l
    OBVIOUS
  <2>6. m \in i..Len(s) /\ m \in k + 1..Len(s) /\ m - k + l = j
    BY ONLY <1>1, <2>1, <2>2, <2>5, i \in k + 1..Len(s), j \in h..Len(calls[w])
  <2>7. s[m].fn = "task" /\ s[m].task = given[s[i].task]
    BY ONLY <1>1, <2>4, <2>6
  <2>8. calls[w][h] \in Active
    BY ONLY <2>2, <1>3, w \in Worker, ActiveMember
  <2>9. given'[s[i].task] = given[s[i].task]
    BY <2>2, <2>8
  <2>10. OwnerBelow(w, i, given[calls[w][i].task])'
    BY ONLY <1>1, <2>4, <2>6, <2>7, <2>9 DEF OwnerBelow
  <2>11. i + 1 \in k + 1..Len(s) /\ i + 1 - k + l = h + 1
    <3>1. h # Len(calls[w])
      BY <2>2, <1>3 DEF Shape, FrameOK
    <3> QED
      BY ONLY <1>1, <2>1, <2>2, <3>1, i \in k + 1..Len(s)
  <2>12. s[i + 1].fn = calls[w][h + 1].fn /\ s[i + 1].task = calls[w][h + 1].task
    <3>1. \A x \in k + 1..Len(s) :
            s[x].fn = calls[w][x - k + l].fn /\ s[x].task = calls[w][x - k + l].task
      BY ONLY <1>1
    <3>2. PICK x : x = i + 1
      OBVIOUS
    <3>3. x \in k + 1..Len(s) /\ x - k + l = h + 1
      <4>1. x \in k + 1..Len(s)
        BY ONLY <2>11, <3>2
      <4>2. i \in Int /\ k \in Int /\ l \in Int
        BY ONLY <1>1, i \in k + 1..Len(s)
      <4> QED
        BY ONLY <2>1, <3>2, <4>1, <4>2
    <3>4. s[x].fn = calls[w][x - k + l].fn /\ s[x].task = calls[w][x - k + l].task
      BY ONLY <3>1, <3>3
    <3> QED
      BY ONLY <3>2, <3>3, <3>4
  <2>13. CallerBelow(w, i)'
    BY ONLY <1>1, <2>2, <2>3, <2>12 DEF CallerBelow, Submitted, Parent
  <2> QED
    BY <2>10, <2>13
<1>4. ASSUME NEW i \in 1..Len(s), s[i].fn = "task"
      PROVE  OwnerBelow(w, i, given[calls[w][i].task])' /\ CallerBelow(w, i)'
  <2>1. i \in k + 1..Len(s) \/ (k = 1 /\ i = 1)
    BY ONLY <1>1, i \in 1..Len(s)
  <2>2. CASE i \in k + 1..Len(s)
    BY ONLY <2>2, <1>3, <1>4
  <2>3. CASE k = 1 /\ i = 1
    <3>1. OwnerBelow(w, 1, given[s[1].task])' /\ CallerBelow(w, 1)'
      BY <2>3, <1>4
    <3>2. calls'[w][i].task = s[1].task
      BY ONLY <2>3, <1>1
    <3> QED
      BY ONLY <2>3, <3>1, <3>2 DEF OwnerBelow, CallerBelow
  <2> QED
    BY ONLY <2>1, <2>2, <2>3
<1> QED
  BY ONLY <1>1, <1>2, <1>4, w \in Worker DEF OwnersBelow

(* The ways of TaskPool to change a stack.                                 *)
LEMMA KeepsAtTop ==
  ASSUME Shape, NEW w \in Worker, NEW g \in Frame, Goto(w, g),
         g.fn = Top(w).fn, g.task = Top(w).task
  PROVE  \E s : Keeps(w, 0, s, 0)
<1>1. PICK s : /\ Replaces(w, 1, s, 1) /\ calls'[w] = s
               /\ s[1] = g /\ Len(s) = Len(calls[w])
               /\ \A i \in 2..Len(s) : s[i] = calls[w][i]
  BY GotoReplaces
<1>2. Len(s) \in Nat /\ \A v \in Worker \ {w} : calls'[v] = calls[v]
  BY <1>1, StackAfter
<1>3. ASSUME NEW i \in 0 + 1..Len(s)
      PROVE  s[i].fn = calls[w][i - 0 + 0].fn /\ s[i].task = calls[w][i - 0 + 0].task
  <2>1. i - 0 + 0 = i /\ (i = 1 \/ i \in 2..Len(s))
    BY ONLY <1>2, i \in 0 + 1..Len(s)
  <2> QED
    BY ONLY <2>1, <1>1, g.fn = Top(w).fn, g.task = Top(w).task DEF Top
<1>4. Len(s) = Len(calls[w]) - 0 + 0
  BY ONLY <1>1, <1>2
<1> QED
  BY ONLY <1>1, <1>2, <1>3, <1>4 DEF Keeps

LEMMA KeepsUnder ==
  ASSUME Shape, NEW w \in Worker, NEW s, NEW f, NEW g, Pushed(w, s, f, g),
         g.fn = Top(w).fn, g.task = Top(w).task
  PROVE  Keeps(w, 0, s, 1) /\ s[1] = f /\ s[2] = g
<1>1. /\ Replaces(w, 1, s, 2) /\ calls'[w] = s
      /\ s[1] = f /\ s[2] = g /\ Len(s) = Len(calls[w]) + 1
      /\ \A i \in 3..Len(s) : s[i] = calls[w][i - 1]
  BY DEF Pushed
<1>2. Len(s) \in Nat /\ Len(calls[w]) \in Nat /\ \A v \in Worker \ {w} : calls'[v] = calls[v]
  BY <1>1, StackAfter
<1>3. ASSUME NEW i \in 1 + 1..Len(s)
      PROVE  s[i].fn = calls[w][i - 1 + 0].fn /\ s[i].task = calls[w][i - 1 + 0].task
  <2>1. i - 1 + 0 = i - 1 /\ ((i = 2 /\ i - 1 = 1) \/ i \in 3..Len(s))
    BY ONLY <1>2, i \in 1 + 1..Len(s)
  <2> QED
    BY ONLY <2>1, <1>1, g.fn = Top(w).fn, g.task = Top(w).task DEF Top
<1>4. Len(s) = Len(calls[w]) - 0 + 1
  BY ONLY <1>1, <1>2
<1> QED
  BY ONLY <1>1, <1>2, <1>3, <1>4 DEF Keeps

LEMMA KeepsBelow ==
  ASSUME Shape, NEW w \in Worker, NEW s, s = Tail(calls[w]), calls' = [calls EXCEPT ![w] = s]
  PROVE  Keeps(w, 1, s, 0)
<1>1. Replaces(w, 1, s, 0) /\ calls'[w] = s /\ Len(s) = Len(calls[w]) - 1
  BY PopReplaces
<1>2. Len(s) \in Nat /\ Len(calls[w]) \in Nat /\ \A v \in Worker \ {w} : calls'[v] = calls[v]
  BY <1>1, StackAfter
<1>3. \A i \in 0 + 1..Len(s) : s[i] = calls[w][i - 0 + 1]
  BY ONLY <1>1 DEF Replaces
<1>4. Len(s) = Len(calls[w]) - 1 + 0
  BY ONLY <1>1, <1>2
<1> QED
  BY ONLY <1>1, <1>2, <1>3, <1>4 DEF Keeps

LEMMA KeepsResumed ==
  ASSUME Shape, NEW w \in Worker, NEW s, NEW g, Resumes(w, s, g),
         g.fn = calls[w][2].fn, g.task = calls[w][2].task
  PROVE  Keeps(w, 1, s, 0)
<1>1. /\ Replaces(w, 2, s, 1) /\ calls'[w] = s
      /\ s[1] = g /\ Len(s) = Len(calls[w]) - 1
      /\ \A i \in 2..Len(s) : s[i] = calls[w][i + 1]
  BY DEF Resumes
<1>2. Len(s) \in Nat /\ Len(calls[w]) \in Nat /\ \A v \in Worker \ {w} : calls'[v] = calls[v]
  BY <1>1, StackAfter
<1>3. ASSUME NEW i \in 0 + 1..Len(s)
      PROVE  s[i].fn = calls[w][i - 0 + 1].fn /\ s[i].task = calls[w][i - 0 + 1].task
  <2>1. i - 0 + 1 = i + 1 /\ ((i = 1 /\ i + 1 = 2) \/ i \in 2..Len(s))
    BY ONLY <1>2, i \in 0 + 1..Len(s)
  <2> QED
    BY ONLY <2>1, <1>1, g.fn = calls[w][2].fn, g.task = calls[w][2].task
<1>4. Len(s) = Len(calls[w]) - 1 + 0
  BY ONLY <1>1, <1>2
<1> QED
  BY ONLY <1>1, <1>2, <1>3, <1>4 DEF Keeps

(* A step of w that neither makes nor calls a function, ...                *)
LEMMA SameOwners ==
  ASSUME Shape, OwnersBelow, NEW w \in Worker, NEW l, NEW s, Keeps(w, l, s, 0), given' = given
  PROVE  OwnersBelow'
<1>1. \A f \in Active : given'[f.task] = given[f.task]
  OBVIOUS
<1>2. ~(0 = 1)
  OBVIOUS
<1> QED
  BY ONLY <1>1, <1>2, OwnersKept, Shape, OwnersBelow, w \in Worker, Keeps(w, l, s, 0)

LEMMA StepAtTop ==
  ASSUME PoolInv, OwnersBelow, NEW w \in Worker, given' = given,
         RunCount(w) \/ RunPush(w) \/ LookInVain(w) \/ (FnReturn(w) /\ Top(w).owned)
           \/ (WaitCheck(w) /\ pending[Top(w).task] # 0)
  PROVE  OwnersBelow'
<1>1. Shape
  BY DEF PoolInv
<1>2. PICK f : f = Top(w)
  OBVIOUS
<1>3. f \in Frame /\ (f.at = "look" => f.fn \in {"loop", "wait"} /\ f.time \in 0..NumWorkers - 1)
  <2>1. f \in Frame /\ (f.at = "look" => f.fn \in {"loop", "wait"}) /\ FrameOK(w, 1)
    BY <1>1, <1>2, TopFacts
  <2> QED
    BY <1>2, <2>1 DEF FrameOK, Top
<1>4. \E g \in Frame : Goto(w, g) /\ g.fn = f.fn /\ g.task = f.task
  <2>1. CASE RunCount(w) \/ (FnReturn(w) /\ Top(w).owned) \/ (WaitCheck(w) /\ pending[Top(w).task] # 0)
    <3>1. PICK a \in {"push", "release", "look"} : Goto(w, [f EXCEPT !.at = a])
      BY <1>2, <2>1 DEF RunCount, FnReturn, WaitCheck
    <3>2. PICK g : g = [f EXCEPT !.at = a]
      OBVIOUS
    <3>3. f \in Frame /\ a \in {"look", "check", "body", "push", "release"}
      BY <1>3
    <3>4. g \in Frame /\ g.fn = f.fn /\ g.task = f.task
      BY ONLY <3>2, <3>3, FrameAt
    <3> QED
      BY <3>1, <3>2, <3>4
  <2>2. CASE RunPush(w)
    <3>1. PICK g : g = Advanced(f)
      OBVIOUS
    <3>2. Goto(w, g)
      BY <1>2, <2>2, <3>1 DEF RunPush
    <3>3. g \in Frame /\ g.fn = f.fn /\ g.task = f.task
      BY ONLY <1>3, <3>1, NewFrames
    <3> QED
      BY <3>2, <3>3
  <2>3. CASE LookInVain(w)
    <3>1. PICK g : g = Tried(f)
      OBVIOUS
    <3>2. Goto(w, g) /\ f.at = "look"
      BY <1>2, <2>3, <3>1 DEF LookInVain
    <3>3. g \in Frame /\ g.fn = f.fn /\ g.task = f.task
      BY ONLY <1>3, <3>1, <3>2, NewFrames
    <3> QED
      BY <3>2, <3>3
  <2> QED
    BY <2>1, <2>2, <2>3
<1>5. \E s : Keeps(w, 0, s, 0)
  BY ONLY <1>1, <1>2, <1>4, w \in Worker, KeepsAtTop
<1> QED
  BY <1>1, <1>5, SameOwners

LEMMA StepDown ==
  ASSUME PoolInv, OwnersBelow, NEW w \in Worker, given' = given,
         Release(w) \/ (FnReturn(w) /\ ~Top(w).owned)
           \/ (WaitCheck(w) /\ pending[Top(w).task] = 0)
  PROVE  OwnersBelow'
<1>1. Shape
  BY DEF PoolInv
<1>2. CASE Release(w) \/ (FnReturn(w) /\ ~Top(w).owned)
  <2>1. PICK s : s = Tail(calls[w])
    OBVIOUS
  <2>2. calls' = [calls EXCEPT ![w] = s]
    BY <1>2, <2>1 DEF Release, FnReturn
  <2>3. Keeps(w, 1, s, 0)
    BY ONLY <1>1, <2>1, <2>2, w \in Worker, KeepsBelow
  <2> QED
    BY <1>1, <2>3, SameOwners
<1>3. CASE WaitCheck(w) /\ pending[Top(w).task] = 0
  <2>1. PICK h, g : h = calls[w][2] /\ g = Advanced(h)
    OBVIOUS
  <2>2. calls' = [calls EXCEPT ![w] = <<g>> \o Tail(Tail(@))]
    BY <1>3, <2>1 DEF WaitCheck, WaitOver
  <2>3. Top(w).fn # "loop"
    BY <1>3 DEF WaitCheck, At
  <2>4. h \in Frame /\ Len(calls[w]) >= 2
    BY <1>1, <2>1, <2>3, TopFacts DEF Shape
  <2>5. g \in Frame /\ g.fn = h.fn /\ g.task = h.task
    BY ONLY <2>1, <2>4, NewFrames
  <2>6. PICK s : Resumes(w, s, g)
    BY ONLY <1>1, <2>2, <2>4, <2>5, w \in Worker, OverReplaces
  <2>7. Keeps(w, 1, s, 0)
    BY ONLY <1>1, <2>1, <2>5, <2>6, w \in Worker, KeepsResumed
  <2> QED
    BY <1>1, <2>7, SameOwners
<1> QED
  BY <1>2, <1>3 DEF WaitCheck

(* ... one that begins a wait, ...                                         *)
LEMMA CallWaitOwners ==
  ASSUME PoolInv, OwnersBelow, NEW w \in Worker, given' = given, CallWait(w)
  PROVE  OwnersBelow'
<1>1. Shape
  BY DEF PoolInv
<1>2. PICK p, f : p = Top(w).task /\ f = WaitFrame(p)
  OBVIOUS
<1>3. Doing(w, "wait") /\ calls' = [calls EXCEPT ![w] = <<f>> \o @]
  BY <1>2 DEF CallWait, Top
<1>4. f \in Frame /\ f.fn = "wait"
  <2>1. p \in Task
    BY <1>1, <1>2, <1>3, DoingFacts
  <2> QED
    BY ONLY <1>2, <2>1, NewFrames
<1>5. PICK s : Pushed(w, s, f, Top(w))
  BY ONLY <1>1, <1>3, <1>4, w \in Worker, OnTopReplaces
<1>6. Keeps(w, 0, s, 1) /\ s[1] = f
  BY ONLY <1>1, <1>5, w \in Worker, KeepsUnder
<1>7. ~(1 = 1 /\ s[1].fn = "task")
  BY ONLY <1>4, <1>6
<1>8. \A h \in Active : given'[h.task] = given[h.task]
  OBVIOUS
<1> QED
  BY ONLY <1>1, <1>6, <1>7, <1>8, OwnersBelow, w \in Worker, OwnersKept

(* ... one that takes a functor: its range has an object of its own, ...   *)
LEMMA LookOwners ==
  ASSUME PoolInv, OwnObjects, OwnersBelow, NEW w \in Worker, given' = given, Look(w)
  PROVE  OwnersBelow'
<1>1. Shape /\ Lifecycle /\ Types
  BY DEF PoolInv
<1>2. PICK v \in Worker :
        /\ queue[v] # <<>>
        /\ calls' = [calls EXCEPT ![w] = <<TaskFrame(queue[v][1], TRUE), Tried(@[1])>> \o Tail(@)]
  BY DEF Look, Victims
<1>3. PICK u, f, g : u = queue[v][1] /\ f = TaskFrame(u, TRUE) /\ g = Tried(Top(w))
  OBVIOUS
<1>4. calls' = [calls EXCEPT ![w] = <<f, g>> \o Tail(@)]
  BY <1>2, <1>3 DEF Top
<1>5. u \in Task /\ Submitted(u) /\ given[u] = u
  <2>1. queue[v] \in Seq(Task)
    BY <1>1 DEF Types
  <2>2. u \in Task /\ 1 \in 1..Len(queue[v])
    BY ONLY <1>2, <1>3, <2>1
  <2>3. u \in Pooled
    BY <1>3, <2>2, PooledMember
  <2> QED
    BY <1>1, <2>2, <2>3 DEF Lifecycle, OwnObjects
<1>6. g \in Frame /\ g.fn = Top(w).fn /\ g.task = Top(w).task
  <2>1. Top(w).at = "look"
    BY DEF Look
  <2>2. Top(w) \in Frame /\ Top(w).fn \in {"loop", "wait"} /\ FrameOK(w, 1)
    BY <1>1, <2>1, TopFacts
  <2>3. Top(w).time \in 0..NumWorkers - 1
    BY <2>2 DEF FrameOK, Top
  <2> QED
    BY ONLY <1>3, <2>2, <2>3, NewFrames
<1>7. f \in Frame /\ f.fn = "task" /\ f.task = u
  BY ONLY <1>3, <1>5, NewFrames
<1>8. PICK s : Pushed(w, s, f, g)
  BY ONLY <1>1, <1>4, <1>6, <1>7, w \in Worker, PushReplaces
<1>9. Keeps(w, 0, s, 1) /\ s[1] = f
  BY ONLY <1>1, <1>6, <1>8, w \in Worker, KeepsUnder
<1>10. OwnerBelow(w, 1, given[s[1].task])'
  <2>1. calls'[w] = s /\ Len(calls[w]) \in Nat /\ Len(s) = Len(calls[w]) - 0 + 1
    BY ONLY <1>9 DEF Keeps
  <2>2. 1 \in 1..Len(s)
    BY ONLY <2>1
  <2>3. given'[s[1].task] = u
    BY <1>5, <1>7, <1>9
  <2> QED
    BY ONLY <1>5, <1>7, <1>9, <2>1, <2>2, <2>3 DEF OwnerBelow
<1>11. \A h \in Active : given'[h.task] = given[h.task]
  OBVIOUS
<1>12. CallerBelow(w, 1)'
  <2>1. calls'[w] = s
    BY ONLY <1>9 DEF Keeps
  <2> QED
    BY ONLY <1>5, <1>7, <1>9, <2>1 DEF CallerBelow, Submitted, Parent
<1> QED
  BY ONLY <1>1, <1>9, <1>10, <1>11, <1>12, OwnersBelow, w \in Worker, OwnersKept

(* ... and one that calls a function: its range gets its caller's object.  *)
LEMMA CallFnOwners ==
  ASSUME PoolInv, OwnObjects, OwnersBelow, NEW w \in Worker, CallFn(w), PassBody(w)
  PROVE  OwnObjects' /\ OwnersBelow'
<1>1. Shape /\ OnceInDeques /\ OnceOnStacks /\ Lifecycle /\ Types
  BY DEF PoolInv
<1>2. PICK h, u, f, g : /\ h = Top(w) /\ u = Body[h.task][h.pos].fn
                        /\ f = TaskFrame(u, FALSE) /\ g = Advanced(h)
  OBVIOUS
<1>3. /\ Doing(w, "call") /\ calls' = [calls EXCEPT ![w] = <<f, g>> \o Tail(@)]
      /\ given' = [given EXCEPT ![u] = given[h.task]]
  BY <1>2 DEF CallFn, PassBody, Top, Arg
<1>4. /\ h \in Active /\ h \in Frame /\ h.fn = "task" /\ h.at = "body"
      /\ h.task \in Task /\ h.pos \in 1..Len(Body[h.task])
      /\ h.pos \in Nat /\ Len(Body[h.task]) \in Nat /\ Body[h.task][h.pos].op = "call"
  BY ONLY <1>1, <1>2, <1>3, w \in Worker, DoingFacts
<1>5. h.pos <= Len(Body[h.task])
  BY ONLY <1>4
<1>6. u \in Task /\ ~Out(u) /\ ~Submitted(u) /\ Parent(u) = h.task
  BY ONLY <1>1, <1>2, <1>4, <1>5, Future
<1>7. OwnObjects'
  BY ONLY <1>3, <1>4, <1>6, OwnObjects DEF OwnObjects, Submitted, Parent
<1>8. \A k \in Active : given'[k.task] = given[k.task]
  BY ONLY <1>3, <1>6, OwnObjects DEF OwnObjects, Out
<1>9. /\ g \in Frame /\ g.fn = h.fn /\ g.task = h.task
      /\ f \in Frame /\ f.fn = "task" /\ f.task = u
  BY ONLY <1>2, <1>4, <1>6, NewFrames
<1>10. PICK s : Pushed(w, s, f, g)
  BY ONLY <1>1, <1>3, <1>9, w \in Worker, PushReplaces
<1>11. Keeps(w, 0, s, 1) /\ s[1] = f /\ s[2] = g
  <2>1. g \in Frame /\ g.fn = Top(w).fn /\ g.task = Top(w).task
    BY ONLY <1>2, <1>9
  <2> QED
    BY ONLY <1>1, <1>10, <2>1, w \in Worker, KeepsUnder
<1>12. /\ calls'[w] = s /\ Len(calls[w]) \in Nat /\ Len(s) = Len(calls[w]) - 0 + 1
       /\ \A i \in 1 + 1..Len(s) : s[i].fn = calls[w][i - 1 + 0].fn /\ s[i].task = calls[w][i - 1 + 0].task
  BY ONLY <1>11 DEF Keeps
<1>13. OwnerBelow(w, 1, given[s[1].task])'
  <2>1. OwnerBelow(w, 1, given[h.task])
    <3>1. 1 \in 1..Len(calls[w]) /\ calls[w][1] = h
      BY <1>1, <1>2, TopFacts DEF Top
    <3> QED
      BY ONLY <1>4, <3>1, OwnersBelow, w \in Worker DEF OwnersBelow
  <2>2. PICK j \in 1..Len(calls[w]) :
          calls[w][j].fn = "task" /\ calls[w][j].task = given[h.task] /\ Submitted(given[h.task])
    BY ONLY <2>1 DEF OwnerBelow
  <2>3. PICK i : i = j + 1
    OBVIOUS
  <2>4. i \in 1..Len(s) /\ i \in 1 + 1..Len(s) /\ i - 1 + 0 = j
    BY ONLY <1>12, <2>3, j \in 1..Len(calls[w])
  <2>5. s[i].fn = "task" /\ s[i].task = given[h.task]
    BY ONLY <1>12, <2>2, <2>4
  <2>6. given'[s[1].task] = given[h.task]
    BY ONLY <1>3, <1>6, <1>9, <1>11, OwnObjects DEF OwnObjects
  <2> QED
    BY ONLY <1>12, <2>2, <2>4, <2>5, <2>6 DEF OwnerBelow, Submitted, Parent
<1>14. CallerBelow(w, 1)'
  BY ONLY <1>4, <1>6, <1>9, <1>11, <1>12 DEF CallerBelow, Submitted, Parent
<1>15. OwnersBelow'
  BY ONLY <1>1, <1>8, <1>11, <1>13, <1>14, OwnersBelow, w \in Worker, OwnersKept
<1> QED
  BY <1>7, <1>15

-----------------------------------------------------------------------------
LEMMA ReduceStarts == ReduceInit => ReduceInv
<1> SUFFICES ASSUME ReduceInit PROVE ReduceInv
  OBVIOUS
<1>1. PoolInv
  BY PoolInit DEF ReduceInit
<1>2. OwnObjects
  BY RangeAssumption DEF ReduceInit, OwnObjects
<1>3. OwnersBelow
  <2>1. calls = [w \in Worker |-> <<LoopFrame>>]
    BY DEF ReduceInit, Init
  <2>2. \A w \in Worker : \A i \in 1..Len(calls[w]) : i = 1 /\ calls[w][i].fn = "loop"
    BY <2>1 DEF LoopFrame
  <2> QED
    BY ONLY <2>2 DEF OwnersBelow
<1> QED
  BY <1>1, <1>2, <1>3 DEF ReduceInv

LEMMA ReduceKeeps == ReduceInv /\ [ReduceNext]_reduceVars => ReduceInv'
<1> SUFFICES ASSUME ReduceInv, [ReduceNext]_reduceVars PROVE ReduceInv'
  OBVIOUS
<1>1. PoolInv /\ OwnObjects /\ OwnersBelow
  BY DEF ReduceInv
<1>2. [Next]_vars
  BY DEF ReduceNext, ReduceStep, Next, Step, ClientStep, reduceVars
<1>3. PoolInv'
  BY <1>1, <1>2, PoolNext
<1>4. OwnObjects' /\ OwnersBelow'
  <2>1. ASSUME calls' = calls, given' = given
        PROVE  OwnObjects' /\ OwnersBelow'
    <3>1. OwnObjects'
      BY ONLY <1>1, <2>1 DEF OwnObjects, Submitted, Parent
    <3>2. ASSUME NEW w \in Worker, NEW i \in 1..Len(calls'[w]), calls'[w][i].fn = "task"
          PROVE  OwnerBelow(w, i, given[calls[w][i].task])' /\ CallerBelow(w, i)'
      <4>1. OwnerBelow(w, i, given[calls[w][i].task]) /\ CallerBelow(w, i)
        BY ONLY <1>1, <2>1, <3>2 DEF OwnersBelow
      <4>2. OwnerBelow(w, i, given[calls[w][i].task])'
        BY ONLY <2>1, <4>1 DEF OwnerBelow, Submitted, Parent
      <4>3. CallerBelow(w, i)'
        BY ONLY <2>1, <4>1 DEF CallerBelow, Submitted, Parent
      <4> QED
        BY <4>2, <4>3
    <3>3. OwnersBelow'
      BY ONLY <3>2 DEF OwnersBelow
    <3> QED
      BY <3>1, <3>3
  <2>2. ASSUME given' = given
        PROVE  OwnObjects'
    BY ONLY <1>1, <2>2 DEF OwnObjects, Submitted, Parent
  <2>3. CASE UNCHANGED reduceVars
    BY <2>1, <2>3 DEF reduceVars, vars
  <2>4. ASSUME NEW c \in Client, (BeginArena(c) \/ ArenaReturn(c)) /\ UNCHANGED <<acc, given>>
        PROVE  OwnObjects' /\ OwnersBelow'
    BY <2>1, <2>4 DEF BeginArena, ArenaReturn
  <2>5. ASSUME NEW w \in Worker, ReduceStep(w)
        PROVE  OwnObjects' /\ OwnersBelow'
    <3>1. CASE CallFn(w) /\ PassBody(w)
      BY ONLY <1>1, <3>1, CallFnOwners, w \in Worker
    <3>2. CASE Look(w) /\ given' = given
      BY ONLY <1>1, <2>2, <3>2, LookOwners, w \in Worker
    <3>3. CASE CallWait(w) /\ given' = given
      BY ONLY <1>1, <2>2, <3>3, CallWaitOwners, w \in Worker
    <3>4. CASE Release(w) /\ given' = given
      BY ONLY <1>1, <2>2, <3>4, StepDown, w \in Worker
    <3>5. CASE (RunCount(w) \/ RunPush(w) \/ LookInVain(w)) /\ given' = given
      BY ONLY <1>1, <2>2, <3>5, StepAtTop, w \in Worker
    <3>6. CASE FnReturn(w) /\ given' = given
      BY ONLY <1>1, <2>2, <3>6, StepAtTop, StepDown, w \in Worker
    <3>7. CASE WaitCheck(w) /\ given' = given
      BY ONLY <1>1, <2>2, <3>7, StepAtTop, StepDown, w \in Worker
    <3> QED
      BY ONLY <2>5, <3>1, <3>2, <3>3, <3>4, <3>5, <3>6, <3>7 DEF ReduceStep, SplitBody, Reduce
  <2> QED
    BY <2>3, <2>4, <2>5 DEF ReduceNext
<1> QED
  BY <1>3, <1>4 DEF ReduceInv

(* Whoever runs which half: every range's body object belongs to a run     *)
(* range whose call is further down the same thread's stack.               *)
THEOREM ReduceInvariant == ReduceSpec => []ReduceInv
BY ReduceStarts, ReduceKeeps, PTL DEF ReduceSpec

-----------------------------------------------------------------------------
(* The right half of a range is run by the first step of its function.     *)
LEMMA RightHalf ==
  ASSUME NEW r \in Task, Splits(r)
  PROVE  Right(r) \in Task /\ Submitted(Right(r)) /\ Parent(Right(r)) = r
<1>1. Body[r] = <<Run(Right(r)), Call(Left(r)), Wait>>
  BY RangeAssumption DEF ReduceBody
<1>2. Len(Body[r]) = 3 /\ Body[r][1].fn = Right(r) /\ Body[r][1].op = "run"
  BY ONLY <1>1 DEF Run
<1>3. 1 \in 1..Len(Body[r])
  BY ONLY <1>2
<1>4. Right(r) \in Task
  BY <1>2, <1>3, OpsOfBody
<1>5. Site[Right(r)] = <<r, 1>> /\ Parent(Right(r)) = r
  <2>1. \A p \in Task : \A i \in 1..Len(Body[p]) : \A u \in Task :
          Body[p][i].fn = u => Site[u] = <<p, i>> /\ Parent(u) = p
    BY ONLY SiteUnique
  <2> QED
    BY ONLY <1>2, <1>3, <1>4, <2>1, r \in Task
<1> QED
  BY <1>2, <1>4, <1>5 DEF Submitted

(* What a thread touches: the object that its range was given, and that of *)
(* the right half when that has been waited for.                           *)
LEMMA TouchesFacts ==
  ASSUME PoolInv, NEW w \in Worker, NEW r \in Touches(w)
  PROVE  /\ Top(w) \in Active /\ Top(w).fn = "task" /\ Top(w).task \in Task
         /\ Top(w).pos > Len(Body[Top(w).task])
         /\ calls[w][1] = Top(w) /\ 1 \in 1..Len(calls[w])
         /\ r = given[Top(w).task] \/ (Splits(Top(w).task) /\ r = Right(Top(w).task))
<1>1. Shape
  BY DEF PoolInv
<1>2. At(w, "task", "body") /\ Top(w).pos > Len(Body[Top(w).task])
  BY DEF Touches
<1>3. r \in {given[Top(w).task]} \cup (IF Splits(Top(w).task) THEN {Right(Top(w).task)} ELSE {})
  BY <1>2 DEF Touches
<1> QED
  BY <1>1, <1>2, <1>3, TopFacts, ActiveFrames DEF At, Top

(* A right half that is on some stack keeps its parent before the end.     *)
LEMMA RightHalfWaited ==
  ASSUME PoolInv, NEW w \in Worker, NEW r, r = Top(w).task, r \in Task, Splits(r),
         Top(w) \in Active, Top(w).pos > Len(Body[r])
  PROVE  ~\E f \in Active : f.task = Right(r)
<1> SUFFICES ASSUME NEW f \in Active, f.task = Right(r) PROVE FALSE
  OBVIOUS
<1>1. Shape /\ OnceOnStacks /\ GroupsHeld
  BY DEF PoolInv
<1>2. Right(r) \in Task /\ Submitted(Right(r)) /\ Parent(Right(r)) = r
  BY RightHalf
<1>3. HasGroup(r)
  BY <1>1, <1>2 DEF GroupsHeld, Out
<1>4. r \notin Client
  BY PoolAssumption
<1>5. PICK g \in Active : g.task = r /\ \E j \in g.pos..Len(Body[r]) : TRUE
  BY <1>3, <1>4 DEF HasGroup
<1>6. g = Top(w)
  BY <1>1, <1>5, OneFrame
<1>7. Top(w).pos \in Nat /\ Len(Body[r]) \in Nat
  BY <1>1, ActiveFrames, OpsOfBody DEF Frame
<1> QED
  BY ONLY <1>5, <1>6, <1>7, Top(w).pos > Len(Body[r])

(* The object of a range is that of a run range on the same stack.         *)
LEMMA OwnerOnStack ==
  ASSUME OwnersBelow, NEW w \in Worker, 1 \in 1..Len(calls[w]), calls[w][1] = Top(w),
         Top(w).fn = "task"
  PROVE  \E j \in 1..Len(calls[w]) :
           /\ calls[w][j].fn = "task" /\ calls[w][j].task = given[Top(w).task]
           /\ Submitted(given[Top(w).task])
<1>1. OwnerBelow(w, 1, given[Top(w).task])
  BY ONLY OwnersBelow, w \in Worker, 1 \in 1..Len(calls[w]), calls[w][1] = Top(w),
          Top(w).fn = "task" DEF OwnersBelow
<1> QED
  BY ONLY <1>1 DEF OwnerBelow

LEMMA PrivateOfInv == ReduceInv => BodyPrivate
<1> SUFFICES ASSUME ReduceInv, NEW v \in Worker, NEW w \in Worker, v # w,
                    NEW r \in Touches(v) \cap Touches(w)
             PROVE  FALSE
  BY DEF BodyPrivate
<1>1. PoolInv /\ OwnersBelow /\ OnceOnStacks
  BY DEF ReduceInv, PoolInv
<1>2. PICK t, u : t = Top(v).task /\ u = Top(w).task
  OBVIOUS
<1>3. /\ Top(v) \in Active /\ Top(v).fn = "task" /\ t \in Task /\ Top(v).pos > Len(Body[t])
      /\ calls[v][1] = Top(v) /\ 1 \in 1..Len(calls[v])
      /\ r = given[t] \/ (Splits(t) /\ r = Right(t))
  BY ONLY <1>1, <1>2, v \in Worker, r \in Touches(v) \cap Touches(w), TouchesFacts
<1>4. /\ Top(w) \in Active /\ Top(w).fn = "task" /\ u \in Task /\ Top(w).pos > Len(Body[u])
      /\ calls[w][1] = Top(w) /\ 1 \in 1..Len(calls[w])
      /\ r = given[u] \/ (Splits(u) /\ r = Right(u))
  BY ONLY <1>1, <1>2, w \in Worker, r \in Touches(v) \cap Touches(w), TouchesFacts
<1>5. PICK i \in 1..Len(calls[v]) : calls[v][i].fn = "task" /\ calls[v][i].task = given[t]
  BY ONLY <1>1, <1>2, <1>3, v \in Worker, OwnerOnStack
<1>6. PICK j \in 1..Len(calls[w]) : calls[w][j].fn = "task" /\ calls[w][j].task = given[u]
  BY ONLY <1>1, <1>2, <1>4, w \in Worker, OwnerOnStack
<1>7. calls[v][i] \in Active /\ calls[w][j] \in Active
  BY <1>5, <1>6, ActiveMember
<1>8. t # u
  BY ONLY <1>1, <1>2, <1>3, <1>4, v \in Worker, w \in Worker, v # w DEF OnceOnStacks
<1>9. CASE r = given[t] /\ r = given[u]
  BY ONLY <1>1, <1>5, <1>6, <1>9, v \in Worker, w \in Worker, v # w DEF OnceOnStacks
<1>10. CASE r = given[t] /\ Splits(u) /\ r = Right(u)
  BY ONLY <1>1, <1>2, <1>4, <1>5, <1>7, <1>10, w \in Worker, RightHalfWaited
<1>11. CASE Splits(t) /\ r = Right(t) /\ r = given[u]
  BY ONLY <1>1, <1>2, <1>3, <1>6, <1>7, <1>11, v \in Worker, RightHalfWaited
<1>12. CASE Splits(t) /\ r = Right(t) /\ Splits(u) /\ r = Right(u)
  BY ONLY <1>3, <1>4, <1>8, <1>12, RightHalf
<1> QED
  BY ONLY <1>3, <1>4, <1>9, <1>10, <1>11, <1>12

(* body and join never run on one body object in two threads at a time,    *)
(* though no lock guards it.                                               *)
THEOREM BodyPrivateHolds == ReduceSpec => []BodyPrivate
BY PrivateOfInv, ReduceInvariant, PTL

LEMMA AliveOfInv == ReduceInv => BodyAlive
<1> SUFFICES ASSUME ReduceInv, NEW w \in Worker, NEW r \in Touches(w), r # Whole
             PROVE  \E v \in Worker : \E i \in 1..Len(calls[v]) :
                      calls[v][i].fn = "task" /\ calls[v][i].task = Parent(r)
  BY DEF BodyAlive
<1>1. PoolInv /\ OwnersBelow /\ OwnObjects /\ GroupsHeld
  BY DEF ReduceInv, PoolInv
<1>2. PICK t : t = Top(w).task
  OBVIOUS
<1>3. /\ Top(w).fn = "task" /\ t \in Task
      /\ calls[w][1] = Top(w) /\ 1 \in 1..Len(calls[w])
      /\ r = given[t] \/ (Splits(t) /\ r = Right(t))
  BY ONLY <1>1, <1>2, w \in Worker, r \in Touches(w), TouchesFacts
<1>4. CASE r = given[t]
  <2>1. r \in Task
    BY ONLY <1>1, <1>3, <1>4 DEF OwnObjects
  <2>2. PICK j \in 1..Len(calls[w]) : calls[w][j].fn = "task" /\ calls[w][j].task = r /\ Submitted(r)
    BY ONLY <1>1, <1>2, <1>3, <1>4, w \in Worker, OwnerOnStack
  <2>3. Out(r)
    BY <2>2, ActiveMember DEF Out
  <2>4. HasGroup(Parent(r))
    BY <1>1, <2>1, <2>2, <2>3 DEF GroupsHeld
  <2>5. Parent(r) \notin Client
    BY <2>1, SiteUnique, RangeAssumption
  <2>6. \E f \in Active : f.task = Parent(r)
    BY <2>4, <2>5 DEF HasGroup
  <2> QED
    BY <2>6, ActiveMember
<1>5. CASE Splits(t) /\ r = Right(t)
  <2>1. Parent(r) = t
    BY <1>3, <1>5, RightHalf
  <2> QED
    BY ONLY <1>2, <1>3, <2>1, w \in Worker
<1> QED
  BY <1>3, <1>4, <1>5

(* body and join run on an object whose parallel_reduce has not returned.  *)
THEOREM BodyAliveHolds == ReduceSpec => []BodyAlive
BY AliveOfInv, ReduceInvariant, PTL

-----------------------------------------------------------------------------
(* The result.  While a range is being reduced, its object holds nothing   *)
(* before its left half is done and the left half from then on; of all the *)
(* calls on a stack that have the same object, only one is not in its left *)
(* half, and that one is about to change it.                               *)
Open(t) == \E f \in Active : f.task = t
LeftOpen(t) == Splits(t) /\ Open(Left(t))

CallersObject == \A t \in Task : Open(t) /\ ~Submitted(t) => given[t] = given[Parent(t)]

OneHolder ==
  \A t, u \in Task : Open(t) /\ Open(u) /\ t # u /\ given[t] = given[u] => LeftOpen(t) \/ LeftOpen(u)

Object == [blocks : Seq(Task), inits : Nat]

(* x is what parallel_reduce(r) makes of a new object.                     *)
Full(x, r) == x \in Object /\ Covers(x.blocks, r) /\ x.inits = Len(x.blocks)

Unbegun == \A t \in Task : Submitted(t) /\ runs[t] = 0 /\ ~Open(t) => acc[t] = Blank
Finished == \A t \in Task : Submitted(t) /\ runs[t] = 1 => Full(acc[t], t)

HalfWay(f) ==
  /\ f.pos <= 2 => acc[given[f.task]] = Blank
  /\ f.pos > 2 /\ runs[Left(f.task)] = 1 => Full(acc[given[f.task]], Left(f.task))
UnderWay == \A f \in Active : f.at # "release" => HalfWay(f)

Results == acc \in [Task -> Object] /\ Unbegun /\ Finished /\ UnderWay

ResultInv == ReduceInv /\ NoneLost /\ OutsideOnly /\ CallersObject /\ OneHolder /\ Results

-----------------------------------------------------------------------------
LEMMA CoversOne ==
  ASSUME NEW r \in Task, ~Splits(r)
  PROVE  Full(WithBlock(Blank, r), r)
<1>1. WithBlock(Blank, r) = [blocks |-> <<r>>, inits |-> 1]
  BY DEF WithBlock, Blank
<1>2. <<r>> \in Seq(Task) /\ Len(<<r>>) = 1 /\ <<r>>[1] = r /\ <<r>> # <<>>
  OBVIOUS
<1>3. Covers(<<r>>, r)
  <2>1. r \in Ranges
    BY RangeAssumption
  <2>2. \A i \in 1..1 : i = 1
    OBVIOUS
  <2>3. \A i \in 1..1 - 1 : FALSE
    OBVIOUS
  <2> QED
    BY ONLY <1>2, <2>1, <2>2, <2>3, ~Splits(r) DEF Covers
<1> QED
  BY <1>1, <1>2, <1>3 DEF Full, Object

(* The left half's blocks, then the right half's.                          *)
LEMMA CoversJoined ==
  ASSUME NEW r, NEW x, NEW y, Full(x, Left(r)), Full(y, Right(r))
  PROVE  Full(Joined(x, y), r)
<1> DEFINE s == x.blocks
           t == y.blocks
           z == s \o t
<1>1. /\ s \in Seq(Task) /\ t \in Seq(Task) /\ x.inits = Len(s) /\ y.inits = Len(t)
      /\ Covers(s, Left(r)) /\ Covers(t, Right(r))
  BY DEF Full, Object
<1>2. /\ Left(r)[1] = r[1] /\ Left(r)[2] = Middle(r)
      /\ Right(r)[1] = Middle(r) /\ Right(r)[2] = r[2]
  BY DEF Left, Right
<1> HIDE DEF s, t
<1>3. /\ s # <<>> /\ s[1][1] = r[1] /\ s[Len(s)][2] = Middle(r)
      /\ t # <<>> /\ t[1][1] = Middle(r) /\ t[Len(t)][2] = r[2]
  BY ONLY <1>1, <1>2 DEF Covers
<1>4. /\ Len(s) \in Nat \ {0} /\ Len(t) \in Nat \ {0}
      /\ z \in Seq(Task) /\ Len(z) = Len(s) + Len(t)
      /\ \A i \in 1..Len(z) : z[i] = IF i <= Len(s) THEN s[i] ELSE t[i - Len(s)]
  BY ONLY <1>1, <1>3
<1> HIDE DEF z
<1>5. z[1][1] = r[1] /\ z[Len(z)][2] = r[2] /\ z # <<>>
  <2>1. 1 \in 1..Len(z) /\ 1 <= Len(s)
    BY ONLY <1>4
  <2>2. Len(z) \in 1..Len(z) /\ ~(Len(z) <= Len(s)) /\ Len(z) - Len(s) = Len(t)
    BY ONLY <1>4
  <2>3. z[1] = s[1] /\ z[Len(z)] = t[Len(t)]
    BY ONLY <1>4, <2>1, <2>2
  <2> QED
    BY ONLY <1>3, <1>4, <2>3
<1>6. ASSUME NEW i \in 1..Len(z)
      PROVE  z[i] \in Ranges /\ ~Splits(z[i])
  <2>1. CASE i <= Len(s)
    <3>1. i \in 1..Len(s) /\ z[i] = s[i]
      BY ONLY <1>4, <2>1, i \in 1..Len(z)
    <3> QED
      BY ONLY <1>1, <3>1 DEF Covers
  <2>2. CASE ~(i <= Len(s))
    <3>1. i - Len(s) \in 1..Len(t) /\ z[i] = t[i - Len(s)]
      BY ONLY <1>4, <2>2, i \in 1..Len(z)
    <3> QED
      BY ONLY <1>1, <3>1 DEF Covers
  <2> QED
    BY <2>1, <2>2
<1>7. ASSUME NEW i \in 1..Len(z) - 1
      PROVE  z[i][2] = z[i + 1][1]
  <2>1. i \in 1..Len(z) /\ i + 1 \in 1..Len(z)
    BY ONLY <1>4, i \in 1..Len(z) - 1
  <2>2. CASE i < Len(s)
    <3>1. i \in 1..Len(s) - 1 /\ i <= Len(s) /\ i + 1 <= Len(s)
      BY ONLY <1>4, <2>1, <2>2
    <3>2. z[i] = s[i] /\ z[i + 1] = s[i + 1]
      BY ONLY <1>4, <2>1, <3>1
    <3> QED
      BY ONLY <1>1, <3>1, <3>2 DEF Covers
  <2>3. CASE i = Len(s)
    <3>1. i <= Len(s) /\ ~(i + 1 <= Len(s)) /\ i + 1 - Len(s) = 1
      BY ONLY <1>4, <2>3
    <3>2. z[i] = s[Len(s)] /\ z[i + 1] = t[1]
      BY ONLY <1>4, <2>1, <2>3, <3>1
    <3> QED
      BY ONLY <1>3, <3>2
  <2>4. CASE i > Len(s)
    <3>1. PICK j : j = i - Len(s)
      OBVIOUS
    <3>2. j \in 1..Len(t) - 1 /\ ~(i <= Len(s)) /\ ~(i + 1 <= Len(s)) /\ i + 1 - Len(s) = j + 1
      BY ONLY <1>4, <2>4, <3>1, i \in 1..Len(z) - 1
    <3>3. z[i] = t[j]
      BY ONLY <1>4, <2>1, <3>1, <3>2
    <3>4. z[i + 1] = t[j + 1]
      BY ONLY <1>4, <2>1, <3>2
    <3> QED
      BY ONLY <1>1, <3>2, <3>3, <3>4 DEF Covers
  <2> QED
    BY ONLY <1>4, <2>2, <2>3, <2>4, i \in 1..Len(z) - 1
<1>8. Covers(z, r)
  BY ONLY <1>5, <1>6, <1>7 DEF Covers
<1>9. Joined(x, y) = [blocks |-> z, inits |-> Len(z)]
  BY <1>1, <1>4 DEF Joined, s, t, z
<1> QED
  BY ONLY <1>4, <1>8, <1>9 DEF Full, Object

-----------------------------------------------------------------------------
(* The function of a range, step by step.                                  *)
LEMMA Halves ==
  ASSUME NEW r \in Task
  PROVE  /\ ~Splits(r) => Len(Body[r]) = 0
         /\ Splits(r) => /\ Len(Body[r]) = 3
                         /\ Body[r][1].op = "run" /\ Body[r][1].fn = Right(r)
                         /\ Body[r][2].op = "call" /\ Body[r][2].fn = Left(r)
                         /\ Body[r][3].op = "wait"
                         /\ Left(r) \in Task /\ ~Submitted(Left(r))
                         /\ Parent(Left(r)) = r /\ Site[Left(r)][2] = 2
                         /\ Right(r) \in Task /\ Submitted(Right(r))
                         /\ Parent(Right(r)) = r /\ Site[Right(r)][2] = 1
<1>1. Body[r] = IF Splits(r) THEN <<Run(Right(r)), Call(Left(r)), Wait>> ELSE <<>>
  BY RangeAssumption DEF ReduceBody
<1>2. ASSUME ~Splits(r)
      PROVE  Len(Body[r]) = 0
  BY ONLY <1>1, <1>2
<1>3. ASSUME Splits(r)
      PROVE  /\ Len(Body[r]) = 3
             /\ Body[r][1].op = "run" /\ Body[r][1].fn = Right(r)
             /\ Body[r][2].op = "call" /\ Body[r][2].fn = Left(r)
             /\ Body[r][3].op = "wait"
  BY ONLY <1>1, <1>3 DEF Run, Call, Wait
<1>4. ASSUME Splits(r)
      PROVE  /\ Left(r) \in Task /\ ~Submitted(Left(r))
             /\ Parent(Left(r)) = r /\ Site[Left(r)][2] = 2
             /\ Right(r) \in Task /\ Submitted(Right(r))
             /\ Parent(Right(r)) = r /\ Site[Right(r)][2] = 1
  <2>1. 1 \in 1..Len(Body[r]) /\ 2 \in 1..Len(Body[r])
    BY ONLY <1>3, <1>4
  <2>2. Left(r) \in Task /\ Right(r) \in Task
    BY <1>3, <1>4, <2>1, OpsOfBody
  <2>3. Site[Left(r)] = <<r, 2>> /\ Parent(Left(r)) = r /\ Site[Right(r)] = <<r, 1>> /\ Parent(Right(r)) = r
    <3>1. \A p \in Task : \A i \in 1..Len(Body[p]) : \A u \in Task :
            Body[p][i].fn = u => Site[u] = <<p, i>> /\ Parent(u) = p
      BY ONLY SiteUnique
    <3> QED
      BY ONLY <1>3, <1>4, <2>1, <2>2, <3>1, r \in Task
  <2>4. r \notin Client
    BY PoolAssumption
  <2> QED
    BY ONLY <1>3, <1>4, <2>2, <2>3, <2>4 DEF Submitted
<1> QED
  BY ONLY <1>2, <1>3, <1>4

(* Where a function is that has a step to make.                            *)
LEMMA StepOfRange ==
  ASSUME PoolInv, NEW f \in Active, f.pos \in 1..Len(Body[f.task])
  PROVE  /\ f.task \in Task /\ Splits(f.task)
         /\ Body[f.task][f.pos].op = "run" => f.pos = 1 /\ Body[f.task][f.pos].fn = Right(f.task)
         /\ Body[f.task][f.pos].op = "call" => f.pos = 2 /\ Body[f.task][f.pos].fn = Left(f.task)
         /\ Body[f.task][f.pos].op = "wait" => f.pos = 3
<1>1. f.task \in Task
  BY ActiveFrames DEF PoolInv
<1>2. Splits(f.task)
  <2>1. CASE ~Splits(f.task)
    <3>1. Len(Body[f.task]) = 0
      BY <1>1, <2>1, Halves
    <3> QED
      BY ONLY <3>1, f.pos \in 1..Len(Body[f.task])
  <2> QED
    BY <2>1
<1>3. /\ Len(Body[f.task]) = 3
      /\ Body[f.task][1].op = "run" /\ Body[f.task][1].fn = Right(f.task)
      /\ Body[f.task][2].op = "call" /\ Body[f.task][2].fn = Left(f.task)
      /\ Body[f.task][3].op = "wait"
  BY ONLY <1>1, <1>2, Halves
<1>4. f.pos = 1 \/ f.pos = 2 \/ f.pos = 3
  BY ONLY <1>3, f.pos \in 1..Len(Body[f.task])
<1> QED
  BY ONLY <1>1, <1>2, <1>3, <1>4

(* A left half on a stack has been called and not returned from.           *)
LEMMA LeftOpenFacts ==
  ASSUME PoolInv, NEW f \in Active, LeftOpen(f.task)
  PROVE  f.pos > 2 /\ runs[Left(f.task)] = 0
<1> DEFINE r == f.task
           u == Left(r)
<1>1. Shape /\ OnceOnStacks /\ Lifecycle
  BY DEF PoolInv
<1>2. r \in Task /\ Splits(r) /\ Open(u)
  BY <1>1, ActiveFrames DEF LeftOpen
<1>3. u \in Task /\ ~Submitted(u) /\ Parent(u) = r /\ Site[u][2] = 2 /\ Len(Body[r]) = 3
  BY ONLY <1>2, Halves
<1>4. r \notin Client
  BY <1>2, PoolAssumption
<1>5. f.pos \in Nat /\ (f.at = "release" => f.pos > 3)
  BY <1>1, <1>3, ActiveFrames DEF Frame
<1> HIDE DEF u, r
<1>6. runs[u] = 0
  <2>1. PICK h \in Active : h.task = u
    BY <1>2 DEF Open
  <2>2. h.at # "release"
    BY <1>1, <1>3, <2>1, ActiveFrames
  <2> QED
    BY ONLY <1>1, <2>1, <2>2 DEF Lifecycle
<1>7. Past(u)
  BY ONLY <1>1, <1>2, <1>3 DEF Lifecycle, Out, Open
<1>8. CASE runs[r] = 1
  <2>1. f.at = "release"
    BY <1>1, <1>8 DEF Lifecycle, r
  <2> QED
    BY <1>5, <1>6, <2>1 DEF u, r
<1>9. CASE \E g \in Active : g.task = r /\ g.pos > 2
  <2>1. PICK g \in Active : g.task = r /\ g.pos > 2
    BY <1>9
  <2>2. g = f
    BY <1>1, <2>1, OneFrame DEF r
  <2> QED
    BY <1>6, <2>1, <2>2 DEF u, r
<1> QED
  BY ONLY <1>3, <1>4, <1>7, <1>8, <1>9 DEF Past

(* The innermost function of a stack is not in its left half.              *)
LEMMA TopNotInLeft ==
  ASSUME PoolInv, OwnersBelow, NEW w \in Worker, Top(w).fn = "task"
  PROVE  ~LeftOpen(Top(w).task)
<1> SUFFICES ASSUME LeftOpen(Top(w).task) PROVE FALSE
  OBVIOUS
<1>1. Shape /\ OnceOnStacks
  BY DEF PoolInv
<1>2. PICK r, u : r = Top(w).task /\ u = Left(r)
  OBVIOUS
<1>3. r \in Task /\ Splits(r) /\ Open(u)
  BY <1>1, <1>2, TopFacts, ActiveFrames DEF LeftOpen
<1>4. ~Submitted(u) /\ Parent(u) = r
  BY <1>2, <1>3, Halves
<1>5. PICK v \in Worker : \E j \in 1..Len(calls[v]) : calls[v][j].fn = "task" /\ calls[v][j].task = u
  BY ONLY <1>3, ActiveMember DEF Open
<1>6. PICK j \in 1..Len(calls[v]) : calls[v][j].fn = "task" /\ calls[v][j].task = u
  BY <1>5
<1>7. calls[v][j + 1].fn = "task" /\ calls[v][j + 1].task = r
  BY ONLY <1>4, <1>6, OwnersBelow, v \in Worker DEF OwnersBelow, CallerBelow
<1>8. j + 1 \in 1..Len(calls[v]) /\ j + 1 # 1
  <2>1. j # Len(calls[v]) /\ Len(calls[v]) \in Nat
    BY <1>1, <1>6 DEF Shape, FrameOK
  <2> QED
    BY ONLY <2>1, j \in 1..Len(calls[v])
<1> QED
  BY <1>1, <1>2, <1>7, <1>8, PlaceOfTop

(* The object of a range that is on a stack is that of a run range that is *)
(* on a stack.                                                             *)
LEMMA OwnerOpen ==
  ASSUME OwnObjects, OwnersBelow, NEW t \in Task, Open(t)
  PROVE  given[t] \in Task /\ Submitted(given[t]) /\ Open(given[t])
<1>1. PICK w \in Worker : \E i \in 1..Len(calls[w]) : calls[w][i].fn = "task" /\ calls[w][i].task = t
  BY ActiveMember DEF Open
<1>2. PICK i \in 1..Len(calls[w]) : calls[w][i].fn = "task" /\ calls[w][i].task = t
  BY <1>1
<1>3. OwnerBelow(w, i, given[t])
  BY ONLY <1>2, OwnersBelow, w \in Worker DEF OwnersBelow
<1>4. PICK j \in i..Len(calls[w]) :
        calls[w][j].fn = "task" /\ calls[w][j].task = given[t] /\ Submitted(given[t])
  BY <1>3 DEF OwnerBelow
<1>5. j \in 1..Len(calls[w])
  BY ONLY i \in 1..Len(calls[w]), j \in i..Len(calls[w])
<1> QED
  BY <1>4, <1>5, ActiveMember DEF OwnObjects, Open

(* A right half is nowhere when its range's function is at its end.        *)
LEMMA RightHalfDone ==
  ASSUME PoolInv, NEW f \in Active, Splits(f.task), f.pos > Len(Body[f.task])
  PROVE  ~Out(Right(f.task))
<1> SUFFICES ASSUME Out(Right(f.task)) PROVE FALSE
  OBVIOUS
<1>1. Shape /\ OnceOnStacks /\ GroupsHeld
  BY DEF PoolInv
<1>2. PICK r, u : r = f.task /\ u = Right(r)
  OBVIOUS
<1>3. r \in Task /\ f.pos \in Nat /\ Len(Body[r]) \in Nat /\ r \notin Client
  BY <1>1, <1>2, ActiveFrames, OpsOfBody, PoolAssumption DEF Frame
<1>4. u \in Task /\ Submitted(u) /\ Parent(u) = r
  BY <1>2, <1>3, Halves
<1>5. HasGroup(r)
  BY ONLY <1>1, <1>2, <1>4, Out(Right(f.task)) DEF GroupsHeld
<1>6. PICK g \in Active : g.task = r /\ \E j \in g.pos..Len(Body[r]) : TRUE
  BY ONLY <1>3, <1>5 DEF HasGroup
<1>7. g = f
  BY <1>1, <1>2, <1>6, OneFrame
<1> QED
  BY ONLY <1>2, <1>3, <1>6, <1>7, f.pos > Len(Body[f.task])

(* Both halves have been reduced when a range's function is at its end.    *)
LEMMA HalvesDone ==
  ASSUME PoolInv, NoneLost, NEW f \in Active, f.pos > Len(Body[f.task]),
         Splits(f.task), ~LeftOpen(f.task)
  PROVE  f.pos > 2 /\ runs[Left(f.task)] = 1 /\ runs[Right(f.task)] = 1
<1>1. Shape /\ Lifecycle
  BY DEF PoolInv
<1>2. PICK r : r = f.task
  OBVIOUS
<1>3. r \in Task /\ f.pos \in Nat /\ Splits(r)
  BY <1>1, <1>2, ActiveFrames DEF Frame
<1>4. /\ Len(Body[r]) = 3
      /\ Left(r) \in Task /\ ~Submitted(Left(r)) /\ Parent(Left(r)) = r /\ Site[Left(r)][2] = 2
      /\ Right(r) \in Task /\ Parent(Right(r)) = r /\ Site[Right(r)][2] = 1
  BY ONLY <1>3, Halves
<1>5. f.pos > 2 /\ f.pos > 1
  BY ONLY <1>2, <1>3, <1>4, f.pos > Len(Body[f.task])
<1>6. Past(Left(r)) /\ Past(Right(r))
  BY ONLY <1>2, <1>4, <1>5 DEF Past
<1>7. ~Out(Left(r))
  BY ONLY <1>1, <1>2, <1>3, <1>4, ~LeftOpen(f.task) DEF LeftOpen, Open, Out, Lifecycle
<1>8. ~Out(Right(r))
  BY <1>2, RightHalfDone
<1> QED
  <2>1. ~Handed(Left(r)) /\ ~Handed(Right(r))
    BY ONLY <1>3, <1>4, PoolAssumption DEF Handed
  <2> QED
    BY ONLY <1>2, <1>4, <1>5, <1>6, <1>7, <1>8, <2>1, NoneLost DEF NoneLost

-----------------------------------------------------------------------------
(* What the steps do to the objects.                                       *)
LEMMA HalfKept ==
  ASSUME NEW k, NEW h, h.task = k.task, h.pos <= 2 => k.pos <= 2, h.pos > 2 => k.pos > 2,
         HalfWay(k), given'[k.task] = given[k.task],
         acc'[given[k.task]] = acc[given[k.task]],
         h.pos > 2 => runs'[Left(k.task)] = runs[Left(k.task)]
  PROVE  HalfWay(h)'
BY DEF HalfWay, Full, Covers, Left, Middle, Ranges, Object, Right, Splits

(* Nothing moves, ...                                                      *)
LEMMA ResultsAtRest ==
  ASSUME CallersObject, OneHolder, Results, Active' = Active, runs' = runs,
         acc' = acc, given' = given
  PROVE  (CallersObject /\ OneHolder /\ Results)'
<1>1. \A t : Open(t)' <=> Open(t)
  BY Active' = Active DEF Open
<1>2. CallersObject'
  BY ONLY <1>1, CallersObject, given' = given DEF CallersObject, Submitted, Parent
<1>3. OneHolder'
  BY ONLY <1>1, OneHolder, given' = given DEF OneHolder, LeftOpen
<1>4. Unbegun' /\ Finished'
  BY ONLY <1>1, Results, runs' = runs, acc' = acc
     DEF Results, Unbegun, Finished, Full, Submitted, Parent
<1>5. UnderWay'
  BY ONLY Results, Active' = Active, runs' = runs, acc' = acc, given' = given
     DEF Results, UnderWay, HalfWay, Full
<1> QED
  BY ONLY <1>2, <1>3, <1>4, <1>5, Results, acc' = acc DEF Results

(* ... or a function goes on, making a new object at most, ...             *)
LEMMA ResultsMoving ==
  ASSUME PoolInv, OwnObjects, OwnersBelow, CallersObject, OneHolder, Results,
         NEW f, NEW g, Becomes(f, g), f.at # "release",
         g.pos <= 2 => f.pos <= 2, g.pos > 2 => f.pos > 2,
         runs' = runs, given' = given, acc' \in [Task -> Object],
         \A t \in Task : acc'[t] = acc[t] \/ (acc'[t] = Blank /\ runs[t] = 0 /\ ~Open(t))
  PROVE  (CallersObject /\ OneHolder /\ Results)'
<1>1. Shape /\ OnceOnStacks
  BY DEF PoolInv
<1>2. /\ \A t : Open(t)' <=> Open(t)
      /\ f \in Active /\ g.task = f.task /\ Active' = (Active \ {f}) \cup {g}
  BY <1>1, BecomesFacts DEF Open, Becomes
<1>3. CallersObject'
  BY ONLY <1>2, CallersObject, given' = given DEF CallersObject, Submitted, Parent
<1>4. OneHolder'
  BY ONLY <1>2, OneHolder, given' = given DEF OneHolder, LeftOpen
<1>5. Unbegun'
  BY ONLY <1>2, Results, runs' = runs,
          \A t \in Task : acc'[t] = acc[t] \/ (acc'[t] = Blank /\ runs[t] = 0 /\ ~Open(t))
     DEF Results, Unbegun, Submitted, Parent, Blank
<1>6. Finished'
  <2>1. ASSUME NEW t \in Task, Submitted(t)', runs'[t] = 1
        PROVE  Full(acc'[t], t)
    <3>1. acc'[t] = acc[t]
      BY <2>1
    <3> QED
      BY ONLY <2>1, <3>1, Results, runs' = runs DEF Results, Finished, Submitted, Parent
  <2> QED
    BY ONLY <2>1 DEF Finished, Full, Covers
<1>7. UnderWay'
  <2>1. ASSUME NEW h \in Active', h.at # "release"
        PROVE  HalfWay(h)'
    <3>1. PICK k \in Active : /\ h.task = k.task /\ k.at # "release"
                              /\ h.pos <= 2 => k.pos <= 2
                              /\ h.pos > 2 => k.pos > 2
      <4>1. CASE h = g
        BY ONLY <1>2, <4>1, f.at # "release", g.pos <= 2 => f.pos <= 2, g.pos > 2 => f.pos > 2
      <4>2. CASE h # g
        <5>1. h \in Active
          BY ONLY <1>2, <2>1, <4>2
        <5> QED
          BY ONLY <2>1, <5>1
      <4> QED
        BY <4>1, <4>2
    <3>2. given[k.task] \in Task /\ Open(given[k.task])
      <4>1. k.task \in Task /\ Open(k.task)
        BY <1>1, ActiveFrames DEF Open
      <4> QED
        BY ONLY <4>1, OwnObjects, OwnersBelow, OwnerOpen
    <3>3. acc'[given[k.task]] = acc[given[k.task]]
      BY ONLY <3>2, \A t \in Task : acc'[t] = acc[t] \/ (acc'[t] = Blank /\ runs[t] = 0 /\ ~Open(t))
    <3>4. HalfWay(k)
      BY ONLY <3>1, Results DEF Results, UnderWay
    <3> QED
      BY ONLY <3>1, <3>3, <3>4, runs' = runs, given' = given, HalfKept
  <2> QED
    BY ONLY <2>1 DEF UnderWay
<1> QED
  BY ONLY <1>3, <1>4, <1>5, <1>6, <1>7, acc' \in [Task -> Object] DEF Results, Object

(* ... or a call makes its range share its caller's object, ...            *)
LEMMA ResultsInCall ==
  ASSUME PoolInv, OwnObjects, OwnersBelow, CallersObject, OneHolder, Results,
         NEW f, NEW g, NEW n, CallMove(f, g, n), acc' = acc,
         given' = [given EXCEPT ![n.task] = given[f.task]]
  PROVE  (CallersObject /\ OneHolder /\ Results)'
<1>1. Shape /\ OnceInDeques /\ OnceOnStacks /\ Lifecycle
  BY DEF PoolInv
<1>2. PICK r, u : r = f.task /\ u = n.task
  OBVIOUS
<1>3. /\ f \in Active /\ f.at = "body" /\ g.task = r /\ g.pos = f.pos + 1
      /\ f.pos \in 1..Len(Body[r]) /\ Body[r][f.pos].op = "call" /\ u = Body[r][f.pos].fn
      /\ n.task = u /\ n.pos = 1
      /\ Active' = (Active \ {f}) \cup {n, g} /\ runs' = runs
      /\ given' = [given EXCEPT ![u] = given[r]]
  BY ONLY <1>2, CallMove(f, g, n), given' = [given EXCEPT ![n.task] = given[f.task]] DEF CallMove
<1>4. /\ r \in Task /\ Splits(r) /\ f.pos = 2 /\ u = Left(r)
      /\ g.pos = 3
  <2>1. r \in Task /\ Splits(r) /\ f.pos = 2 /\ Body[r][f.pos].fn = Left(r)
    BY ONLY <1>2, <1>3, PoolInv, StepOfRange
  <2> QED
    BY ONLY <1>3, <2>1
<1>5. u \in Task /\ ~Submitted(u) /\ Parent(u) = r
  BY ONLY <1>4, Halves
<1>6. ~Out(u) /\ runs[u] = 0 /\ u # r
  <2>1. f.pos <= Len(Body[f.task]) /\ f.at \in {"body", "push"} /\ Body[f.task][f.pos].op \in {"run", "call"}
        /\ u = Body[f.task][f.pos].fn
    BY <1>2, <1>3
  <2> QED
    BY ONLY <1>1, <1>2, <1>3, <2>1, Future
<1>7. ~Open(u) /\ Open(r)
  BY ONLY <1>2, <1>3, <1>6 DEF Open, Out
<1>8. \A t : Open(t)' <=> Open(t) \/ t = u
  BY ONLY <1>2, <1>3 DEF Open
<1>9. given \in [Task -> Task] /\ given'[u] = given[r] /\ \A t \in Task : t # u => given'[t] = given[t]
  BY ONLY <1>3, <1>5, OwnObjects DEF OwnObjects
<1>10. CallersObject'
  <2>1. ASSUME NEW t \in Task, Open(t)', ~Submitted(t)
        PROVE  given'[t] = given'[Parent(t)]
    <3>1. CASE t = u
      BY ONLY <1>4, <1>5, <1>6, <1>9, <3>1
    <3>2. CASE t # u
      <4>1. Open(t) /\ Past(t) /\ given[t] = given[Parent(t)]
        BY ONLY <1>1, <1>8, <2>1, <3>2, CallersObject DEF CallersObject, Lifecycle, Out, Open
      <4>2. Parent(t) # u
        BY ONLY <1>5, <1>6, <1>7, <4>1, PoolAssumption DEF Past, Open
      <4>3. Parent(t) \in Task
        BY <2>1, SiteUnique DEF Submitted
      <4> QED
        BY ONLY <1>9, <3>2, <4>1, <4>2, <4>3
    <3> QED
      BY <3>1, <3>2
  <2> QED
    BY ONLY <2>1 DEF CallersObject, Submitted, Parent
<1>11. OneHolder'
  <2>1. \A t : LeftOpen(t) => LeftOpen(t)'
    BY ONLY <1>8 DEF LeftOpen
  <2>2. LeftOpen(r)' /\ ~LeftOpen(r)
    BY ONLY <1>4, <1>7, <1>8 DEF LeftOpen
  <2>3. ASSUME NEW t \in Task, Open(t), t # u, given'[t] = given'[u]
        PROVE  LeftOpen(t)'
    <3>1. CASE t = r
      BY ONLY <2>2, <3>1
    <3>2. CASE t # r
      <4>1. given[t] = given[r]
        BY ONLY <1>9, <2>3
      <4> QED
        BY ONLY <1>4, <1>7, <2>1, <2>2, <2>3, <3>2, <4>1, OneHolder DEF OneHolder
    <3> QED
      BY <3>1, <3>2
  <2>4. ASSUME NEW t \in Task, NEW v \in Task, Open(t)', Open(v)', t # v, given'[t] = given'[v]
        PROVE  LeftOpen(t)' \/ LeftOpen(v)'
    <3>1. CASE t = u
      BY ONLY <1>8, <2>3, <2>4, <3>1
    <3>2. CASE v = u
      BY ONLY <1>8, <2>3, <2>4, <3>2
    <3>3. CASE t # u /\ v # u
      BY ONLY <1>8, <1>9, <2>1, <2>4, <3>3, OneHolder DEF OneHolder
    <3> QED
      BY <3>1, <3>2, <3>3
  <2> QED
    BY ONLY <2>4 DEF OneHolder
<1>12. Unbegun' /\ Finished'
  BY ONLY <1>3, <1>8, Results, acc' = acc
     DEF Results, Unbegun, Finished, Full, Submitted, Parent
<1>13. UnderWay'
  <2>1. ASSUME NEW h \in Active', h.at # "release"
        PROVE  HalfWay(h)'
    <3>1. HalfWay(f)
      BY ONLY <1>3, Results DEF Results, UnderWay
    <3>2. CASE h = n
      <4>1. acc[given[r]] = Blank
        BY ONLY <1>2, <1>4, <3>1 DEF HalfWay
      <4>2. h.task = u /\ ~(h.pos > 2)
        BY ONLY <1>3, <3>2
      <4> QED
        BY ONLY <1>9, <4>1, <4>2, acc' = acc DEF HalfWay, Blank
    <3>3. CASE h = g
      <4>1. runs'[Left(h.task)] # 1 /\ ~(h.pos <= 2)
        BY ONLY <1>3, <1>4, <1>6, <3>3
      <4> QED
        BY ONLY <4>1 DEF HalfWay, Left, Middle
    <3>4. CASE h # n /\ h # g
      <4>1. h \in Active
        BY ONLY <1>3, <2>1, <3>4
      <4>2. HalfWay(h)
        BY ONLY <2>1, <4>1, Results DEF Results, UnderWay
      <4>3. h.task \in Task /\ h.task # u
        BY <1>1, <1>7, <4>1, ActiveFrames DEF Open
      <4> QED
        BY ONLY <1>3, <1>9, <4>2, <4>3, acc' = acc, HalfKept
    <3> QED
      BY <3>2, <3>3, <3>4
  <2> QED
    BY ONLY <2>1 DEF UnderWay
<1> QED
  BY ONLY <1>10, <1>11, <1>12, <1>13, Results, acc' = acc DEF Results, Object

(* ... or a functor is taken, whose range has a new object, ...            *)
LEMMA ResultsInTake ==
  ASSUME PoolInv, OwnObjects, OwnersBelow, CallersObject, OneHolder, Results,
         NEW n, TakeMove(n), acc' = acc, given' = given
  PROVE  (CallersObject /\ OneHolder /\ Results)'
<1>1. Shape /\ Lifecycle /\ Types
  BY DEF PoolInv
<1>2. PICK u : u = n.task
  OBVIOUS
<1>3. u \in Pooled /\ Submitted(u) /\ n.pos = 1 /\ Active' = Active \cup {n} /\ runs' = runs
  BY ONLY <1>2, TakeMove(n) DEF TakeMove
<1>4. u \in Task
  <2>1. PICK w \in Worker : \E i \in 1..Len(queue[w]) : queue[w][i] = u
    BY ONLY <1>3, PooledMember
  <2>2. queue[w] \in Seq(Task)
    BY <1>1 DEF Types
  <2> QED
    BY ONLY <2>1, <2>2
<1>5. runs[u] = 0 /\ ~Open(u)
  BY ONLY <1>1, <1>3 DEF Lifecycle, Open
<1>6. given[u] = u /\ acc[u] = Blank
  BY ONLY <1>3, <1>4, <1>5, OwnObjects, Results DEF OwnObjects, Results, Unbegun
<1>7. \A t : Open(t)' <=> Open(t) \/ t = u
  BY ONLY <1>2, <1>3 DEF Open
<1>8. CallersObject'
  BY ONLY <1>3, <1>7, CallersObject, given' = given DEF CallersObject, Submitted, Parent
<1>9. OneHolder'
  <2>1. ASSUME NEW t \in Task, Open(t)
        PROVE  given[t] # u
    BY <1>5, <2>1, OwnerOpen
  <2>2. \A t : LeftOpen(t) => LeftOpen(t)'
    BY ONLY <1>7 DEF LeftOpen
  <2>3. ASSUME NEW t \in Task, NEW v \in Task, Open(t)', Open(v)', t # v, given'[t] = given'[v]
        PROVE  LeftOpen(t)' \/ LeftOpen(v)'
    <3>1. t # u /\ v # u
      BY ONLY <1>6, <1>7, <2>1, <2>3, given' = given
    <3> QED
      BY ONLY <1>7, <2>2, <2>3, <3>1, OneHolder, given' = given DEF OneHolder
  <2> QED
    BY ONLY <2>3 DEF OneHolder
<1>10. Unbegun' /\ Finished'
  BY ONLY <1>3, <1>7, Results, acc' = acc
     DEF Results, Unbegun, Finished, Full, Submitted, Parent
<1>11. UnderWay'
  <2>1. ASSUME NEW h \in Active', h.at # "release"
        PROVE  HalfWay(h)'
    <3>1. CASE h = n
      <4>1. h.task = u /\ ~(h.pos > 2)
        BY ONLY <1>2, <1>3, <3>1
      <4> QED
        BY ONLY <1>6, <4>1, acc' = acc, given' = given DEF HalfWay, Blank
    <3>2. CASE h # n
      <4>1. HalfWay(h)
        BY ONLY <1>3, <2>1, <3>2, Results DEF Results, UnderWay
      <4> QED
        BY ONLY <1>3, <4>1, acc' = acc, given' = given, HalfKept
    <3> QED
      BY <3>1, <3>2
  <2> QED
    BY ONLY <2>1 DEF UnderWay
<1> QED
  BY ONLY <1>8, <1>9, <1>10, <1>11, Results, acc' = acc DEF Results, Object

(* ... or dropped, whose range has been reduced, ...                       *)
LEMMA ResultsInDrop ==
  ASSUME PoolInv, CallersObject, OneHolder, Results,
         NEW f, DropMove(f), acc' = acc, given' = given
  PROVE  (CallersObject /\ OneHolder /\ Results)'
<1>1. Shape /\ OnceOnStacks /\ Lifecycle
  BY DEF PoolInv
<1>2. PICK r : r = f.task
  OBVIOUS
<1>3. f \in Active /\ f.at = "release" /\ Active' = Active \ {f} /\ runs' = runs
  BY DEF DropMove
<1>4. r \in Task /\ Submitted(r) /\ runs[r] = 1
  BY <1>1, <1>2, <1>3, ActiveFrames DEF Lifecycle
<1>5. \A t : Open(t)' <=> Open(t) /\ t # r
  <2>1. \A h \in Active : h.task = r => h = f
    BY <1>1, <1>2, <1>3, OneFrame
  <2> QED
    BY ONLY <1>2, <1>3, <2>1 DEF Open
<1>6. CallersObject'
  BY ONLY <1>5, CallersObject, given' = given DEF CallersObject, Submitted, Parent
<1>7. OneHolder'
  <2>1. \A t \in Task : LeftOpen(t) => LeftOpen(t)'
    <3>1. ASSUME NEW t \in Task, LeftOpen(t)
          PROVE  LeftOpen(t)'
      <4>1. Splits(t) /\ Open(Left(t)) /\ ~Submitted(Left(t))
        BY <3>1, Halves DEF LeftOpen
      <4>2. Left(t) # r
        BY ONLY <1>4, <4>1
      <4> QED
        BY ONLY <1>5, <4>1, <4>2 DEF LeftOpen
    <3> QED
      BY ONLY <3>1
  <2> QED
    BY ONLY <1>5, <2>1, OneHolder, given' = given DEF OneHolder
<1>8. Unbegun' /\ Finished'
  <2>1. \A t : runs[t] = 0 => t # r
    BY ONLY <1>4
  <2> QED
    BY ONLY <1>3, <1>5, <2>1, Results, acc' = acc
       DEF Results, Unbegun, Finished, Full, Submitted, Parent
<1>9. UnderWay'
  BY ONLY <1>3, Results, acc' = acc, given' = given
     DEF Results, UnderWay, HalfWay, Full
<1> QED
  BY ONLY <1>6, <1>7, <1>8, <1>9, Results, acc' = acc DEF Results, Object

(* ... or a range's function returns: its object holds the whole range,    *)
LEMMA ReducedWhole ==
  ASSUME PoolInv, OwnObjects, NoneLost, Results, NEW f \in Active, f.at = "body",
         f.pos > Len(Body[f.task]), ~LeftOpen(f.task), Reduce(f.task)
  PROVE  Full(acc'[given[f.task]], f.task)
<1>1. Shape
  BY DEF PoolInv
<1>2. PICK r, g : r = f.task /\ g = given[r]
  OBVIOUS
<1>3. r \in Task /\ f.pos \in 1..Len(Body[r]) + 1
  BY <1>1, <1>2, ActiveFrames
<1>4. g \in Task
  BY ONLY <1>2, <1>3, OwnObjects DEF OwnObjects
<1>5. acc'[g] = IF Splits(r) THEN Joined(acc[g], acc[Right(r)]) ELSE WithBlock(acc[g], r)
  <2>1. acc' = [acc EXCEPT ![g] = IF Splits(r) THEN Joined(@, acc[Right(r)]) ELSE WithBlock(@, r)]
    BY <1>2 DEF Reduce
  <2> QED
    BY ONLY <1>4, <2>1, Results DEF Results
<1>6. HalfWay(f)
  BY ONLY f \in Active, f.at = "body", Results DEF Results, UnderWay
<1>7. CASE Splits(r)
  <2>1. f.pos > 2 /\ runs[Left(r)] = 1 /\ runs[Right(r)] = 1
    BY <1>2, <1>7, HalvesDone
  <2>2. Full(acc[g], Left(r))
    BY ONLY <1>2, <1>6, <2>1 DEF HalfWay
  <2>3. Right(r) \in Task /\ Submitted(Right(r))
    BY <1>3, <1>7, Halves
  <2>4. Full(acc[Right(r)], Right(r))
    BY ONLY <2>1, <2>3, Results DEF Results, Finished
  <2>5. Full(Joined(acc[g], acc[Right(r)]), r)
    BY ONLY <2>2, <2>4, CoversJoined
  <2> QED
    BY ONLY <1>2, <1>5, <1>7, <2>5
<1>8. CASE ~Splits(r)
  <2>1. Len(Body[r]) = 0
    BY ONLY <1>3, <1>8, Halves
  <2>2. f.pos <= 2
    BY ONLY <1>3, <2>1
  <2>3. acc[g] = Blank
    BY ONLY <1>2, <1>6, <2>2 DEF HalfWay
  <2>4. Full(WithBlock(Blank, r), r)
    BY ONLY <1>3, <1>8, CoversOne
  <2> QED
    BY ONLY <1>2, <1>5, <1>8, <2>3, <2>4
<1> QED
  BY <1>7, <1>8

(* the other objects stay as they are,                                     *)
LEMMA OnlyOneReduced ==
  ASSUME OwnObjects, Results, NEW r \in Task, Reduce(r)
  PROVE  given' = given /\ given[r] \in Task /\ \A t \in Task : t # given[r] => acc'[t] = acc[t]
<1>1. given' = given /\ given[r] \in Task
  BY DEF Reduce, OwnObjects
<1>2. PICK g, x : g = given[r] /\ acc' = [acc EXCEPT ![g] = x]
  BY DEF Reduce
<1> QED
  BY ONLY <1>1, <1>2, Results DEF Results

(* and no finished range is still to be worked on.                         *)
LEMMA OwnerUnfinished ==
  ASSUME PoolInv, OwnObjects, OwnersBelow, NEW w \in Worker, Top(w).fn = "task", Top(w).at = "body",
         given[Top(w).task] # Top(w).task
  PROVE  runs[given[Top(w).task]] # 1
<1> SUFFICES ASSUME runs[given[Top(w).task]] = 1 PROVE FALSE
  OBVIOUS
<1>1. Shape /\ Lifecycle
  BY DEF PoolInv
<1>2. PICK g : g = given[Top(w).task]
  OBVIOUS
<1>3. 1 \in 1..Len(calls[w]) /\ calls[w][1] = Top(w)
  BY <1>1, TopFacts DEF Top
<1>4. PICK j \in 1..Len(calls[w]) : calls[w][j].fn = "task" /\ calls[w][j].task = g
  BY <1>2, <1>3, OwnerOnStack
<1>5. calls[w][j] \in Active
  BY ONLY <1>4, w \in Worker, ActiveMember
<1>6. calls[w][j].at = "release"
  BY ONLY <1>1, <1>2, <1>4, <1>5, runs[given[Top(w).task]] = 1 DEF Lifecycle
<1>7. j = 1
  BY ONLY <1>1, <1>4, <1>6, w \in Worker DEF Shape, Nested
<1> QED
  BY ONLY <1>2, <1>3, <1>4, <1>7, given[Top(w).task] # Top(w).task

LEMMA ResultsInReturn ==
  ASSUME PoolInv, OwnObjects, OwnersBelow, NoneLost, CallersObject, OneHolder, Results,
         NEW w \in Worker, FnReturn(w), Reduce(Top(w).task)
  PROVE  (CallersObject /\ OneHolder /\ Results)'
<1>1. Shape /\ OnceOnStacks /\ Lifecycle /\ Types
  BY DEF PoolInv
<1>2. PICK f, r, o : f = Top(w) /\ r = f.task /\ o = given[r]
  OBVIOUS
<1>3. ReturnMove(f)
  BY <1>2, ReturnEffect
<1>4. /\ f \in Active /\ f.at = "body" /\ f.fn = "task" /\ r \in Task /\ Open(r)
      /\ f.pos > Len(Body[r]) /\ runs[r] = 0
  BY <1>1, <1>2, <1>3, ActiveFrames DEF ReturnMove, Open
<1>5. runs'[r] = 1 /\ \A t \in Task : t # r => runs'[t] = runs[t]
  BY ONLY <1>1, <1>2, <1>3, <1>4 DEF ReturnMove, Types
<1>6. PICK g : \/ Submitted(r) /\ g.task = r /\ g.at = "release" /\ Active' = (Active \ {f}) \cup {g}
               \/ ~Submitted(r) /\ Active' = Active \ {f}
  BY ONLY <1>2, <1>3 DEF ReturnMove, Becomes
<1>7. \A h \in Active : h.task = r => h = f
  BY <1>1, <1>2, <1>4, OneFrame
<1>8. \A t : Open(t)' <=> Open(t) /\ (t = r => Submitted(r))
  BY ONLY <1>2, <1>4, <1>6, <1>7 DEF Open
<1>9. ~LeftOpen(r)
  BY <1>2, <1>4, TopNotInLeft
<1>10. Full(acc'[o], r)
  BY <1>2, <1>4, <1>9, ReducedWhole
<1>11. given' = given /\ o \in Task /\ \A t \in Task : t # o => acc'[t] = acc[t]
  BY <1>2, <1>4, OnlyOneReduced
<1>12. Submitted(o) /\ Open(o)
  BY <1>2, <1>4, OwnerOpen
<1>13. CallersObject'
  BY ONLY <1>8, <1>11, CallersObject DEF CallersObject, Submitted, Parent
<1>14. OneHolder'
  <2>1. ASSUME NEW t \in Task, NEW u \in Task, Open(t)', Open(u)', t # u, given[t] = given[u], LeftOpen(t)
        PROVE  LeftOpen(t)' \/ LeftOpen(u)'
    <3>1. Splits(t) /\ Open(Left(t)) /\ Open(t) /\ Open(u)
      BY ONLY <1>8, <2>1 DEF LeftOpen
    <3>2. ~Submitted(Left(t)) /\ Parent(Left(t)) = t
      BY ONLY <2>1, <3>1, Halves
    <3>3. CASE Left(t) # r
      BY ONLY <1>8, <3>1, <3>3 DEF LeftOpen
    <3>4. CASE Left(t) = r
      <4>1. given[r] = given[u]
        BY ONLY <1>4, <2>1, <3>1, <3>2, <3>4, CallersObject DEF CallersObject
      <4>2. u # r
        BY ONLY <1>8, <2>1, <3>2, <3>4
      <4>3. LeftOpen(u)
        BY ONLY <1>4, <1>9, <2>1, <3>1, <4>1, <4>2, OneHolder DEF OneHolder
      <4>4. Splits(u) /\ Open(Left(u)) /\ Parent(Left(u)) = u
        BY ONLY <2>1, <4>3, Halves DEF LeftOpen
      <4>5. Left(u) # r
        BY ONLY <2>1, <3>2, <3>4, <4>4
      <4> QED
        BY ONLY <1>8, <4>4, <4>5 DEF LeftOpen
    <3> QED
      BY <3>3, <3>4
  <2>2. ASSUME NEW t \in Task, NEW u \in Task, Open(t)', Open(u)', t # u, given[t] = given[u]
        PROVE  LeftOpen(t)' \/ LeftOpen(u)'
    <3>1. LeftOpen(t) \/ LeftOpen(u)
      BY ONLY <1>8, <2>2, OneHolder DEF OneHolder
    <3>2. u # t /\ given[u] = given[t]
      BY ONLY <2>2
    <3> QED
      BY ONLY <2>1, <2>2, <3>1, <3>2
  <2> QED
    BY ONLY <1>11, <2>2 DEF OneHolder
<1>15. Unbegun'
  <2>1. ASSUME NEW t \in Task, Submitted(t), runs'[t] = 0, ~Open(t)'
        PROVE  acc'[t] = Blank
    <3>1. t # r
      BY ONLY <1>5, <2>1
    <3>2. runs[t] = 0 /\ ~Open(t)
      BY ONLY <1>5, <1>8, <2>1, <3>1
    <3>3. t # o
      BY ONLY <1>12, <3>2
    <3> QED
      BY ONLY <1>11, <2>1, <3>2, <3>3, Results DEF Results, Unbegun
  <2> QED
    BY ONLY <2>1 DEF Unbegun, Submitted, Parent, Blank
<1>16. Finished'
  <2>1. ASSUME NEW t \in Task, Submitted(t), runs'[t] = 1
        PROVE  Full(acc'[t], t)
    <3>1. CASE t = r
      <4>1. o = r
        BY ONLY <1>2, <1>4, <2>1, <3>1, OwnObjects DEF OwnObjects
      <4> QED
        BY ONLY <1>10, <3>1, <4>1
    <3>2. CASE t # r
      <4>1. runs[t] = 1
        BY ONLY <1>5, <2>1, <3>2
      <4>2. Full(acc[t], t)
        BY ONLY <2>1, <4>1, Results DEF Results, Finished
      <4>3. t # o
        <5>1. ASSUME o # r
              PROVE  runs[o] # 1
          BY <1>2, <1>4, <5>1, OwnerUnfinished
        <5> QED
          BY ONLY <3>2, <4>1, <5>1
      <4>4. acc'[t] = acc[t]
        BY ONLY <1>11, <4>3
      <4> QED
        BY ONLY <4>2, <4>4
    <3> QED
      BY <3>1, <3>2
  <2> QED
    BY ONLY <2>1 DEF Finished, Full, Covers, Submitted, Parent
<1>17. UnderWay'
  <2>1. ASSUME NEW h \in Active', h.at # "release"
        PROVE  HalfWay(h)'
    <3>1. h \in Active /\ h # f
      BY ONLY <1>6, <2>1
    <3>2. PICK t : t = h.task
      OBVIOUS
    <3>3. /\ t \in Task /\ t # r /\ Open(t) /\ h.pos \in Nat
          /\ Len(Body[t]) \in Nat /\ h.pos \in 1..Len(Body[t]) + 1
      BY <1>1, <1>7, <3>1, <3>2, ActiveFrames, OpsOfBody DEF Open, Frame
    <3>4. HalfWay(h)
      BY ONLY <2>1, <3>1, Results DEF Results, UnderWay
    <3>5. CASE given[t] = o
      <4>1. LeftOpen(t)
        BY ONLY <1>2, <1>4, <1>9, <3>3, <3>5, OneHolder DEF OneHolder
      <4>2. h.pos > 2 /\ runs[Left(t)] = 0
        BY <3>1, <3>2, <4>1, LeftOpenFacts
      <4>3. Left(t) \in Task
        BY ONLY <3>3, <4>1, Halves DEF LeftOpen
      <4>4. runs'[Left(t)] = 1 => Full(acc'[o], Left(t))
        <5>1. runs'[Left(t)] = 1 => Left(t) = r
          BY ONLY <1>5, <4>2, <4>3
        <5> QED
          BY ONLY <1>10, <5>1
      <4>5. ~(h.pos <= 2)
        BY ONLY <3>3, <4>2
      <4>6. given'[h.task] = o
        BY ONLY <1>11, <3>2, <3>5
      <4> QED
        BY ONLY <3>2, <4>4, <4>5, <4>6 DEF HalfWay, Full, Covers, Left, Middle
    <3>6. CASE given[t] # o
      <4>1. given[t] \in Task /\ acc'[given[t]] = acc[given[t]]
        BY ONLY <1>11, <3>3, <3>6, OwnObjects DEF OwnObjects
      <4>2. ASSUME h.pos > 2
            PROVE  runs'[Left(t)] = runs[Left(t)]
        <5>1. Splits(t)
          <6>1. ASSUME ~Splits(t)
                PROVE  Len(Body[t]) = 0
            BY ONLY <3>3, <6>1, Halves
          <6> QED
            BY ONLY <3>3, <4>2, <6>1
        <5>2. Left(t) \in Task /\ ~Submitted(Left(t)) /\ Parent(Left(t)) = t
          BY ONLY <3>3, <5>1, Halves
        <5>3. Left(t) # r
          BY ONLY <1>2, <1>4, <3>6, <5>2, CallersObject DEF CallersObject
        <5> QED
          BY ONLY <1>5, <5>2, <5>3
      <4> QED
        BY ONLY <1>11, <3>2, <3>4, <4>1, <4>2, HalfKept
    <3> QED
      BY <3>5, <3>6
  <2> QED
    BY ONLY <2>1 DEF UnderWay
<1>18. acc' \in [Task -> Object]
  <2>1. acc'[o] \in Object
    BY ONLY <1>10 DEF Full
  <2>2. PICK x : acc' = [acc EXCEPT ![o] = x]
    BY <1>2 DEF Reduce
  <2> QED
    BY ONLY <1>11, <2>1, <2>2, Results DEF Results
<1> QED
  BY ONLY <1>13, <1>14, <1>15, <1>16, <1>17, <1>18 DEF Results, Object

-----------------------------------------------------------------------------
LEMMA ResultStarts == ReduceInit => ResultInv
<1> SUFFICES ASSUME ReduceInit PROVE ResultInv
  OBVIOUS
<1>1. Init /\ acc = [r \in Ranges |-> Blank] /\ Task = Ranges
  BY RangeAssumption DEF ReduceInit
<1>2. \A f : f \notin Active
  BY <1>1, ActiveMember DEF Init, LoopFrame
<1>3. Blank \in Object
  BY DEF Blank, Object
<1>4. \A t \in Task : acc[t] = Blank /\ runs[t] = 0
  BY ONLY <1>1 DEF Init
<1>5. acc \in [Task -> Object]
  BY ONLY <1>1, <1>3
<1>6. Results
  BY ONLY <1>2, <1>4, <1>5 DEF Results, Unbegun, Finished, UnderWay
<1>7. CallersObject /\ OneHolder
  BY ONLY <1>2 DEF CallersObject, OneHolder, Open
<1> QED
  <2>1. OutsideOnly
    BY <1>1 DEF Init, OutsideOnly
  <2> QED
    BY ONLY <1>1, <1>6, <1>7, <2>1, ReduceInit, ReduceStarts, NoneLostInit DEF ResultInv

LEMMA ResultKeeps == ResultInv /\ [ReduceNext]_reduceVars => ResultInv'
<1> SUFFICES ASSUME ResultInv, [ReduceNext]_reduceVars PROVE ResultInv'
  OBVIOUS
<1>1. /\ ReduceInv /\ NoneLost /\ OutsideOnly /\ CallersObject /\ OneHolder /\ Results
      /\ PoolInv /\ OwnObjects /\ OwnersBelow
  BY DEF ResultInv, ReduceInv
<1>2. [Next]_vars
  BY DEF ReduceNext, ReduceStep, Next, Step, ClientStep, reduceVars
<1>3. ReduceInv' /\ NoneLost' /\ OutsideOnly'
  BY ONLY <1>1, <1>2, [ReduceNext]_reduceVars, ReduceKeeps, NoneLostNext, OutsideOnlyNext
<1>4. (CallersObject /\ OneHolder /\ Results)'
  <2>1. ASSUME Active' = Active, runs' = runs, acc' = acc, given' = given
        PROVE  (CallersObject /\ OneHolder /\ Results)'
    BY ONLY <1>1, <2>1, ResultsAtRest
  <2>2. CASE UNCHANGED reduceVars
    BY <2>1, <2>2, SameStacks DEF reduceVars, vars
  <2>3. ASSUME NEW c \in Client, (BeginArena(c) \/ ArenaReturn(c)) /\ UNCHANGED <<acc, given>>
        PROVE  (CallersObject /\ OneHolder /\ Results)'
    BY <2>1, <2>3, SameStacks DEF BeginArena, ArenaReturn
  <2>4. ASSUME NEW w \in Worker, ReduceStep(w)
        PROVE  (CallersObject /\ OneHolder /\ Results)'
    <3>0. acc' = acc => acc' \in [Task -> Object] /\ \A t \in Task : acc'[t] = acc[t]
      BY ONLY <1>1 DEF Results
    <3>1. CASE RunCount(w) /\ SplitBody(w)
      <4>1. PICK f, g : f = Top(w) /\ CountMove(f, g)
        BY <1>1, <3>1, CountEffect
      <4>2. PICK u : u = Body[f.task][f.pos].fn
        OBVIOUS
      <4>3. acc' = [acc EXCEPT ![u] = Blank] /\ given' = given
        BY <3>1, <4>1, <4>2 DEF SplitBody, Arg
      <4>4. /\ Becomes(f, g) /\ f \in Active /\ f.at = "body" /\ g.pos = f.pos
            /\ f.pos \in 1..Len(Body[f.task]) /\ Body[f.task][f.pos].op = "run" /\ runs' = runs
        BY <4>1 DEF CountMove, Becomes
      <4>5. u \in Task /\ ~Out(u) /\ runs[u] = 0
        <5>1. f.pos <= Len(Body[f.task]) /\ f.at \in {"body", "push"} /\ Body[f.task][f.pos].op \in {"run", "call"}
          BY <4>4
        <5>2. Shape /\ OnceOnStacks /\ Lifecycle
          BY <1>1 DEF PoolInv
        <5> QED
          BY ONLY <4>2, <4>4, <5>1, <5>2, Future
      <4>6. ~Open(u) /\ Blank \in Object
        BY ONLY <4>5 DEF Open, Out, Blank, Object
      <4>7. /\ acc' \in [Task -> Object]
            /\ \A t \in Task : acc'[t] = acc[t] \/ (acc'[t] = Blank /\ runs[t] = 0 /\ ~Open(t))
        BY ONLY <1>1, <4>3, <4>5, <4>6 DEF Results
      <4>8. f.at # "release" /\ (g.pos <= 2 => f.pos <= 2) /\ (g.pos > 2 => f.pos > 2)
        BY ONLY <4>4
      <4> QED
        BY ONLY <1>1, <4>3, <4>4, <4>7, <4>8, ResultsMoving
    <3>2. CASE CallFn(w) /\ PassBody(w)
      <4>1. PICK f, g, n : f = Top(w) /\ CallMove(f, g, n)
        BY <1>1, <3>2, CallEffect
      <4>2. acc' = acc /\ given' = [given EXCEPT ![n.task] = given[f.task]]
        BY <3>2, <4>1 DEF PassBody, Arg, CallMove
      <4> QED
        BY ONLY <1>1, <4>1, <4>2, ResultsInCall
    <3>3. CASE FnReturn(w) /\ Reduce(Top(w).task)
      BY ONLY <1>1, <3>3, w \in Worker, ResultsInReturn
    <3>4. CASE RunPush(w) /\ acc' = acc /\ given' = given
      <4>1. PICK f, g : f = Top(w) /\ PushMove(f, g)
        BY <1>1, <3>4, PushEffect
      <4>2. /\ Becomes(f, g) /\ f \in Active /\ f.at = "push" /\ g.pos = f.pos + 1
            /\ f.pos \in 1..Len(Body[f.task]) /\ Body[f.task][f.pos].op = "run" /\ runs' = runs
        BY ONLY <4>1 DEF PushMove, Becomes
      <4>3. f.pos = 1
        BY ONLY <1>1, <4>2, StepOfRange
      <4>4. f.at # "release" /\ (g.pos <= 2 => f.pos <= 2) /\ (g.pos > 2 => f.pos > 2)
        BY ONLY <4>2, <4>3
      <4> QED
        BY ONLY <1>1, <3>0, <3>4, <4>2, <4>4, ResultsMoving
    <3>5. CASE (CallWait(w) \/ LookInVain(w) \/ (WaitCheck(w) /\ pending[Top(w).task] # 0))
               /\ acc' = acc /\ given' = given
      <4>1. NoMove
        BY ONLY <1>1, <3>5, w \in Worker, RestEffect
      <4> QED
        BY ONLY <2>1, <3>5, <4>1 DEF NoMove
    <3>6. CASE Release(w) /\ acc' = acc /\ given' = given
      <4>1. PICK f : f = Top(w) /\ DropMove(f)
        BY <1>1, <3>6, DropEffect
      <4> QED
        BY ONLY <1>1, <3>6, <4>1, ResultsInDrop
    <3>7. CASE Look(w) /\ acc' = acc /\ given' = given
      <4>1. PICK n : TakeMove(n)
        BY <1>1, <3>7, TakeEffect
      <4> QED
        BY ONLY <1>1, <3>7, <4>1, ResultsInTake
    <3>8. CASE WaitCheck(w) /\ pending[Top(w).task] = 0 /\ acc' = acc /\ given' = given
      <4>1. PICK f, g : WaitMove(f, g)
        BY <1>1, <3>8, WaitEffect
      <4>2. /\ Becomes(f, g) /\ f \in Active /\ f.at = "body" /\ g.pos = f.pos + 1
            /\ f.pos \in 1..Len(Body[f.task]) /\ Body[f.task][f.pos].op = "wait" /\ runs' = runs
        BY ONLY <4>1 DEF WaitMove, Becomes, Wait
      <4>3. f.pos = 3
        BY ONLY <1>1, <4>2, StepOfRange
      <4>4. f.at # "release" /\ (g.pos <= 2 => f.pos <= 2) /\ (g.pos > 2 => f.pos > 2)
        BY ONLY <4>2, <4>3
      <4> QED
        BY ONLY <1>1, <3>0, <3>8, <4>2, <4>4, ResultsMoving
    <3> QED
      BY ONLY <2>4, <3>1, <3>2, <3>3, <3>4, <3>5, <3>6, <3>7, <3>8 DEF ReduceStep
  <2> QED
    BY ONLY <2>2, <2>3, <2>4, [ReduceNext]_reduceVars DEF ReduceNext
<1> QED
  BY ONLY <1>3, <1>4 DEF ResultInv

LEMMA ResultOfInv == ResultInv => ResultInOrder
<1> SUFFICES ASSUME ResultInv, NEW c \in Client, client[c] = "back"
             PROVE  /\ Covers(acc[Whole].blocks, Whole)
                    /\ acc[Whole].inits = Len(acc[Whole].blocks)
  BY DEF ResultInOrder
<1>1. NoneLost /\ Results /\ GroupsHeld /\ Shape
  BY DEF ResultInv, ReduceInv, PoolInv
<1>2. Whole \in Task /\ Parent(Whole) = c
  BY SiteUnique, RangeAssumption
<1>3. Submitted(Whole) /\ Past(Whole)
  BY ONLY <1>2, c \in Client, client[c] = "back" DEF Submitted, Past
<1>4. ~HasGroup(c)
  <2>1. \A f \in Active : f.task # c
    BY <1>1, ActiveFrames, PoolAssumption
  <2> QED
    BY ONLY <2>1, client[c] = "back" DEF HasGroup
<1>5. ~Out(Whole)
  BY ONLY <1>1, <1>2, <1>3, <1>4 DEF GroupsHeld
<1>6. runs[Whole] = 1
  BY ONLY <1>1, <1>2, <1>3, <1>5, client[c] = "back" DEF NoneLost, Handed
<1>7. Full(acc[Whole], Whole)
  BY ONLY <1>1, <1>2, <1>3, <1>6 DEF Results, Finished
<1> QED
  BY ONLY <1>7 DEF Full

(* When parallel_reduce returns, its object has been given the blocks of   *)
(* the whole range, each once, in order, and one init for each of them.    *)
THEOREM ResultInOrderHolds == ReduceSpec => []ResultInOrder
BY ResultStarts, ResultKeeps, ResultOfInv, PTL DEF ReduceSpec
=============================================================================
