-------------------------- MODULE ThreadPool_proof --------------------------
(***************************************************************************)
(* The fork-join guarantees of ThreadPool for any number of workers, any   *)
(* clients and any forest of functions.  What survives a request_stop is   *)
(* proved with it: functions run at most once, the latches are exact, and  *)
(* shutdown is prompt.  What it breaks (a stopped worker leaves its joins  *)
(* early) is proved for as long as nobody has been told to stop.           *)
(***************************************************************************)
EXTENDS ThreadPool, ProofLibrary, SequenceTheorems, FiniteSetTheorems, TLAPS

AtLook == {"own", "ownPop", "scan", "steal", "after"}

Frames == [fn : {"entry", "join", "arena", "task"}, task : Task \cup {None},
           at : {"body", "finish", "push", "wait"} \cup AtLook,
           pos : Nat, seen : SUBSET Worker, victim : Worker, ready : BOOLEAN]

(* What StackOK leaves unsaid: where frames of each kind can be, that only *)
(* the innermost frame is between a test and its try_pop, and that a task  *)
(* in a join or an arena has nothing left to do after it.                  *)
Nested(w, i) ==
  LET f == calls[w][i] IN
    /\ f.fn = "entry" => f.at \in AtLook /\ f.task = None
    /\ f.fn = "task" => f.at \in {"body", "finish"} /\ f.task \in Task
    /\ f.fn = "join" => f.at \in AtLook \cup {"push"} /\ f.task \in Task \ ArenaTask
    /\ f.fn = "arena" => f.at = "wait" /\ f.task \in ArenaTask
    /\ f.fn \in {"join", "arena"} => calls[w][i + 1].at = "finish"
    /\ f.at = "push" => f.pos < Len(Children[f.task])
    /\ f.ready => f.fn = "join"
    /\ i > 1 => f.at \in {"finish", "own", "scan"}

Shape ==
  /\ calls \in [Worker -> Seq(Frames)]
  /\ \A w \in Worker : \A i \in 1..Len(calls[w]) : StackOK(w, i) /\ Nested(w, i)

(* No function is in two places of the queues; no function has two frames, *)
(* or two frames of joins and arenas.                                      *)
OnceInQueues == Apart(Worker, queue)
SameKey(f, g) ==
  /\ f.fn # "entry" /\ g.fn # "entry" /\ f.task = g.task
  /\ f.fn = "task" <=> g.fn = "task"
OnceOnStacks ==
  \A v, w \in Worker : \A i \in 1..Len(calls[v]), j \in 1..Len(calls[w]) :
    SameKey(calls[v][i], calls[w][j]) => v = w /\ i = j

-----------------------------------------------------------------------------
(* What the stacks say of the functions: the frames but for the thread's   *)
(* visits, and from them the functions at their start, those in or past    *)
(* their join or arena, those whose join or arena has not returned, how    *)
(* far the joins that push have come, and the joins that know their latch  *)
(* to be down.                                                             *)
Core(f) == [fn |-> f.fn, task |-> f.task, at |-> f.at, pos |-> f.pos, ready |-> f.ready]

Cores == UNION {{Core(calls[w][i]) : i \in {j \in 1..Len(calls[w]) : calls[w][j].fn # "entry"}}
                  : w \in Worker}

Bodies == {f.task : f \in {g \in Cores : g.at = "body"}}
Ending == {f.task : f \in {g \in Cores : g.at = "finish"}}
Waiting == {f.task : f \in {g \in Cores : g.fn \in {"join", "arena"}}}
Unpushed == {<<f.task, f.pos>> : f \in {g \in Cores : g.at = "push"}}
Readied == {f.task : f \in {g \in Cores : g.ready}}

Pooled == Held(Worker, queue)

Out(t) == t \in Pooled \/ t \in Bodies \/ t \in Ending

(* t has been pushed.                                                      *)
Past(t) ==
  LET p == Parent(t) IN
    \/ p \in Client /\ client[p] # "out"
    \/ p \in Task /\ runs[p] = 1
    \/ p \in Ending /\ \A k \in Nat : <<p, k>> \in Unpushed => Site[t][2] <= k

(* A function is queued, on a stack or done, and then it has been pushed:  *)
(* it is not pushed twice.                                                 *)
Lifecycle ==
  /\ \A t \in Task : runs[t] \in {0, 1}
  /\ \A t \in Task : t \in Pooled => t \notin Bodies /\ t \notin Ending
  /\ \A t \in Task : Out(t) => runs[t] = 0
  /\ \A t \in Task : Out(t) \/ runs[t] = 1 => Past(t)

(* p's join or arena has not returned, and what it waits for.              *)
Awaited(p) == (p \in Client /\ client[p] = "wait") \/ p \in Waiting
Unrun(p) == {i \in 1..Len(Kids(p)) : runs[Kids(p)[i]] = 0}

LatchesExact == \A p \in Task \cup Client : Awaited(p) => latch[p] = Cardinality(Unrun(p))
ReadyMeansDown == \A p \in Readied : latch[p] = 0

(* Until a worker is told to stop, no join returns early.                  *)
Scoped == stopped = 0 => \A t \in Task : Out(t) => Awaited(Parent(t))
Joined == stopped = 0 =>
  /\ \A t \in Task : runs[t] = 1 \/ (t \in Ending /\ t \notin Waiting) => Unrun(t) = {}
  /\ \A k \in Client : client[k] = "back" => runs[Root[k]] = 1

(* A stopped worker that has taken a task since is not about to try_pop.   *)
Prompt == \A w \in Worker :
  \/ late[w] = 0
  \/ /\ late[w] = 1 /\ Stopped(w)
     /\ calls[w] # <<>> => Top(w).at \notin {"ownPop", "steal"}

Types ==
  /\ queue \in [Worker -> Seq(Task)]
  /\ latch \in [Task \cup Client -> Nat]
  /\ client \in [Client -> {"out", "wait", "back"}]
  /\ stopped \in 0..NumWorkers
  /\ runs \in [Task -> Nat] /\ late \in [Worker -> Nat]

PoolInv ==
  /\ Types /\ Shape /\ OnceInQueues /\ OnceOnStacks /\ Lifecycle
  /\ LatchesExact /\ ReadyMeansDown /\ Scoped /\ Joined /\ Prompt

-----------------------------------------------------------------------------
(* The forest: every function has one site.                                *)
LEMMA KidsFacts ==
  /\ \A p \in Task \cup Client : Kids(p) \in Seq(Task) /\ Len(Kids(p)) \in Nat
  /\ \A p \in Task : Kids(p) = Children[p] /\ p \notin Client
  /\ \A c \in Client : Len(Kids(c)) = 1 /\ Kids(c)[1] = Root[c] /\ c \notin Task
  /\ \A t \in ArenaTask : t \in Task /\ Len(Children[t]) = 1
  /\ Front \in Worker
<1>1. ASSUME NEW p \in Task
      PROVE  Kids(p) = Children[p] /\ p \notin Client /\ Kids(p) \in Seq(Task)
  BY PoolAssumption DEF Kids
<1>2. ASSUME NEW c \in Client
      PROVE  /\ Len(Kids(c)) = 1 /\ Kids(c)[1] = Root[c] /\ c \notin Task
             /\ Kids(c) \in Seq(Task)
  <2>1. Kids(c) = <<Root[c]>> /\ Root[c] \in Task
    BY PoolAssumption DEF Kids
  <2> QED
    BY <2>1, PoolAssumption
<1> QED
  BY <1>1, <1>2, PoolAssumption DEF Front, Worker

LEMMA SiteUnique ==
  /\ \A p \in Task \cup Client : \A i \in 1..Len(Kids(p)) :
       /\ Kids(p)[i] \in Task /\ Site[Kids(p)[i]] = <<p, i>>
       /\ Parent(Kids(p)[i]) = p
  /\ \A t \in Task :
       /\ Parent(t) \in Task \cup Client /\ Site[t][2] \in 1..Len(Kids(Parent(t)))
       /\ Site[t][2] \in Nat /\ Kids(Parent(t))[Site[t][2]] = t
<1>1. ASSUME NEW t \in Task
      PROVE  Site[t] \in Sites(t) /\ \A s \in Sites(t) : Site[t] = s
  BY ForestAssumption DEF Site
<1>2. ASSUME NEW p \in Task \cup Client, NEW i \in 1..Len(Kids(p))
      PROVE  /\ Kids(p)[i] \in Task /\ Site[Kids(p)[i]] = <<p, i>>
             /\ Parent(Kids(p)[i]) = p
  <2>1. Kids(p)[i] \in Task
    BY KidsFacts
  <2>2. <<p, i>> \in Sites(Kids(p)[i])
    BY DEF Sites
  <2> QED
    BY <1>1, <2>1, <2>2 DEF Parent
<1>3. ASSUME NEW t \in Task
      PROVE  /\ Parent(t) \in Task \cup Client /\ Site[t][2] \in 1..Len(Kids(Parent(t)))
             /\ Site[t][2] \in Nat /\ Kids(Parent(t))[Site[t][2]] = t
  <2>1. PICK p \in Task \cup Client : \E i \in 1..Len(Kids(p)) : Site[t] = <<p, i>> /\ Kids(p)[i] = t
    BY <1>1 DEF Sites
  <2>2. PICK i \in 1..Len(Kids(p)) : Site[t] = <<p, i>> /\ Kids(p)[i] = t
    BY <2>1
  <2> QED
    BY <2>2, KidsFacts DEF Parent
<1> QED
  BY <1>2, <1>3

-----------------------------------------------------------------------------
(* Stacks.                                                                 *)
LEMMA CoreOf ==
  \A f : /\ Core(f).fn = f.fn /\ Core(f).task = f.task /\ Core(f).at = f.at
         /\ Core(f).pos = f.pos /\ Core(f).ready = f.ready
BY DEF Core

LEMMA CoresMember ==
  \A h : h \in Cores <=> \E w \in Worker : \E i \in 1..Len(calls[w]) :
                           calls[w][i].fn # "entry" /\ h = Core(calls[w][i])
BY DEF Cores

(* A step of w replaces its innermost frame by n others, its stack is s    *)
(* then; of the other frames it changes the visits at most.                *)
Replaces(w, s, n) ==
  /\ calls' = [calls EXCEPT ![w] = s]
  /\ s \in Seq(Frames) /\ n \in 0..2
  /\ Len(calls[w]) >= 1 /\ Len(s) + 1 = Len(calls[w]) + n
  /\ \A i \in n + 1..Len(s) : Core(s[i]) = Core(calls[w][i - n + 1])

(* The new frames have keys of their own.                                  *)
NoOther(w, s, n) ==
  /\ \A i, j \in 1..n : SameKey(s[i], s[j]) => i = j
  /\ \A i \in 1..n : \A v \in Worker : \A j \in 1..Len(calls[v]) :
       SameKey(s[i], calls[v][j]) => v = w /\ j = 1

LEMMA StackAfter ==
  ASSUME Shape, NEW w \in Worker, NEW s, NEW n, Replaces(w, s, n)
  PROVE  /\ calls' \in [Worker -> Seq(Frames)] /\ calls'[w] = s
         /\ \A v \in Worker \ {w} : calls'[v] = calls[v]
         /\ s \in Seq(Frames) /\ Len(s) \in Nat /\ Len(calls[w]) \in Nat /\ n \in Nat
         /\ \A i \in 1..Len(s) : i <= n \/ \E j \in 2..Len(calls[w]) :
              j = i - n + 1 /\ Core(s[i]) = Core(calls[w][j])
         /\ \A j \in 1..Len(calls[w]) : j = 1 \/ \E i \in n + 1..Len(s) :
              j = i - n + 1 /\ Core(s[i]) = Core(calls[w][j])
         /\ \A i \in 1..n : i \in 1..Len(s)
         /\ 1 \in 1..Len(calls[w])
<1>1. /\ calls' \in [Worker -> Seq(Frames)] /\ calls'[w] = s
      /\ \A v \in Worker \ {w} : calls'[v] = calls[v]
      /\ s \in Seq(Frames) /\ Len(s) \in Nat /\ Len(calls[w]) \in Nat
  BY DEF Shape, Replaces
<1>2. /\ n \in 0..2 /\ Len(calls[w]) >= 1 /\ Len(s) + 1 = Len(calls[w]) + n
      /\ \A i \in n + 1..Len(s) : Core(s[i]) = Core(calls[w][i - n + 1])
  BY DEF Replaces
<1>3. ASSUME NEW i \in 1..Len(s), ~(i <= n)
      PROVE  \E j \in 2..Len(calls[w]) : j = i - n + 1 /\ Core(s[i]) = Core(calls[w][j])
  <2>1. i \in n + 1..Len(s) /\ i - n + 1 \in 2..Len(calls[w])
    BY ONLY <1>1, <1>2, <1>3
  <2> QED
    BY ONLY <2>1, <1>2
<1>4. ASSUME NEW j \in 1..Len(calls[w]), j # 1
      PROVE  \E i \in n + 1..Len(s) : j = i - n + 1 /\ Core(s[i]) = Core(calls[w][j])
  <2>1. j - 1 + n \in n + 1..Len(s) /\ (j - 1 + n) - n + 1 = j
    BY ONLY <1>1, <1>2, <1>4
  <2> QED
    BY ONLY <2>1, <1>2
<1>5. (\A i \in 1..n : i \in 1..Len(s)) /\ 1 \in 1..Len(calls[w]) /\ n \in Nat
  BY ONLY <1>1, <1>2
<1> QED
  BY <1>1, <1>3, <1>4, <1>5

(* The frames below the new ones are as they should be.                    *)
LEMMA ShapeStep ==
  ASSUME Shape, NEW w \in Worker, NEW s, NEW n, Replaces(w, s, n),
         \A i \in 1..n : StackOK(w, i)' /\ Nested(w, i)'
  PROVE  Shape'
<1>1. calls' \in [Worker -> Seq(Frames)] /\ calls'[w] = s
      /\ \A v \in Worker \ {w} : calls'[v] = calls[v]
      /\ Len(s) \in Nat /\ Len(calls[w]) \in Nat
  BY StackAfter
<1>2. ASSUME NEW v \in Worker \ {w}, NEW i \in 1..Len(calls'[v])
      PROVE  StackOK(v, i)' /\ Nested(v, i)'
  <2>1. calls'[v] = calls[v]
    BY <1>1
  <2>2. StackOK(v, i) /\ Nested(v, i)
    BY <2>1 DEF Shape
  <2> QED
    BY ONLY <2>1, <2>2 DEF StackOK, Nested
<1>3. ASSUME NEW i \in n + 1..Len(s)
      PROVE  StackOK(w, i)' /\ Nested(w, i)'
  <2>1. PICK j : j = i - n + 1
    OBVIOUS
  <2>2. /\ n \in 0..2 /\ Len(s) + 1 = Len(calls[w]) + n
        /\ \A k \in n + 1..Len(s) : Core(s[k]) = Core(calls[w][k - n + 1])
    BY DEF Replaces
  <2>3. /\ j \in 1..Len(calls[w]) /\ j > 1 /\ j \in Nat
        /\ i = Len(s) <=> j = Len(calls[w])
        /\ i # Len(s) => i + 1 \in n + 1..Len(s) /\ i + 1 - n + 1 = j + 1
    BY ONLY <1>1, <2>1, <2>2, i \in n + 1..Len(s)
  <2>4. Core(s[i]) = Core(calls[w][j]) /\ (i # Len(s) => Core(s[i + 1]) = Core(calls[w][j + 1]))
    BY ONLY <2>1, <2>2, <2>3, i \in n + 1..Len(s)
  <2>5. /\ s[i].fn = calls[w][j].fn /\ s[i].task = calls[w][j].task /\ s[i].at = calls[w][j].at
        /\ s[i].pos = calls[w][j].pos /\ s[i].ready = calls[w][j].ready
        /\ i # Len(s) => /\ s[i + 1].fn = calls[w][j + 1].fn
                         /\ s[i + 1].task = calls[w][j + 1].task
                         /\ s[i + 1].at = calls[w][j + 1].at
    BY ONLY <2>4, CoreOf
  <2>6. StackOK(w, j) /\ Nested(w, j)
    BY <2>3 DEF Shape
  <2>7. s[i].fn = "entry" <=> i = Len(s)
    BY ONLY <2>3, <2>5, <2>6 DEF StackOK
  <2>8. calls'[w] = s
    BY <1>1
  <2>9. StackOK(w, i)'
    BY ONLY <2>5, <2>6, <2>7, <2>8 DEF StackOK
  <2>10. calls[w][j].at \in {"finish", "own", "scan"}
    BY ONLY <2>3, <2>6 DEF Nested
  <2>11. Nested(w, i)'
    BY ONLY <2>5, <2>6, <2>7, <2>8, <2>10 DEF Nested
  <2> QED
    BY <2>9, <2>11
<1>4. ASSUME NEW i \in 1..Len(s)
      PROVE  StackOK(w, i)' /\ Nested(w, i)'
  <2>1. i \in 1..n \/ i \in n + 1..Len(s)
    <3>1. n \in Nat
      BY StackAfter
    <3> QED
      BY ONLY <1>1, <3>1, i \in 1..Len(s)
  <2> QED
    BY <2>1, <1>3
<1> QED
  BY <1>1, <1>2, <1>4 DEF Shape

LEMMA KeyOfCore ==
  ASSUME NEW f, NEW g, Core(f) = Core(g)
  PROVE  /\ \A h : SameKey(f, h) <=> SameKey(g, h)
         /\ \A h : SameKey(h, f) <=> SameKey(h, g)
<1>1. f.fn = g.fn /\ f.task = g.task
  BY CoreOf
<1> QED
  BY ONLY <1>1 DEF SameKey

(* The other frames keep their keys, and what is kept of them.             *)
LEMMA CoreStep ==
  ASSUME Shape, OnceOnStacks, NEW w \in Worker, NEW s, NEW n, Replaces(w, s, n), NoOther(w, s, n)
  PROVE  /\ OnceOnStacks'
         /\ Cores' = (Cores \ {Core(Top(w))})
                     \cup {Core(s[i]) : i \in {j \in 1..n : s[j].fn # "entry"}}
<1>1. /\ calls'[w] = s /\ \A v \in Worker \ {w} : calls'[v] = calls[v]
      /\ Len(s) \in Nat /\ Len(calls[w]) \in Nat /\ n \in Nat
      /\ \A i \in 1..Len(s) : i <= n \/ \E j \in 2..Len(calls[w]) :
           j = i - n + 1 /\ Core(s[i]) = Core(calls[w][j])
      /\ \A j \in 1..Len(calls[w]) : j = 1 \/ \E i \in n + 1..Len(s) :
           j = i - n + 1 /\ Core(s[i]) = Core(calls[w][j])
      /\ \A i \in 1..n : i \in 1..Len(s)
      /\ 1 \in 1..Len(calls[w])
  BY ONLY Shape, Replaces(w, s, n), w \in Worker, StackAfter
<1>2. ASSUME NEW v \in Worker, NEW i \in 1..Len(calls'[v]), ~(v = w /\ i <= n)
      PROVE  \E j \in 1..Len(calls[v]) :
               /\ Core(calls'[v][i]) = Core(calls[v][j])
               /\ j = (IF v = w THEN i - n + 1 ELSE i) /\ ~(v = w /\ j = 1)
  <2>1. CASE v # w
    BY ONLY <1>1, <2>1, v \in Worker, i \in 1..Len(calls'[v])
  <2>2. CASE v = w
    <3>1. i \in 1..Len(s) /\ ~(i <= n)
      BY ONLY <1>1, <1>2, <2>2
    <3>2. PICK j \in 2..Len(calls[w]) : j = i - n + 1 /\ Core(s[i]) = Core(calls[w][j])
      BY ONLY <1>1, <3>1
    <3>3. j \in 1..Len(calls[w]) /\ j # 1
      BY ONLY <1>1, j \in 2..Len(calls[w])
    <3> QED
      BY ONLY <1>1, <2>2, <3>2, <3>3
  <2> QED
    BY <2>1, <2>2
<1>3. OnceOnStacks'
  <2>1. ASSUME NEW v \in Worker, NEW u \in Worker, NEW i \in 1..Len(calls'[v]),
               NEW j \in 1..Len(calls'[u]), SameKey(calls'[v][i], calls'[u][j])
        PROVE  v = u /\ i = j
    <3>1. CASE v = w /\ i <= n /\ u = w /\ j <= n
      <4>1. i \in 1..n /\ j \in 1..n
        BY ONLY <1>1, <3>1, i \in 1..Len(calls'[v]), j \in 1..Len(calls'[u])
      <4> QED
        BY ONLY <1>1, <2>1, <3>1, <4>1, NoOther(w, s, n) DEF NoOther
    <3>2. CASE v = w /\ i <= n /\ ~(u = w /\ j <= n)
      <4>1. PICK k \in 1..Len(calls[u]) : Core(calls'[u][j]) = Core(calls[u][k]) /\ ~(u = w /\ k = 1)
        BY ONLY <1>2, <3>2, u \in Worker, j \in 1..Len(calls'[u])
      <4>2. i \in 1..n
        BY ONLY <1>1, <3>2, i \in 1..Len(calls'[v])
      <4>3. SameKey(s[i], calls[u][k])
        BY ONLY <1>1, <2>1, <3>2, <4>1, KeyOfCore
      <4> QED
        BY ONLY <4>1, <4>2, <4>3, u \in Worker, NoOther(w, s, n) DEF NoOther
    <3>3. CASE ~(v = w /\ i <= n) /\ u = w /\ j <= n
      <4>1. PICK k \in 1..Len(calls[v]) : Core(calls'[v][i]) = Core(calls[v][k]) /\ ~(v = w /\ k = 1)
        BY ONLY <1>2, <3>3, v \in Worker, i \in 1..Len(calls'[v])
      <4>2. j \in 1..n
        BY ONLY <1>1, <3>3, j \in 1..Len(calls'[u])
      <4>3. SameKey(s[j], calls[v][k])
        <5>1. SameKey(s[j], calls'[v][i])
          BY ONLY <1>1, <2>1, <3>3 DEF SameKey
        <5> QED
          BY ONLY <5>1, <4>1, KeyOfCore
      <4> QED
        BY ONLY <4>1, <4>2, <4>3, v \in Worker, NoOther(w, s, n) DEF NoOther
    <3>4. CASE ~(v = w /\ i <= n) /\ ~(u = w /\ j <= n)
      <4>1. PICK k \in 1..Len(calls[v]) : Core(calls'[v][i]) = Core(calls[v][k])
                                          /\ k = (IF v = w THEN i - n + 1 ELSE i)
        BY ONLY <1>2, <3>4, v \in Worker, i \in 1..Len(calls'[v])
      <4>2. PICK l \in 1..Len(calls[u]) : Core(calls'[u][j]) = Core(calls[u][l])
                                          /\ l = (IF u = w THEN j - n + 1 ELSE j)
        BY ONLY <1>2, <3>4, u \in Worker, j \in 1..Len(calls'[u])
      <4>3. SameKey(calls[v][k], calls[u][l])
        BY ONLY <2>1, <4>1, <4>2, KeyOfCore
      <4>4. v = u /\ k = l
        BY ONLY <4>3, OnceOnStacks, v \in Worker, u \in Worker, k \in 1..Len(calls[v]),
                l \in 1..Len(calls[u]) DEF OnceOnStacks
      <4>5. i \in Nat /\ j \in Nat
        BY ONLY <1>1, i \in 1..Len(calls'[v]), j \in 1..Len(calls'[u])
      <4> QED
        BY ONLY <1>1, <4>1, <4>2, <4>4, <4>5
    <3> QED
      BY ONLY <3>1, <3>2, <3>3, <3>4
  <2> QED
    BY ONLY <2>1 DEF OnceOnStacks
<1>4. ASSUME NEW h \in Cores'
      PROVE  h \in (Cores \ {Core(Top(w))}) \cup {Core(s[i]) : i \in {j \in 1..n : s[j].fn # "entry"}}
  <2>1. PICK v \in Worker : \E i \in 1..Len(calls'[v]) : calls'[v][i].fn # "entry" /\ h = Core(calls'[v][i])
    BY DEF Cores
  <2>2. PICK i \in 1..Len(calls'[v]) : calls'[v][i].fn # "entry" /\ h = Core(calls'[v][i])
    BY <2>1
  <2>3. CASE v = w /\ i <= n
    <3>1. i \in 1..n /\ s[i] = calls'[v][i]
      BY ONLY <1>1, <2>3, i \in 1..Len(calls'[v])
    <3> QED
      BY ONLY <2>2, <3>1
  <2>4. CASE ~(v = w /\ i <= n)
    <3>1. PICK j \in 1..Len(calls[v]) : Core(calls'[v][i]) = Core(calls[v][j]) /\ ~(v = w /\ j = 1)
      BY ONLY <1>2, <2>4, v \in Worker, i \in 1..Len(calls'[v])
    <3>2. calls[v][j].fn # "entry" /\ h = Core(calls[v][j])
      BY ONLY <2>2, <3>1, CoreOf
    <3>3. h \in Cores
      BY ONLY <3>2, CoresMember, v \in Worker, j \in 1..Len(calls[v])
    <3>4. h # Core(Top(w))
      <4>1. ASSUME h = Core(Top(w))
            PROVE  FALSE
        <5>1. Core(calls[v][j]) = Core(calls[w][1])
          BY ONLY <3>2, <4>1 DEF Top
        <5>2. SameKey(calls[v][j], calls[v][j])
          BY ONLY <3>2 DEF SameKey
        <5>3. SameKey(calls[v][j], calls[w][1])
          BY ONLY <5>1, <5>2, KeyOfCore
        <5> QED
          BY ONLY <1>1, <3>1, <5>3, OnceOnStacks, v \in Worker, w \in Worker,
                  j \in 1..Len(calls[v]) DEF OnceOnStacks
      <4> QED
        BY <4>1
    <3> QED
      BY ONLY <3>3, <3>4
  <2> QED
    BY <2>3, <2>4
<1>5. ASSUME NEW h \in Cores, h # Core(Top(w))
      PROVE  h \in Cores'
  <2>1. PICK v \in Worker : \E i \in 1..Len(calls[v]) : calls[v][i].fn # "entry" /\ h = Core(calls[v][i])
    BY CoresMember
  <2>2. PICK i \in 1..Len(calls[v]) : calls[v][i].fn # "entry" /\ h = Core(calls[v][i])
    BY <2>1
  <2>3. \E j \in 1..Len(calls'[v]) : Core(calls'[v][j]) = h
    <3>1. CASE v # w
      BY ONLY <1>1, <2>2, <3>1, v \in Worker
    <3>2. CASE v = w
      <4>1. i # 1
        BY ONLY <1>5, <2>2, <3>2 DEF Top
      <4>2. PICK j \in n + 1..Len(s) : Core(s[j]) = Core(calls[w][i])
        BY ONLY <1>1, <3>2, <4>1, i \in 1..Len(calls[v])
      <4>3. j \in 1..Len(s)
        BY ONLY <1>1, j \in n + 1..Len(s)
      <4> QED
        BY ONLY <1>1, <2>2, <3>2, <4>2, <4>3
    <3> QED
      BY <3>1, <3>2
  <2>4. PICK j \in 1..Len(calls'[v]) : Core(calls'[v][j]) = h
    BY <2>3
  <2>5. calls'[v][j].fn # "entry"
    BY ONLY <2>2, <2>4, CoreOf
  <2> QED
    BY ONLY <2>4, <2>5, v \in Worker DEF Cores
<1>6. ASSUME NEW i \in 1..n, s[i].fn # "entry"
      PROVE  Core(s[i]) \in Cores'
  BY ONLY <1>1, <1>6, w \in Worker DEF Cores
<1>7. Cores' = (Cores \ {Core(Top(w))}) \cup {Core(s[i]) : i \in {j \in 1..n : s[j].fn # "entry"}}
  BY <1>4, <1>5, <1>6
<1> QED
  BY <1>3, <1>7

-----------------------------------------------------------------------------
(* What one frame adds to the sets of functions.                           *)
BodyOf(f) == IF f.at = "body" THEN {f.task} ELSE {}
EndOf(f) == IF f.at = "finish" THEN {f.task} ELSE {}
WaitOf(f) == IF f.fn \in {"join", "arena"} THEN {f.task} ELSE {}
PushOf(f) == IF f.at = "push" THEN {<<f.task, f.pos>>} ELSE {}
ReadyOf(f) == IF f.ready THEN {f.task} ELSE {}

Sorted(f) ==
  /\ f.fn \in {"entry", "join", "arena", "task"}
  /\ f.at \in {"body", "finish"} => f.fn = "task"
  /\ f.at = "push" => f.fn = "join"
  /\ f.ready => f.fn = "join"

LEMMA CoreFacts ==
  ASSUME Shape
  PROVE  /\ \A w \in Worker : \A i \in 1..Len(calls[w]) : Sorted(calls[w][i])
         /\ \A h \in Cores : Sorted(h) /\ h.fn # "entry"
<1>1. ASSUME NEW w \in Worker, NEW i \in 1..Len(calls[w])
      PROVE  Sorted(calls[w][i])
  <2>1. calls[w][i] \in Frames /\ Nested(w, i)
    BY DEF Shape
  <2>2. calls[w][i].fn \in {"entry", "join", "arena", "task"}
    BY ONLY <2>1 DEF Frames
  <2> QED
    BY ONLY <2>1, <2>2 DEF Nested, Sorted, AtLook
<1>2. ASSUME NEW h \in Cores
      PROVE  Sorted(h) /\ h.fn # "entry"
  <2>1. PICK w \in Worker : \E i \in 1..Len(calls[w]) : calls[w][i].fn # "entry" /\ h = Core(calls[w][i])
    BY CoresMember
  <2>2. PICK i \in 1..Len(calls[w]) : calls[w][i].fn # "entry" /\ h = Core(calls[w][i])
    BY <2>1
  <2>3. Sorted(calls[w][i])
    BY <1>1
  <2> QED
    BY ONLY <2>2, <2>3, CoreOf DEF Sorted
<1> QED
  BY <1>1, <1>2

LEMMA OneCore ==
  ASSUME Shape, OnceOnStacks, NEW w \in Worker, Len(calls[w]) >= 1
  PROVE  /\ \A h \in Cores : SameKey(h, Top(w)) => h = Core(Top(w))
         /\ Top(w).fn # "entry" => Core(Top(w)) \in Cores
<1>0. 1 \in 1..Len(calls[w]) /\ Top(w) = calls[w][1]
  BY DEF Shape, Top
<1>1. ASSUME NEW h \in Cores, SameKey(h, Top(w))
      PROVE  h = Core(Top(w))
  <2>1. PICK v \in Worker : \E i \in 1..Len(calls[v]) : calls[v][i].fn # "entry" /\ h = Core(calls[v][i])
    BY CoresMember
  <2>2. PICK i \in 1..Len(calls[v]) : calls[v][i].fn # "entry" /\ h = Core(calls[v][i])
    BY <2>1
  <2>3. SameKey(calls[v][i], calls[w][1])
    BY ONLY <1>0, <1>1, <2>2, CoreOf DEF SameKey
  <2>4. v = w /\ i = 1
    BY ONLY <1>0, <2>3, OnceOnStacks, v \in Worker, w \in Worker, i \in 1..Len(calls[v])
       DEF OnceOnStacks
  <2> QED
    BY ONLY <1>0, <2>2, <2>4
<1> QED
  BY <1>0, <1>1, CoresMember

(* The effect of replacing w's innermost frame on the sets of functions.   *)
LEMMA SetsStep ==
  ASSUME Shape, OnceOnStacks, NEW w \in Worker, NEW s, NEW n, Replaces(w, s, n),
         NoOther(w, s, n), \A i \in 1..n : Sorted(s[i])
  PROVE  /\ OnceOnStacks'
         /\ Bodies' = (Bodies \ BodyOf(Top(w))) \cup UNION {BodyOf(s[i]) : i \in 1..n}
         /\ Ending' = (Ending \ EndOf(Top(w))) \cup UNION {EndOf(s[i]) : i \in 1..n}
         /\ Waiting' = (Waiting \ WaitOf(Top(w))) \cup UNION {WaitOf(s[i]) : i \in 1..n}
         /\ Unpushed' = (Unpushed \ PushOf(Top(w))) \cup UNION {PushOf(s[i]) : i \in 1..n}
         /\ Readied' = (Readied \ ReadyOf(Top(w))) \cup UNION {ReadyOf(s[i]) : i \in 1..n}
<1>1. PICK c, f : f = Top(w) /\ c = Core(f)
  OBVIOUS
<1>2. PICK N : N = {Core(s[i]) : i \in {j \in 1..n : s[j].fn # "entry"}}
  OBVIOUS
<1>3. OnceOnStacks' /\ Cores' = (Cores \ {c}) \cup N
  BY <1>1, <1>2, CoreStep
<1>4. Len(calls[w]) >= 1
  BY DEF Replaces
<1>5. /\ \A h \in Cores : SameKey(h, f) => h = c
      /\ f.fn # "entry" => c \in Cores
      /\ \A h \in Cores : Sorted(h) /\ h.fn # "entry"
      /\ Sorted(f)
  <2>1. f = calls[w][1] /\ 1 \in 1..Len(calls[w])
    BY <1>1, <1>4 DEF Shape, Top
  <2> QED
    BY <1>1, <1>4, <2>1, OneCore, CoreFacts
<1>6. /\ c.fn = f.fn /\ c.task = f.task /\ c.at = f.at /\ c.pos = f.pos /\ c.ready = f.ready
      /\ Sorted(c)
  BY ONLY <1>1, <1>5, CoreOf DEF Sorted
<1>7. \A h : h \in N <=> \E i \in 1..n : s[i].fn # "entry" /\ h = Core(s[i])
  BY ONLY <1>2
<1>8. \A i \in 1..n : s[i].fn # "entry" => Core(s[i]) \in N
  BY ONLY <1>7
<1>9. \A h \in N : \E i \in 1..n : /\ h.fn = s[i].fn /\ h.task = s[i].task /\ h.at = s[i].at
                                  /\ h.pos = s[i].pos /\ h.ready = s[i].ready
  BY ONLY <1>7, CoreOf
<1>10. Bodies' = (Bodies \ BodyOf(f)) \cup UNION {BodyOf(s[i]) : i \in 1..n}
  <2>1. ASSUME NEW h \in Cores, h.at = "body", h # c
        PROVE  h.task \notin BodyOf(f)
    BY ONLY <1>5, <2>1, h \in Cores DEF BodyOf, SameKey, Sorted
  <2>2. ASSUME NEW i \in 1..n, s[i].at = "body"
        PROVE  s[i].fn # "entry"
    BY <2>2 DEF Sorted
  <2>3. ASSUME NEW t \in Bodies'
        PROVE  t \in (Bodies \ BodyOf(f)) \cup UNION {BodyOf(s[i]) : i \in 1..n}
    <3>1. PICK h \in Cores' : h.at = "body" /\ h.task = t
      BY DEF Bodies
    <3>2. CASE h \in N
      BY ONLY <1>9, <3>1, <3>2 DEF BodyOf
    <3>3. CASE h \notin N
      BY ONLY <1>3, <2>1, <3>1, <3>3 DEF Bodies
    <3> QED
      BY <3>2, <3>3
  <2>4. ASSUME NEW t \in Bodies, t \notin BodyOf(f)
        PROVE  t \in Bodies'
    <3>1. PICK h \in Cores : h.at = "body" /\ h.task = t
      BY DEF Bodies
    <3>2. h # c
      BY ONLY <1>6, <2>4, <3>1 DEF BodyOf
    <3> QED
      BY ONLY <1>3, <3>1, <3>2 DEF Bodies
  <2>5. ASSUME NEW i \in 1..n, NEW t \in BodyOf(s[i])
        PROVE  t \in Bodies'
    <3>1. s[i].at = "body" /\ t = s[i].task
      BY ONLY t \in BodyOf(s[i]) DEF BodyOf
    <3>2. Core(s[i]) \in Cores' /\ Core(s[i]).at = "body" /\ Core(s[i]).task = t
      BY ONLY <1>3, <1>8, <2>2, <3>1, i \in 1..n, CoreOf
    <3> QED
      BY ONLY <3>2 DEF Bodies
  <2> QED
    BY ONLY <2>3, <2>4, <2>5
<1>11. Ending' = (Ending \ EndOf(f)) \cup UNION {EndOf(s[i]) : i \in 1..n}
  <2>1. ASSUME NEW h \in Cores, h.at = "finish", h # c
        PROVE  h.task \notin EndOf(f)
    BY ONLY <1>5, <2>1, h \in Cores DEF EndOf, SameKey, Sorted
  <2>2. ASSUME NEW i \in 1..n, s[i].at = "finish"
        PROVE  s[i].fn # "entry"
    BY <2>2 DEF Sorted
  <2>3. ASSUME NEW t \in Ending'
        PROVE  t \in (Ending \ EndOf(f)) \cup UNION {EndOf(s[i]) : i \in 1..n}
    <3>1. PICK h \in Cores' : h.at = "finish" /\ h.task = t
      BY DEF Ending
    <3>2. CASE h \in N
      BY ONLY <1>9, <3>1, <3>2 DEF EndOf
    <3>3. CASE h \notin N
      BY ONLY <1>3, <2>1, <3>1, <3>3 DEF Ending
    <3> QED
      BY <3>2, <3>3
  <2>4. ASSUME NEW t \in Ending, t \notin EndOf(f)
        PROVE  t \in Ending'
    <3>1. PICK h \in Cores : h.at = "finish" /\ h.task = t
      BY DEF Ending
    <3>2. h # c
      BY ONLY <1>6, <2>4, <3>1 DEF EndOf
    <3> QED
      BY ONLY <1>3, <3>1, <3>2 DEF Ending
  <2>5. ASSUME NEW i \in 1..n, NEW t \in EndOf(s[i])
        PROVE  t \in Ending'
    <3>1. s[i].at = "finish" /\ t = s[i].task
      BY ONLY t \in EndOf(s[i]) DEF EndOf
    <3>2. Core(s[i]) \in Cores' /\ Core(s[i]).at = "finish" /\ Core(s[i]).task = t
      BY ONLY <1>3, <1>8, <2>2, <3>1, i \in 1..n, CoreOf
    <3> QED
      BY ONLY <3>2 DEF Ending
  <2> QED
    BY ONLY <2>3, <2>4, <2>5
<1>12. Waiting' = (Waiting \ WaitOf(f)) \cup UNION {WaitOf(s[i]) : i \in 1..n}
  <2>1. ASSUME NEW h \in Cores, h.fn \in {"join", "arena"}, h # c
        PROVE  h.task \notin WaitOf(f)
    BY ONLY <1>5, <2>1, h \in Cores DEF WaitOf, SameKey, Sorted
  <2>2. ASSUME NEW i \in 1..n, s[i].fn \in {"join", "arena"}
        PROVE  s[i].fn # "entry"
    BY <2>2 DEF Sorted
  <2>3. ASSUME NEW t \in Waiting'
        PROVE  t \in (Waiting \ WaitOf(f)) \cup UNION {WaitOf(s[i]) : i \in 1..n}
    <3>1. PICK h \in Cores' : h.fn \in {"join", "arena"} /\ h.task = t
      BY DEF Waiting
    <3>2. CASE h \in N
      BY ONLY <1>9, <3>1, <3>2 DEF WaitOf
    <3>3. CASE h \notin N
      BY ONLY <1>3, <2>1, <3>1, <3>3 DEF Waiting
    <3> QED
      BY <3>2, <3>3
  <2>4. ASSUME NEW t \in Waiting, t \notin WaitOf(f)
        PROVE  t \in Waiting'
    <3>1. PICK h \in Cores : h.fn \in {"join", "arena"} /\ h.task = t
      BY DEF Waiting
    <3>2. h # c
      BY ONLY <1>6, <2>4, <3>1 DEF WaitOf
    <3> QED
      BY ONLY <1>3, <3>1, <3>2 DEF Waiting
  <2>5. ASSUME NEW i \in 1..n, NEW t \in WaitOf(s[i])
        PROVE  t \in Waiting'
    <3>1. s[i].fn \in {"join", "arena"} /\ t = s[i].task
      BY ONLY t \in WaitOf(s[i]) DEF WaitOf
    <3>2. Core(s[i]) \in Cores' /\ Core(s[i]).fn \in {"join", "arena"} /\ Core(s[i]).task = t
      BY ONLY <1>3, <1>8, <2>2, <3>1, i \in 1..n, CoreOf
    <3> QED
      BY ONLY <3>2 DEF Waiting
  <2> QED
    BY ONLY <2>3, <2>4, <2>5
<1>13. Unpushed' = (Unpushed \ PushOf(f)) \cup UNION {PushOf(s[i]) : i \in 1..n}
  <2>1. ASSUME NEW h \in Cores, h.at = "push", h # c
        PROVE  <<h.task, h.pos>> \notin PushOf(f)
    BY ONLY <1>5, <2>1, h \in Cores DEF PushOf, SameKey, Sorted
  <2>2. ASSUME NEW i \in 1..n, s[i].at = "push"
        PROVE  s[i].fn # "entry"
    BY <2>2 DEF Sorted
  <2>3. ASSUME NEW t \in Unpushed'
        PROVE  t \in (Unpushed \ PushOf(f)) \cup UNION {PushOf(s[i]) : i \in 1..n}
    <3>1. PICK h \in Cores' : h.at = "push" /\ <<h.task, h.pos>> = t
      BY DEF Unpushed
    <3>2. CASE h \in N
      BY ONLY <1>9, <3>1, <3>2 DEF PushOf
    <3>3. CASE h \notin N
      BY ONLY <1>3, <2>1, <3>1, <3>3 DEF Unpushed
    <3> QED
      BY <3>2, <3>3
  <2>4. ASSUME NEW t \in Unpushed, t \notin PushOf(f)
        PROVE  t \in Unpushed'
    <3>1. PICK h \in Cores : h.at = "push" /\ <<h.task, h.pos>> = t
      BY DEF Unpushed
    <3>2. h # c
      BY ONLY <1>6, <2>4, <3>1 DEF PushOf
    <3> QED
      BY ONLY <1>3, <3>1, <3>2 DEF Unpushed
  <2>5. ASSUME NEW i \in 1..n, NEW t \in PushOf(s[i])
        PROVE  t \in Unpushed'
    <3>1. s[i].at = "push" /\ t = <<s[i].task, s[i].pos>>
      BY ONLY t \in PushOf(s[i]) DEF PushOf
    <3>2. Core(s[i]) \in Cores' /\ Core(s[i]).at = "push" /\ <<Core(s[i]).task, Core(s[i]).pos>> = t
      BY ONLY <1>3, <1>8, <2>2, <3>1, i \in 1..n, CoreOf
    <3> QED
      BY ONLY <3>2 DEF Unpushed
  <2> QED
    BY ONLY <2>3, <2>4, <2>5
<1>14. Readied' = (Readied \ ReadyOf(f)) \cup UNION {ReadyOf(s[i]) : i \in 1..n}
  <2>1. ASSUME NEW h \in Cores, h.ready, h # c
        PROVE  h.task \notin ReadyOf(f)
    BY ONLY <1>5, <2>1, h \in Cores DEF ReadyOf, SameKey, Sorted
  <2>2. ASSUME NEW i \in 1..n, s[i].ready
        PROVE  s[i].fn # "entry"
    BY <2>2 DEF Sorted
  <2>3. ASSUME NEW t \in Readied'
        PROVE  t \in (Readied \ ReadyOf(f)) \cup UNION {ReadyOf(s[i]) : i \in 1..n}
    <3>1. PICK h \in Cores' : h.ready /\ h.task = t
      BY DEF Readied
    <3>2. CASE h \in N
      BY ONLY <1>9, <3>1, <3>2 DEF ReadyOf
    <3>3. CASE h \notin N
      BY ONLY <1>3, <2>1, <3>1, <3>3 DEF Readied
    <3> QED
      BY <3>2, <3>3
  <2>4. ASSUME NEW t \in Readied, t \notin ReadyOf(f)
        PROVE  t \in Readied'
    <3>1. PICK h \in Cores : h.ready /\ h.task = t
      BY DEF Readied
    <3>2. h # c
      BY ONLY <1>6, <2>4, <3>1 DEF ReadyOf
    <3> QED
      BY ONLY <1>3, <3>1, <3>2 DEF Readied
  <2>5. ASSUME NEW i \in 1..n, NEW t \in ReadyOf(s[i])
        PROVE  t \in Readied'
    <3>1. s[i].ready /\ t = s[i].task
      BY ONLY t \in ReadyOf(s[i]) DEF ReadyOf
    <3>2. Core(s[i]) \in Cores' /\ Core(s[i]).ready /\ Core(s[i]).task = t
      BY ONLY <1>3, <1>8, <2>2, <3>1, i \in 1..n, CoreOf
    <3> QED
      BY ONLY <3>2 DEF Readied
  <2> QED
    BY ONLY <2>3, <2>4, <2>5
<1> QED
  BY ONLY <1>1, <1>3, <1>10, <1>11, <1>12, <1>13, <1>14

-----------------------------------------------------------------------------
(* What the shape of the stacks says of these sets.                        *)
LEMMA WaitAt ==
  ASSUME Shape, NEW w \in Worker, NEW i \in 1..Len(calls[w]),
         calls[w][i].fn \in {"join", "arena"}
  PROVE  /\ i + 1 \in 1..Len(calls[w]) /\ calls[w][i].task \in Task
         /\ calls[w][i + 1].fn = "task" /\ calls[w][i + 1].at = "finish"
         /\ calls[w][i + 1].task = calls[w][i].task
<1>1. StackOK(w, i) /\ Nested(w, i) /\ Len(calls[w]) \in Nat
  BY DEF Shape
<1>2. i # Len(calls[w])
  BY ONLY <1>1, calls[w][i].fn \in {"join", "arena"} DEF StackOK
<1>3. i + 1 \in 1..Len(calls[w])
  BY ONLY <1>1, <1>2, i \in 1..Len(calls[w])
<1>4. /\ calls[w][i + 1].fn = "task" /\ calls[w][i + 1].at = "finish"
      /\ calls[w][i + 1].task = calls[w][i].task
  BY ONLY <1>1, calls[w][i].fn \in {"join", "arena"} DEF StackOK, Nested
<1>5. calls[w][i].task \in Task
  BY <1>1, KidsFacts DEF Nested
<1> QED
  BY <1>3, <1>4, <1>5

LEMMA CoreUnique ==
  ASSUME OnceOnStacks, NEW g \in Cores, NEW h \in Cores, SameKey(g, h)
  PROVE  g = h
<1>1. PICK v \in Worker : \E i \in 1..Len(calls[v]) : g = Core(calls[v][i])
  BY CoresMember
<1>2. PICK i \in 1..Len(calls[v]) : g = Core(calls[v][i])
  BY <1>1
<1>3. PICK w \in Worker : \E j \in 1..Len(calls[w]) : h = Core(calls[w][j])
  BY CoresMember
<1>4. PICK j \in 1..Len(calls[w]) : h = Core(calls[w][j])
  BY <1>3
<1>5. SameKey(calls[v][i], calls[w][j])
  BY ONLY <1>2, <1>4, CoreOf, SameKey(g, h) DEF SameKey
<1> QED
  BY <1>2, <1>4, <1>5 DEF OnceOnStacks

(* The frames of joins and arenas are above the task's they wait for.      *)
LEMMA CoreKinds ==
  ASSUME Shape, NEW h \in Cores
  PROVE  /\ h.fn = "task" => h.task \in Task /\ h.at \in {"body", "finish"}
         /\ h.fn \in {"join", "arena"} => h.task \in Ending /\ h.task \in Task
         /\ h.at = "push" => /\ h.task \in Task \ ArenaTask /\ h.pos \in Nat
                             /\ h.pos < Len(Children[h.task])
<1>1. PICK w \in Worker : \E i \in 1..Len(calls[w]) : h = Core(calls[w][i])
  BY CoresMember
<1>2. PICK i \in 1..Len(calls[w]) : h = Core(calls[w][i])
  BY <1>1
<1>3. /\ h.fn = calls[w][i].fn /\ h.task = calls[w][i].task /\ h.at = calls[w][i].at
      /\ h.pos = calls[w][i].pos
  BY <1>2, CoreOf
<1>4. Nested(w, i) /\ calls[w][i].pos \in Nat /\ Sorted(calls[w][i])
  <2>1. calls[w][i] \in Frames
    BY DEF Shape
  <2> QED
    BY <2>1, CoreFacts DEF Shape, Frames
<1>5. ASSUME h.fn \in {"join", "arena"}
      PROVE  h.task \in Ending /\ h.task \in Task
  <2>1. /\ i + 1 \in 1..Len(calls[w]) /\ calls[w][i + 1].fn = "task"
        /\ calls[w][i + 1].at = "finish" /\ calls[w][i + 1].task = h.task /\ h.task \in Task
    BY <1>3, <1>5, WaitAt
  <2>2. Core(calls[w][i + 1]) \in Cores
    BY <2>1, CoresMember
  <2> QED
    BY ONLY <2>1, <2>2, CoreOf DEF Ending
<1> QED
  BY ONLY <1>3, <1>4, <1>5 DEF Nested, Sorted

LEMMA SetFacts ==
  ASSUME Shape, OnceOnStacks
  PROVE  /\ Bodies \subseteq Task /\ Ending \subseteq Task /\ Bodies \cap Ending = {}
         /\ Waiting \subseteq Ending /\ Readied \subseteq Waiting
         /\ \A p, k : <<p, k>> \in Unpushed =>
              p \in Waiting /\ p \in Task \ ArenaTask /\ k \in Nat /\ k < Len(Children[p])
         /\ \A p, k, l : <<p, k>> \in Unpushed /\ <<p, l>> \in Unpushed => k = l
<1>1. \A h \in Cores : Sorted(h) /\ h.fn # "entry"
  BY CoreFacts
<1>2. Bodies \subseteq Task /\ Ending \subseteq Task
  BY <1>1, CoreKinds DEF Bodies, Ending, Sorted
<1>3. ASSUME NEW t \in Bodies, t \in Ending
      PROVE  FALSE
  <2>1. PICK g \in Cores : g.at = "body" /\ g.task = t
    BY DEF Bodies
  <2>2. PICK h \in Cores : h.at = "finish" /\ h.task = t
    BY <1>3 DEF Ending
  <2>3. SameKey(g, h)
    BY ONLY <1>1, <2>1, <2>2, g \in Cores, h \in Cores DEF Sorted, SameKey
  <2> QED
    BY <2>1, <2>2, <2>3, CoreUnique
<1>4. Waiting \subseteq Ending
  BY CoreKinds DEF Waiting
<1>5. Readied \subseteq Waiting
  BY <1>1 DEF Readied, Waiting, Sorted
<1>6. ASSUME NEW p, NEW k, <<p, k>> \in Unpushed
      PROVE  p \in Waiting /\ p \in Task \ ArenaTask /\ k \in Nat /\ k < Len(Children[p])
  <2>1. PICK h \in Cores : h.at = "push" /\ h.task = p /\ h.pos = k
    BY <1>6 DEF Unpushed
  <2>2. p \in Waiting
    BY ONLY <1>1, <2>1, h \in Cores DEF Waiting, Sorted
  <2> QED
    BY <2>1, <2>2, CoreKinds
<1>7. ASSUME NEW p, NEW k, NEW l, <<p, k>> \in Unpushed, <<p, l>> \in Unpushed
      PROVE  k = l
  <2>1. PICK g \in Cores : g.at = "push" /\ g.task = p /\ g.pos = k
    BY <1>7 DEF Unpushed
  <2>2. PICK h \in Cores : h.at = "push" /\ h.task = p /\ h.pos = l
    BY <1>7 DEF Unpushed
  <2>3. SameKey(g, h)
    BY ONLY <1>1, <2>1, <2>2, g \in Cores, h \in Cores DEF Sorted, SameKey
  <2>4. g = h
    BY <2>3, CoreUnique
  <2> QED
    BY ONLY <2>1, <2>2, <2>4
<1> QED
  BY ONLY <1>2, <1>3, <1>4, <1>5, <1>6, <1>7

(* The innermost frame of a worker.                                        *)
LEMMA TopFacts ==
  ASSUME Shape, OnceOnStacks, NEW w \in Worker, calls[w] # <<>>
  PROVE  /\ calls[w] \in Seq(Frames) /\ Len(calls[w]) \in Nat /\ Len(calls[w]) >= 1
         /\ Top(w) \in Frames /\ StackOK(w, 1) /\ Nested(w, 1) /\ Sorted(Top(w))
         /\ 1 \in 1..Len(calls[w]) /\ Top(w) = calls[w][1]
         /\ Top(w).fn # "entry" => /\ 2 \in 1..Len(calls[w]) /\ Len(calls[w]) >= 2
                                   /\ Top(w).task \in Task
         /\ Top(w).at = "body" => Top(w).fn = "task" /\ Top(w).task \in Bodies
         /\ Top(w).fn = "task" /\ Top(w).at = "finish" => Top(w).task \in Ending \ Waiting
         /\ Top(w).fn \in {"join", "arena"} => Top(w).task \in Waiting
         /\ Top(w).ready => Top(w).task \in Readied
         /\ Top(w).at = "push" => <<Top(w).task, Top(w).pos>> \in Unpushed
<1>1. /\ calls[w] \in Seq(Frames) /\ Len(calls[w]) \in Nat /\ Len(calls[w]) >= 1
      /\ 1 \in 1..Len(calls[w]) /\ Top(w) = calls[w][1]
  <2>1. calls[w] \in Seq(Frames)
    BY DEF Shape
  <2> QED
    BY ONLY <2>1, calls[w] # <<>> DEF Top
<1>2. Top(w) \in Frames /\ StackOK(w, 1) /\ Nested(w, 1) /\ Sorted(Top(w))
  BY <1>1, CoreFacts DEF Shape
<1>3. Top(w).fn # "entry" => Core(Top(w)) \in Cores
  BY <1>1, OneCore
<1>4. Top(w).fn # "entry" => /\ 2 \in 1..Len(calls[w]) /\ Len(calls[w]) >= 2
                             /\ Top(w).task \in Task
  <2>1. Top(w).fn # "entry" => 1 # Len(calls[w])
    BY ONLY <1>1, <1>2 DEF StackOK
  <2>2. Top(w).fn # "entry" => Top(w).task \in Task
    <3>1. ASSUME NEW h \in Cores, h = Core(Top(w)), Top(w).fn # "entry"
          PROVE  Top(w).task \in Task
      <4>1. /\ h.fn = "task" => h.task \in Task
            /\ h.fn \in {"join", "arena"} => h.task \in Task
        BY CoreKinds
      <4> QED
        BY ONLY <1>2, <3>1, <4>1, CoreOf DEF Sorted
    <3> QED
      BY ONLY <1>3, <3>1, Zenon
  <2> QED
    <3>1. \A k \in Nat : k >= 1 /\ 1 # k => 2 \in 1..k /\ k >= 2
      BY ONLY SMT
    <3> QED
      BY ONLY <1>1, <2>1, <2>2, <3>1
<1>5. /\ Top(w).at = "body" => Top(w).fn = "task" /\ Top(w).task \in Bodies
      /\ Top(w).fn \in {"join", "arena"} => Top(w).task \in Waiting
      /\ Top(w).ready => Top(w).task \in Readied
      /\ Top(w).at = "push" => <<Top(w).task, Top(w).pos>> \in Unpushed
  BY ONLY <1>2, <1>3, CoreOf DEF Sorted, Bodies, Waiting, Readied, Unpushed
<1>6. ASSUME Top(w).fn = "task", Top(w).at = "finish"
      PROVE  Top(w).task \in Ending \ Waiting
  <2>1. Top(w).task \in Ending
    BY ONLY <1>3, <1>6, CoreOf DEF Ending
  <2>2. ASSUME Top(w).task \in Waiting
        PROVE  FALSE
    <3>1. PICK h \in Cores : h.fn \in {"join", "arena"} /\ h.task = Top(w).task
      BY <2>2 DEF Waiting
    <3>2. PICK v \in Worker : \E i \in 1..Len(calls[v]) : h = Core(calls[v][i])
      BY CoresMember
    <3>3. PICK i \in 1..Len(calls[v]) : h = Core(calls[v][i])
      BY <3>2
    <3>4. calls[v][i].fn \in {"join", "arena"} /\ calls[v][i].task = Top(w).task
      BY ONLY <3>1, <3>3, CoreOf
    <3>5. i + 1 \in 1..Len(calls[v]) /\ calls[v][i + 1].fn = "task"
          /\ calls[v][i + 1].task = Top(w).task
      BY <3>4, WaitAt
    <3>6. SameKey(calls[v][i + 1], calls[w][1])
      BY ONLY <1>1, <1>6, <3>5 DEF SameKey
    <3>7. i + 1 = 1
      BY <1>1, <3>5, <3>6 DEF OnceOnStacks
    <3> QED
      BY ONLY <3>7, i \in 1..Len(calls[v])
  <2> QED
    BY <2>1, <2>2
<1> QED
  BY ONLY <1>1, <1>2, <1>4, <1>5, <1>6

-----------------------------------------------------------------------------
(* The ways to change a stack: another innermost frame, ...                *)
Goes(w, s, g) ==
  /\ Replaces(w, s, 1) /\ calls'[w] = s
  /\ s[1] = g /\ Len(s) = Len(calls[w])
  /\ Len(s) >= 2 => Core(s[2]) = Core(calls[w][2])

LEMMA GotoGoes ==
  ASSUME Shape, NEW w \in Worker, NEW g \in Frames, calls[w] # <<>>, Goto(w, g)
  PROVE  \E s : Goes(w, s, g)
<1> DEFINE s == [calls[w] EXCEPT ![1] = g]
<1>1. /\ calls[w] \in Seq(Frames) /\ Len(calls[w]) \in Nat /\ Len(calls[w]) >= 1
      /\ calls' = [calls EXCEPT ![w] = s] /\ calls'[w] = s
  BY DEF Shape, Goto
<1>2. /\ s \in Seq(Frames) /\ Len(s) = Len(calls[w]) /\ s[1] = g
      /\ \A i \in 2..Len(s) : s[i] = calls[w][i]
  BY <1>1
<1> HIDE DEF s
<1>3. ASSUME NEW i \in 1 + 1..Len(s)
      PROVE  Core(s[i]) = Core(calls[w][i - 1 + 1])
  <2>1. i \in 2..Len(s) /\ i - 1 + 1 = i
    BY ONLY <1>1, <1>2, i \in 1 + 1..Len(s)
  <2> QED
    BY ONLY <2>1, <1>2
<1>4. Replaces(w, s, 1)
  <2>1. 1 \in 0..2 /\ Len(s) + 1 = Len(calls[w]) + 1
    BY ONLY <1>1, <1>2
  <2> QED
    BY ONLY <2>1, <1>1, <1>2, <1>3, Zenon DEF Replaces
<1>5. Len(s) >= 2 => Core(s[2]) = Core(calls[w][2])
  <2>1. Len(s) >= 2 => 2 \in 2..Len(s)
    BY ONLY <1>1, <1>2
  <2> QED
    BY ONLY <2>1, <1>2
<1>6. Goes(w, s, g)
  BY ONLY <1>1, <1>2, <1>4, <1>5 DEF Goes
<1> QED
  BY ONLY <1>6

(* ... or with it the visits of the others, ...                            *)
LEMMA ShuffleGoes ==
  ASSUME Shape, NEW w \in Worker, calls[w] # <<>>, Shuffle(w)
  PROVE  \E s : Goes(w, s, [Top(w) EXCEPT !.at = "scan", !.pos = 0, !.seen = {}])
<1> DEFINE g == [Top(w) EXCEPT !.at = "scan", !.pos = 0, !.seen = {}]
           s == [i \in 1..Len(calls[w]) |->
                   IF i = 1 THEN [calls[w][i] EXCEPT !.at = "scan", !.pos = 0, !.seen = {}]
                            ELSE [calls[w][i] EXCEPT !.seen = {}]]
<1>1. /\ calls[w] \in Seq(Frames) /\ Len(calls[w]) \in Nat /\ Len(calls[w]) >= 1
      /\ calls' = [calls EXCEPT ![w] = s] /\ calls'[w] = s
  <2>1. calls' = [calls EXCEPT ![w] = s]
    BY DEF Shuffle
  <2>2. calls \in [Worker -> Seq(Frames)]
    BY DEF Shape
  <2> HIDE DEF s
  <2> QED
    BY ONLY <2>1, <2>2, w \in Worker, calls[w] # <<>>
<1>2. ASSUME NEW i \in 1..Len(calls[w])
      PROVE  /\ i = 1 => s[i] = g
             /\ i # 1 => s[i] = [calls[w][i] EXCEPT !.seen = {}]
  BY ONLY i \in 1..Len(calls[w]) DEF Top
<1>3. s = [i \in 1..Len(calls[w]) |-> s[i]]
  OBVIOUS
<1> HIDE DEF s
<1>4. ASSUME NEW f \in Frames
      PROVE  /\ [f EXCEPT !.seen = {}] \in Frames
             /\ [f EXCEPT !.at = "scan", !.pos = 0, !.seen = {}] \in Frames
             /\ Core([f EXCEPT !.seen = {}]) = Core(f)
  BY ONLY f \in Frames DEF Frames, AtLook, Core
<1>5. ASSUME NEW i \in 1..Len(calls[w])
      PROVE  s[i] \in Frames /\ (i # 1 => Core(s[i]) = Core(calls[w][i]))
  <2>1. calls[w][i] \in Frames
    BY ONLY <1>1, i \in 1..Len(calls[w])
  <2>2. i = 1 => g \in Frames
    BY ONLY <1>4, <2>1 DEF Top
  <2> QED
    BY ONLY <1>2, <1>4, <2>1, <2>2
<1> HIDE DEF g
<1>6. s \in Seq(Frames) /\ Len(s) = Len(calls[w]) /\ s[1] = g
  <2>1. s \in [1..Len(calls[w]) -> Frames]
    BY ONLY <1>3, <1>5
  <2>2. s \in Seq(Frames) /\ Len(s) = Len(calls[w])
    BY ONLY <1>1, <2>1
  <2>3. 1 \in 1..Len(calls[w])
    BY ONLY <1>1
  <2> QED
    BY ONLY <2>2, <2>3, <1>2
<1>7. ASSUME NEW i \in 1 + 1..Len(s)
      PROVE  Core(s[i]) = Core(calls[w][i - 1 + 1])
  <2>1. i \in 1..Len(calls[w]) /\ i # 1 /\ i - 1 + 1 = i
    BY ONLY <1>1, <1>6, i \in 1 + 1..Len(s)
  <2> QED
    BY ONLY <2>1, <1>5
<1>8. Replaces(w, s, 1)
  <2>1. 1 \in 0..2 /\ Len(s) + 1 = Len(calls[w]) + 1
    BY ONLY <1>1, <1>6
  <2> QED
    BY ONLY <2>1, <1>1, <1>6, <1>7, Zenon DEF Replaces
<1>9. Len(s) >= 2 => Core(s[2]) = Core(calls[w][2])
  <2>1. Len(s) >= 2 => 2 \in 1..Len(calls[w]) /\ 2 # 1
    BY ONLY <1>1, <1>6
  <2> QED
    BY ONLY <2>1, <1>5
<1>10. Goes(w, s, g)
  BY ONLY <1>1, <1>6, <1>8, <1>9 DEF Goes
<1> QED
  BY ONLY <1>10 DEF g

(* ... one more on top of the innermost one, which may change, ...         *)
Pushed(w, s, f, g) ==
  /\ Replaces(w, s, 2) /\ calls'[w] = s
  /\ s[1] = f /\ s[2] = g /\ Len(s) = Len(calls[w]) + 1
  /\ Len(s) >= 3 => Core(s[3]) = Core(calls[w][2])

LEMMA PushGoes ==
  ASSUME Shape, NEW w \in Worker, NEW f \in Frames, NEW g \in Frames, calls[w] # <<>>,
         calls' = [calls EXCEPT ![w] = <<f, g>> \o Tail(@)]
  PROVE  \E s : Pushed(w, s, f, g)
<1> DEFINE r == Tail(calls[w])
           s == <<f, g>> \o r
<1>1. r = Tail(calls[w]) /\ s = <<f, g>> \o r /\ calls' = [calls EXCEPT ![w] = s]
  OBVIOUS
<1> HIDE DEF r, s
<1>2. calls[w] \in Seq(Frames) /\ Len(calls[w]) \in Nat /\ Len(calls[w]) >= 1 /\ calls'[w] = s
  BY ONLY Shape, w \in Worker, <1>1, calls[w] # <<>> DEF Shape
<1>3. /\ s \in Seq(Frames) /\ Len(s) = Len(calls[w]) + 1 /\ s[1] = f /\ s[2] = g
      /\ \A i \in 3..Len(s) : s[i] = calls[w][i - 1]
  BY ONLY <1>1, <1>2, PushedSeq, f \in Frames, g \in Frames
<1>4. ASSUME NEW i \in 2 + 1..Len(s)
      PROVE  Core(s[i]) = Core(calls[w][i - 2 + 1])
  <2>1. i \in 3..Len(s) /\ i - 2 + 1 = i - 1
    BY ONLY <1>2, <1>3, i \in 2 + 1..Len(s)
  <2> QED
    BY ONLY <2>1, <1>3
<1>5. Replaces(w, s, 2)
  <2>1. 2 \in 0..2 /\ Len(s) + 1 = Len(calls[w]) + 2
    BY ONLY <1>2, <1>3
  <2> QED
    BY ONLY <2>1, <1>1, <1>2, <1>3, <1>4, Zenon DEF Replaces
<1>6. Len(s) >= 3 => Core(s[3]) = Core(calls[w][2])
  <2>1. Len(s) >= 3 => 3 \in 3..Len(s) /\ 3 - 1 = 2
    BY ONLY <1>2, <1>3
  <2> QED
    BY ONLY <2>1, <1>3
<1>7. Pushed(w, s, f, g)
  BY ONLY <1>2, <1>3, <1>5, <1>6 DEF Pushed
<1> QED
  BY ONLY <1>7

(* ... one frame less.                                                     *)
Popped(w, s) ==
  /\ Replaces(w, s, 0) /\ calls'[w] = s /\ Len(s) = Len(calls[w]) - 1
  /\ s # <<>> => 2 \in 1..Len(calls[w]) /\ s[1] = calls[w][2]

LEMMA PopGoes ==
  ASSUME Shape, NEW w \in Worker, calls[w] # <<>>, Return(w)
  PROVE  \E s : Popped(w, s)
<1> DEFINE s == Tail(calls[w])
<1>1. s = Tail(calls[w]) /\ calls' = [calls EXCEPT ![w] = s]
  BY DEF Return
<1> HIDE DEF s
<1>2. calls[w] \in Seq(Frames) /\ Len(calls[w]) \in Nat /\ Len(calls[w]) >= 1 /\ calls'[w] = s
  BY ONLY Shape, w \in Worker, <1>1, calls[w] # <<>> DEF Shape
<1>3. s \in Seq(Frames) /\ Len(s) = Len(calls[w]) - 1 /\ \A i \in 1..Len(s) : s[i] = calls[w][i + 1]
  BY ONLY <1>1, <1>2
<1>4. ASSUME NEW i \in 0 + 1..Len(s)
      PROVE  Core(s[i]) = Core(calls[w][i - 0 + 1])
  <2>1. i \in 1..Len(s) /\ i - 0 + 1 = i + 1
    BY ONLY <1>2, <1>3, i \in 0 + 1..Len(s)
  <2> QED
    BY ONLY <2>1, <1>3
<1>5. Replaces(w, s, 0)
  <2>1. 0 \in 0..2 /\ Len(s) + 1 = Len(calls[w]) + 0
    BY ONLY <1>2, <1>3
  <2> QED
    BY ONLY <2>1, <1>1, <1>2, <1>3, <1>4, Zenon DEF Replaces
<1>6. s # <<>> => 2 \in 1..Len(calls[w]) /\ s[1] = calls[w][2]
  <2>1. s # <<>> => 1 \in 1..Len(s) /\ 1 + 1 = 2 /\ 2 \in 1..Len(calls[w])
    BY ONLY <1>2, <1>3
  <2> QED
    BY ONLY <2>1, <1>3
<1>7. Popped(w, s)
  BY ONLY <1>2, <1>3, <1>5, <1>6 DEF Popped
<1> QED
  BY ONLY <1>7

-----------------------------------------------------------------------------
(* The kinds of steps of a worker.  The rest of the pool sees the sets of  *)
(* functions, and that a stopped worker is not about to try_pop.           *)
Calm(w) ==
  /\ \A v \in Worker \ {w} : calls'[v] = calls[v]
  /\ calls'[w] # <<>> /\ Stopped(w) => calls'[w][1].at \notin {"ownPop", "steal"}

LEMMA Single ==
  ASSUME NEW s
  PROVE  /\ UNION {BodyOf(s[i]) : i \in 1..1} = BodyOf(s[1])
         /\ UNION {EndOf(s[i]) : i \in 1..1} = EndOf(s[1])
         /\ UNION {WaitOf(s[i]) : i \in 1..1} = WaitOf(s[1])
         /\ UNION {PushOf(s[i]) : i \in 1..1} = PushOf(s[1])
         /\ UNION {ReadyOf(s[i]) : i \in 1..1} = ReadyOf(s[1])
<1>1. 1..1 = {1}
  BY ONLY SMT
<1> QED
  BY ONLY <1>1, Zenon

LEMMA Double ==
  ASSUME NEW s
  PROVE  /\ UNION {BodyOf(s[i]) : i \in 1..2} = BodyOf(s[1]) \cup BodyOf(s[2])
         /\ UNION {EndOf(s[i]) : i \in 1..2} = EndOf(s[1]) \cup EndOf(s[2])
         /\ UNION {WaitOf(s[i]) : i \in 1..2} = WaitOf(s[1]) \cup WaitOf(s[2])
         /\ UNION {PushOf(s[i]) : i \in 1..2} = PushOf(s[1]) \cup PushOf(s[2])
         /\ UNION {ReadyOf(s[i]) : i \in 1..2} = ReadyOf(s[1]) \cup ReadyOf(s[2])
<1>1. 1..2 = {1, 2}
  BY ONLY SMT
<1> QED
  BY ONLY <1>1, Zenon

(* A frame of _look_for_task goes on; a join that pushes is one too.       *)
Turns(w, g) ==
  /\ calls[w] # <<>> /\ g \in Frames
  /\ Top(w).fn \in Looking /\ g.fn = Top(w).fn /\ g.task = Top(w).task
  /\ Top(w).at \in AtLook \cup {"push"} /\ g.at \in AtLook \cup {"push"}
  /\ g.at = "push" => g.fn = "join" /\ g.pos < Len(Children[g.task])
  /\ g.ready => Top(w).ready \/ (g.fn = "join" /\ latch[g.task] = 0)
  /\ Stopped(w) => g.at \notin {"ownPop", "steal"}

LEMMA Turned ==
  ASSUME Shape, OnceOnStacks, NEW w \in Worker, NEW g, Turns(w, g), NEW s, Goes(w, s, g)
  PROVE  /\ Shape' /\ OnceOnStacks' /\ Calm(w)
         /\ Bodies' = Bodies /\ Ending' = Ending /\ Waiting' = Waiting
         /\ Unpushed' = (Unpushed \ PushOf(Top(w))) \cup PushOf(g)
         /\ \A p \in Readied' : p \in Readied \/ latch[p] = 0
<1>1. /\ calls[w] # <<>> /\ g \in Frames
      /\ Top(w).fn \in Looking /\ g.fn = Top(w).fn /\ g.task = Top(w).task
      /\ Top(w).at \in AtLook \cup {"push"} /\ g.at \in AtLook \cup {"push"}
      /\ g.at = "push" => g.fn = "join" /\ g.pos < Len(Children[g.task])
      /\ g.ready => Top(w).ready \/ (g.fn = "join" /\ latch[g.task] = 0)
      /\ Stopped(w) => g.at \notin {"ownPop", "steal"}
  BY DEF Turns
<1>2. /\ Replaces(w, s, 1) /\ calls'[w] = s /\ s[1] = g /\ Len(s) = Len(calls[w])
      /\ Len(s) >= 2 => Core(s[2]) = Core(calls[w][2])
  BY DEF Goes
<1>3. /\ StackOK(w, 1) /\ Nested(w, 1) /\ Sorted(Top(w)) /\ Top(w) = calls[w][1]
      /\ 1 \in 1..Len(calls[w]) /\ Len(calls[w]) \in Nat
      /\ Top(w).fn # "entry" => Len(calls[w]) >= 2
      /\ Top(w).fn \in {"join", "arena"} => Top(w).task \in Waiting
      /\ Top(w).ready => Top(w).task \in Readied
  BY <1>1, TopFacts
<1>4. Sorted(g)
  BY ONLY <1>1, <1>3 DEF Sorted, Looking, AtLook
<1>5. StackOK(w, 1)' /\ Nested(w, 1)'
  <2>1. g.fn = "join" => s[2].fn = "task" /\ s[2].task = g.task /\ s[2].at = "finish"
    <3>1. g.fn = "join" => /\ Core(s[2]) = Core(calls[w][2]) /\ calls[w][1 + 1].fn = "task"
                           /\ calls[w][1 + 1].task = g.task /\ calls[w][1 + 1].at = "finish"
      BY ONLY <1>1, <1>2, <1>3 DEF StackOK, Nested
    <3> QED
      BY ONLY <3>1, CoreOf
  <2>2. g.fn = "entry" <=> 1 = Len(s)
    BY ONLY <1>1, <1>2, <1>3 DEF StackOK
  <2>3. g.fn \in {"entry", "join"}
    BY ONLY <1>1 DEF Looking
  <2>4. StackOK(w, 1)'
    BY ONLY <1>2, <2>1, <2>2, <2>3 DEF StackOK, Looking
  <2>5. /\ g.fn = "entry" => g.at \in AtLook /\ g.task = None
        /\ g.fn = "join" => g.at \in AtLook \cup {"push"} /\ g.task \in Task \ ArenaTask
        /\ g.ready => g.fn = "join"
    BY ONLY <1>1, <1>3, <1>4, <2>3 DEF Nested, Sorted
  <2>6. Nested(w, 1)'
    BY ONLY <1>1, <1>2, <2>1, <2>3, <2>5 DEF Nested
  <2> QED
    BY ONLY <2>4, <2>6
<1>6. Shape'
  <2>1. \A i \in 1..1 : i = 1
    BY ONLY SMT
  <2>2. \A i \in 1..1 : StackOK(w, i)' /\ Nested(w, i)'
    BY ONLY <1>5, <2>1
  <2> QED
    BY ONLY <1>2, <2>2, Shape, w \in Worker, ShapeStep
<1>7. NoOther(w, s, 1)
  <2>1. \A i \in 1..1 : i = 1
    BY ONLY SMT
  <2>2. ASSUME NEW v \in Worker, NEW j \in 1..Len(calls[v]), SameKey(g, calls[v][j])
        PROVE  v = w /\ j = 1
    <3>1. SameKey(calls[w][1], calls[v][j])
      BY ONLY <1>1, <1>3, <2>2 DEF SameKey
    <3> QED
      BY <3>1, <1>3 DEF OnceOnStacks
  <2> QED
    BY ONLY <1>2, <2>1, <2>2 DEF NoOther
<1>8. /\ OnceOnStacks'
      /\ Bodies' = (Bodies \ BodyOf(Top(w))) \cup BodyOf(g)
      /\ Ending' = (Ending \ EndOf(Top(w))) \cup EndOf(g)
      /\ Waiting' = (Waiting \ WaitOf(Top(w))) \cup WaitOf(g)
      /\ Unpushed' = (Unpushed \ PushOf(Top(w))) \cup PushOf(g)
      /\ Readied' = (Readied \ ReadyOf(Top(w))) \cup ReadyOf(g)
  <2>1. \A i \in 1..1 : Sorted(s[i])
    <3>1. \A i \in 1..1 : i = 1
      BY ONLY SMT
    <3> QED
      BY ONLY <1>2, <1>4, <3>1
  <2> QED
    BY ONLY <1>2, <1>7, <2>1, Shape, OnceOnStacks, w \in Worker, SetsStep, Single
<1>9. /\ BodyOf(Top(w)) = {} /\ BodyOf(g) = {} /\ EndOf(Top(w)) = {} /\ EndOf(g) = {}
      /\ WaitOf(g) = WaitOf(Top(w)) /\ WaitOf(g) \subseteq Waiting
  BY ONLY <1>1, <1>3 DEF BodyOf, EndOf, WaitOf, AtLook, Looking
<1>10. \A p \in ReadyOf(g) : p \in Readied \/ latch[p] = 0
  BY ONLY <1>1, <1>3 DEF ReadyOf
<1>11. Calm(w)
  <2>1. \A v \in Worker \ {w} : calls'[v] = calls[v]
    BY ONLY <1>2, Shape, w \in Worker, StackAfter
  <2> QED
    BY ONLY <1>1, <1>2, <2>1 DEF Calm
<1> QED
  BY ONLY <1>6, <1>8, <1>9, <1>10, <1>11

(* A frame is popped.                                                      *)
LEMMA Left ==
  ASSUME Shape, OnceOnStacks, NEW w \in Worker, calls[w] # <<>>, NEW s, Popped(w, s)
  PROVE  /\ Shape' /\ OnceOnStacks' /\ Calm(w)
         /\ Bodies' = Bodies \ BodyOf(Top(w)) /\ Ending' = Ending \ EndOf(Top(w))
         /\ Waiting' = Waiting \ WaitOf(Top(w)) /\ Unpushed' = Unpushed \ PushOf(Top(w))
         /\ Readied' \subseteq Readied
<1>1. /\ Replaces(w, s, 0) /\ calls'[w] = s
      /\ s # <<>> => 2 \in 1..Len(calls[w]) /\ s[1] = calls[w][2]
  BY DEF Popped
<1>2. 1..0 = {}
  BY ONLY SMT
<1>3. Shape'
  <2>1. \A i \in 1..0 : StackOK(w, i)' /\ Nested(w, i)'
    BY ONLY <1>2
  <2> QED
    BY ONLY <1>1, <2>1, Shape, w \in Worker, ShapeStep
<1>4. NoOther(w, s, 0) /\ \A i \in 1..0 : Sorted(s[i])
  BY ONLY <1>2 DEF NoOther
<1>5. /\ OnceOnStacks'
      /\ Bodies' = (Bodies \ BodyOf(Top(w))) \cup UNION {BodyOf(s[i]) : i \in 1..0}
      /\ Ending' = (Ending \ EndOf(Top(w))) \cup UNION {EndOf(s[i]) : i \in 1..0}
      /\ Waiting' = (Waiting \ WaitOf(Top(w))) \cup UNION {WaitOf(s[i]) : i \in 1..0}
      /\ Unpushed' = (Unpushed \ PushOf(Top(w))) \cup UNION {PushOf(s[i]) : i \in 1..0}
      /\ Readied' = (Readied \ ReadyOf(Top(w))) \cup UNION {ReadyOf(s[i]) : i \in 1..0}
  BY ONLY <1>1, <1>4, Shape, OnceOnStacks, w \in Worker, SetsStep
<1>6. /\ UNION {BodyOf(s[i]) : i \in 1..0} = {} /\ UNION {EndOf(s[i]) : i \in 1..0} = {}
      /\ UNION {WaitOf(s[i]) : i \in 1..0} = {} /\ UNION {PushOf(s[i]) : i \in 1..0} = {}
      /\ UNION {ReadyOf(s[i]) : i \in 1..0} = {}
  BY ONLY <1>2
<1>7. Calm(w)
  <2>1. \A v \in Worker \ {w} : calls'[v] = calls[v]
    BY ONLY <1>1, Shape, w \in Worker, StackAfter
  <2>2. s # <<>> => s[1].at \in {"finish", "own", "scan"}
    <3>1. s # <<>> => Nested(w, 2)
      BY <1>1 DEF Shape
    <3> QED
      BY ONLY <1>1, <3>1 DEF Nested
  <2> QED
    BY ONLY <1>1, <2>1, <2>2 DEF Calm
<1> QED
  BY ONLY <1>3, <1>5, <1>6, <1>7

(* A function at its start calls join or arena.                            *)
Calls(w, f, g) ==
  /\ calls[w] # <<>> /\ Top(w).at = "body"
  /\ g = [Top(w) EXCEPT !.at = "finish"]
  /\ \/ /\ f = Frame("join", Top(w).task, "push")
        /\ Top(w).task \notin ArenaTask /\ Children[Top(w).task] # <<>>
     \/ f = Frame("arena", Top(w).task, "wait") /\ Top(w).task \in ArenaTask

LEMMA Called ==
  ASSUME Shape, OnceOnStacks, NEW w \in Worker, NEW f, NEW g, Calls(w, f, g),
         calls' = [calls EXCEPT ![w] = <<f, g>> \o Tail(@)]
  PROVE  /\ Shape' /\ OnceOnStacks' /\ Calm(w)
         /\ Bodies' = Bodies \ {Top(w).task} /\ Ending' = Ending \cup {Top(w).task}
         /\ Waiting' = Waiting \cup {Top(w).task} /\ Unpushed' = Unpushed \cup PushOf(f)
         /\ Readied' = Readied
<1> DEFINE t == Top(w).task
<1>1. /\ calls[w] # <<>> /\ Top(w).at = "body"
      /\ g = [Top(w) EXCEPT !.at = "finish"]
      /\ \/ f = Frame("join", t, "push") /\ t \notin ArenaTask /\ Children[t] # <<>>
         \/ f = Frame("arena", t, "wait") /\ t \in ArenaTask
  BY DEF Calls
<1>2. /\ StackOK(w, 1) /\ Nested(w, 1) /\ Sorted(Top(w)) /\ Top(w) = calls[w][1]
      /\ 1 \in 1..Len(calls[w]) /\ Len(calls[w]) \in Nat
      /\ Top(w).fn = "task" /\ t \in Bodies /\ t \in Task /\ Top(w) \in Frames
      /\ 2 \in 1..Len(calls[w]) /\ Len(calls[w]) >= 2
  <2>1. Top(w).fn = "task"
    BY <1>1, TopFacts
  <2> QED
    BY <1>1, <2>1, TopFacts
<1> HIDE DEF t
<1>3. /\ g \in Frames /\ g.fn = "task" /\ g.task = t /\ g.at = "finish" /\ ~g.ready
  BY ONLY <1>1, <1>2 DEF Frames, Sorted, t
<1>4. /\ f \in Frames /\ f.task = t /\ f.ready = FALSE /\ f.pos = 0
      /\ \/ f.fn = "join" /\ f.at = "push" /\ t \in Task \ ArenaTask /\ Children[t] # <<>>
         \/ f.fn = "arena" /\ f.at = "wait" /\ t \in ArenaTask
  <2>1. \A fn \in {"join", "arena"}, at \in {"push", "wait"} : f = Frame(fn, t, at) =>
          /\ f \in Frames /\ f.task = t /\ f.ready = FALSE /\ f.pos = 0
          /\ f.fn = fn /\ f.at = at
    BY ONLY <1>2, KidsFacts DEF Frames, Frame
  <2>2. CASE f = Frame("join", t, "push") /\ t \notin ArenaTask /\ Children[t] # <<>>
    BY ONLY <1>2, <2>1, <2>2
  <2>3. CASE f = Frame("arena", t, "wait") /\ t \in ArenaTask
    BY ONLY <2>1, <2>3
  <2> QED
    BY ONLY <1>1, <2>2, <2>3
<1>5. PICK s : Pushed(w, s, f, g)
  BY <1>1, <1>3, <1>4, PushGoes
<1>6. /\ Replaces(w, s, 2) /\ calls'[w] = s
      /\ s[1] = f /\ s[2] = g /\ Len(s) = Len(calls[w]) + 1
      /\ Len(s) >= 3 => Core(s[3]) = Core(calls[w][2])
  BY <1>5 DEF Pushed
<1>7. 1 # Len(s) /\ 2 # Len(s) /\ Len(s) >= 3
  BY ONLY <1>2, <1>6
<1>8. StackOK(w, 1)' /\ Nested(w, 1)'
  <2>1. 1 + 1 = 2 /\ ~(1 > 1)
    BY ONLY SMT
  <2>2. StackOK(w, 1)'
    BY ONLY <1>3, <1>4, <1>6, <1>7, <2>1 DEF StackOK
  <2>3. f.at = "push" => f.pos < Len(Children[f.task])
    <3>1. Children[t] \in Seq(Task)
      BY ONLY <1>2, PoolAssumption
    <3> QED
      BY ONLY <1>4, <3>1
  <2> QED
    BY ONLY <1>3, <1>4, <1>6, <2>1, <2>2, <2>3 DEF Nested
<1>9. StackOK(w, 2)' /\ Nested(w, 2)'
  <2>1. s[3].fn \in Looking
    <3>1. calls[w][1 + 1].fn \in Looking
      BY ONLY <1>2 DEF StackOK
    <3>2. 1 + 1 = 2
      BY ONLY SMT
    <3> QED
      BY ONLY <1>6, <1>7, <3>1, <3>2, CoreOf
  <2>2. 2 + 1 = 3
    BY ONLY SMT
  <2>3. StackOK(w, 2)'
    BY ONLY <1>3, <1>6, <1>7, <2>1, <2>2 DEF StackOK
  <2> QED
    BY ONLY <1>2, <1>3, <1>6, <2>3 DEF Nested
<1>10. \A i \in 1..2 : i = 1 \/ i = 2
  BY ONLY SMT
<1>11. Shape'
  <2>1. \A i \in 1..2 : StackOK(w, i)' /\ Nested(w, i)'
    BY ONLY <1>8, <1>9, <1>10
  <2> QED
    BY ONLY <1>6, <2>1, Shape, w \in Worker, ShapeStep
<1>12. NoOther(w, s, 2)
  <2>1. ASSUME NEW v \in Worker, NEW j \in 1..Len(calls[v]), SameKey(f, calls[v][j])
        PROVE  FALSE
    <3>1. calls[v][j].fn \in {"join", "arena"} /\ calls[v][j].task = t
      <4>1. Sorted(calls[v][j])
        BY CoreFacts
      <4> QED
        BY ONLY <1>4, <2>1, <4>1 DEF SameKey, Sorted
    <3>2. t \in Ending
      <4>1. Core(calls[v][j]) \in Cores
        BY <3>1, CoresMember
      <4>2. t \in Waiting
        BY ONLY <3>1, <4>1, CoreOf DEF Waiting
      <4> QED
        BY <4>2, SetFacts
    <3> QED
      BY <1>2, <3>2, SetFacts
  <2>2. ASSUME NEW v \in Worker, NEW j \in 1..Len(calls[v]), SameKey(g, calls[v][j])
        PROVE  v = w /\ j = 1
    <3>1. SameKey(calls[w][1], calls[v][j])
      BY ONLY <1>2, <1>3, <2>2 DEF SameKey, t
    <3> QED
      BY <3>1, <1>2 DEF OnceOnStacks
  <2>3. ~SameKey(f, g) /\ ~SameKey(g, f)
    BY ONLY <1>3, <1>4 DEF SameKey
  <2> QED
    BY ONLY <1>6, <1>10, <2>1, <2>2, <2>3 DEF NoOther
<1>13. /\ OnceOnStacks'
       /\ Bodies' = (Bodies \ BodyOf(Top(w))) \cup (BodyOf(f) \cup BodyOf(g))
       /\ Ending' = (Ending \ EndOf(Top(w))) \cup (EndOf(f) \cup EndOf(g))
       /\ Waiting' = (Waiting \ WaitOf(Top(w))) \cup (WaitOf(f) \cup WaitOf(g))
       /\ Unpushed' = (Unpushed \ PushOf(Top(w))) \cup (PushOf(f) \cup PushOf(g))
       /\ Readied' = (Readied \ ReadyOf(Top(w))) \cup (ReadyOf(f) \cup ReadyOf(g))
  <2>1. \A i \in 1..2 : Sorted(s[i])
    <3>1. Sorted(f) /\ Sorted(g)
      BY ONLY <1>3, <1>4 DEF Sorted
    <3> QED
      BY ONLY <1>6, <1>10, <3>1
  <2>2. s[1] = f /\ s[2] = g
    BY <1>6
  <2> QED
    BY ONLY <1>6, <1>12, <2>1, <2>2, Shape, OnceOnStacks, w \in Worker, SetsStep, Double
<1>14. /\ BodyOf(Top(w)) = {t} /\ BodyOf(f) = {} /\ BodyOf(g) = {}
       /\ EndOf(Top(w)) = {} /\ EndOf(f) = {} /\ EndOf(g) = {t}
       /\ WaitOf(Top(w)) = {} /\ WaitOf(f) = {t} /\ WaitOf(g) = {}
       /\ PushOf(Top(w)) = {} /\ PushOf(g) = {}
       /\ ReadyOf(Top(w)) = {} /\ ReadyOf(f) = {} /\ ReadyOf(g) = {}
  BY ONLY <1>1, <1>2, <1>3, <1>4 DEF BodyOf, EndOf, WaitOf, PushOf, ReadyOf, Sorted, t
<1>15. Calm(w)
  <2>1. \A v \in Worker \ {w} : calls'[v] = calls[v]
    BY ONLY <1>6, Shape, w \in Worker, StackAfter
  <2> QED
    BY ONLY <1>4, <1>6, <2>1 DEF Calm
<1> QED
  BY ONLY <1>11, <1>13, <1>14, <1>15 DEF t

(* A task is run on top of a frame of _look_for_task.                      *)
Lands(w, u, g) ==
  /\ calls[w] # <<>> /\ u \in Task
  /\ Top(w).fn \in Looking /\ Top(w).at \in AtLook
  /\ g \in {[Top(w) EXCEPT !.at = "own"], [Top(w) EXCEPT !.at = "scan"]}

LEMMA Landed ==
  ASSUME Shape, OnceOnStacks, NEW w \in Worker, NEW u, NEW g, Lands(w, u, g),
         u \notin Bodies, u \notin Ending,
         calls' = [calls EXCEPT ![w] = <<Frame("task", u, "body"), g>> \o Tail(@)]
  PROVE  /\ Shape' /\ OnceOnStacks' /\ Calm(w)
         /\ Bodies' = Bodies \cup {u} /\ Ending' = Ending
         /\ Waiting' = Waiting /\ Unpushed' = Unpushed /\ Readied' = Readied
<1>0. PICK f : f = Frame("task", u, "body")
  OBVIOUS
<1>1. /\ calls[w] # <<>> /\ u \in Task
      /\ Top(w).fn \in Looking /\ Top(w).at \in AtLook
      /\ g \in {[Top(w) EXCEPT !.at = "own"], [Top(w) EXCEPT !.at = "scan"]}
      /\ calls' = [calls EXCEPT ![w] = <<f, g>> \o Tail(@)]
  BY <1>0 DEF Lands
<1>2. /\ StackOK(w, 1) /\ Nested(w, 1) /\ Sorted(Top(w)) /\ Top(w) = calls[w][1]
      /\ 1 \in 1..Len(calls[w]) /\ Len(calls[w]) \in Nat /\ Top(w) \in Frames
      /\ Top(w).fn # "entry" => Len(calls[w]) >= 2
      /\ Top(w).fn \in {"join", "arena"} => Top(w).task \in Waiting
      /\ Top(w).ready => Top(w).task \in Readied
      /\ Len(calls[w]) >= 1
  BY <1>1, TopFacts
<1>3. /\ g \in Frames /\ g.fn = Top(w).fn /\ g.task = Top(w).task /\ g.ready = Top(w).ready
      /\ g.at \in {"own", "scan"}
  BY ONLY <1>1, <1>2 DEF Frames, AtLook
<1>4. /\ f \in Frames /\ f.fn = "task" /\ f.task = u /\ f.at = "body" /\ f.ready = FALSE
  BY ONLY <1>0, <1>1, KidsFacts DEF Frames, Frame
<1>5. PICK s : Pushed(w, s, f, g)
  BY <1>1, <1>3, <1>4, PushGoes
<1>6. /\ Replaces(w, s, 2) /\ calls'[w] = s
      /\ s[1] = f /\ s[2] = g /\ Len(s) = Len(calls[w]) + 1
      /\ Len(s) >= 3 => Core(s[3]) = Core(calls[w][2])
  BY <1>5 DEF Pushed
<1>7. 1 # Len(s) /\ (2 = Len(s) <=> 1 = Len(calls[w])) /\ (Len(calls[w]) >= 2 => Len(s) >= 3)
  <2>1. \A k \in Nat : k >= 1 => 1 # k + 1 /\ (2 = k + 1 <=> 1 = k) /\ (k >= 2 => k + 1 >= 3)
    BY ONLY SMT
  <2> QED
    BY ONLY <1>2, <1>6, <2>1
<1>8. StackOK(w, 1)' /\ Nested(w, 1)'
  <2>1. 1 + 1 = 2 /\ ~(1 > 1)
    BY ONLY SMT
  <2>2. StackOK(w, 1)'
    BY ONLY <1>1, <1>3, <1>4, <1>6, <1>7, <2>1 DEF StackOK
  <2> QED
    BY ONLY <1>1, <1>4, <1>6, <2>1, <2>2 DEF Nested
<1>9. StackOK(w, 2)' /\ Nested(w, 2)'
  <2>1. g.fn = "join" => s[3].fn = "task" /\ s[3].task = g.task /\ s[3].at = "finish"
    <3>1. g.fn = "join" => /\ Core(s[3]) = Core(calls[w][2]) /\ calls[w][1 + 1].fn = "task"
                           /\ calls[w][1 + 1].task = g.task /\ calls[w][1 + 1].at = "finish"
      BY ONLY <1>3, <1>2, <1>6, <1>7 DEF StackOK, Nested
    <3> QED
      BY ONLY <3>1, CoreOf
  <2>2. g.fn = "entry" <=> 2 = Len(s)
    BY ONLY <1>2, <1>3, <1>7 DEF StackOK
  <2>3. g.fn \in {"entry", "join"}
    BY ONLY <1>1, <1>3 DEF Looking
  <2>4. 2 + 1 = 3
    BY ONLY SMT
  <2>5. StackOK(w, 2)'
    BY ONLY <1>6, <2>1, <2>2, <2>3, <2>4 DEF StackOK, Looking
  <2>6. /\ g.fn = "entry" => g.task = None
        /\ g.fn = "join" => g.task \in Task \ ArenaTask
        /\ g.ready => g.fn = "join"
    BY ONLY <1>2, <1>3 DEF Nested, Sorted
  <2> QED
    BY ONLY <1>3, <1>6, <2>1, <2>3, <2>4, <2>5, <2>6 DEF Nested, AtLook
<1>10. \A i \in 1..2 : i = 1 \/ i = 2
  BY ONLY SMT
<1>11. Shape'
  <2>1. \A i \in 1..2 : StackOK(w, i)' /\ Nested(w, i)'
    BY ONLY <1>8, <1>9, <1>10
  <2> QED
    BY ONLY <1>6, <2>1, Shape, w \in Worker, ShapeStep
<1>12. NoOther(w, s, 2)
  <2>1. ASSUME NEW v \in Worker, NEW j \in 1..Len(calls[v]), SameKey(f, calls[v][j])
        PROVE  FALSE
    <3>1. calls[v][j].fn = "task" /\ calls[v][j].task = u
      BY ONLY <1>4, <2>1 DEF SameKey
    <3>2. PICK h \in Cores : h = Core(calls[v][j])
      BY <3>1, CoresMember
    <3>3. h.fn = "task" /\ h.task = u
      BY ONLY <3>1, <3>2, CoreOf
    <3>4. h.at \in {"body", "finish"}
      BY <3>3, CoreKinds
    <3> QED
      BY <3>3, <3>4 DEF Bodies, Ending
  <2>2. ASSUME NEW v \in Worker, NEW j \in 1..Len(calls[v]), SameKey(g, calls[v][j])
        PROVE  v = w /\ j = 1
    <3>1. SameKey(calls[w][1], calls[v][j])
      BY ONLY <1>2, <1>3, <2>2 DEF SameKey
    <3> QED
      BY <3>1, <1>2 DEF OnceOnStacks
  <2>3. ~SameKey(f, g) /\ ~SameKey(g, f)
    BY ONLY <1>1, <1>3, <1>4 DEF SameKey, Looking
  <2> QED
    BY ONLY <1>6, <1>10, <2>1, <2>2, <2>3 DEF NoOther
<1>13. /\ OnceOnStacks'
       /\ Bodies' = (Bodies \ BodyOf(Top(w))) \cup (BodyOf(f) \cup BodyOf(g))
       /\ Ending' = (Ending \ EndOf(Top(w))) \cup (EndOf(f) \cup EndOf(g))
       /\ Waiting' = (Waiting \ WaitOf(Top(w))) \cup (WaitOf(f) \cup WaitOf(g))
       /\ Unpushed' = (Unpushed \ PushOf(Top(w))) \cup (PushOf(f) \cup PushOf(g))
       /\ Readied' = (Readied \ ReadyOf(Top(w))) \cup (ReadyOf(f) \cup ReadyOf(g))
  <2>1. \A i \in 1..2 : Sorted(s[i])
    <3>1. Sorted(f) /\ Sorted(g)
      BY ONLY <1>2, <1>3, <1>4 DEF Sorted
    <3> QED
      BY ONLY <1>6, <1>10, <3>1
  <2>2. s[1] = f /\ s[2] = g
    BY <1>6
  <2> QED
    BY ONLY <1>6, <1>12, <2>1, <2>2, Shape, OnceOnStacks, w \in Worker, SetsStep, Double
<1>14. /\ BodyOf(Top(w)) = {} /\ BodyOf(f) = {u} /\ BodyOf(g) = {}
       /\ EndOf(Top(w)) = {} /\ EndOf(f) = {} /\ EndOf(g) = {}
       /\ WaitOf(f) = {} /\ WaitOf(g) = WaitOf(Top(w)) /\ WaitOf(g) \subseteq Waiting
       /\ PushOf(Top(w)) = {} /\ PushOf(f) = {} /\ PushOf(g) = {}
       /\ ReadyOf(f) = {} /\ ReadyOf(g) = ReadyOf(Top(w)) /\ ReadyOf(g) \subseteq Readied
  <2>1. Top(w).at \notin {"body", "finish", "push"} /\ g.at \notin {"body", "finish", "push"}
    BY ONLY <1>1, <1>3 DEF AtLook
  <2>2. /\ WaitOf(g) = WaitOf(Top(w)) /\ WaitOf(g) \subseteq Waiting
        /\ ReadyOf(g) = ReadyOf(Top(w)) /\ ReadyOf(g) \subseteq Readied
    BY ONLY <1>2, <1>3 DEF WaitOf, ReadyOf
  <2> QED
    BY ONLY <1>4, <2>1, <2>2 DEF BodyOf, EndOf, WaitOf, PushOf, ReadyOf
<1>15. Calm(w)
  <2>1. \A v \in Worker \ {w} : calls'[v] = calls[v]
    BY ONLY <1>6, Shape, w \in Worker, StackAfter
  <2> QED
    BY ONLY <1>4, <1>6, <2>1 DEF Calm
<1> QED
  BY ONLY <1>11, <1>13, <1>14, <1>15

-----------------------------------------------------------------------------
(* The queues.                                                             *)
LEMMA PoolPush ==
  ASSUME queue \in [Worker -> Seq(Task)], OnceInQueues, NEW v \in Worker, NEW u \in Task,
         u \notin Pooled, queue' = [queue EXCEPT ![v] = <<u>> \o @]
  PROVE  queue' \in [Worker -> Seq(Task)] /\ OnceInQueues' /\ Pooled' = Pooled \cup {u}
<1>1. Apart(Worker, queue) /\ Pushes(Worker, Task, queue, queue', v, u)
  BY DEF OnceInQueues, Pooled, Pushes
<1>2. /\ queue' \in [Worker -> Seq(Task)] /\ Apart(Worker, queue')
      /\ Held(Worker, queue') = Held(Worker, queue) \cup {u}
  BY ONLY <1>1, PushOnTop
<1> QED
  BY ONLY <1>2 DEF OnceInQueues, Pooled

LEMMA PoolTake ==
  ASSUME queue \in [Worker -> Seq(Task)], OnceInQueues, NEW v \in Worker, queue[v] # <<>>,
         queue' = [queue EXCEPT ![v] = Tail(@)]
  PROVE  /\ queue' \in [Worker -> Seq(Task)] /\ OnceInQueues'
         /\ queue[v][1] \in Pooled /\ queue[v][1] \in Task
         /\ Pooled' = Pooled \ {queue[v][1]}
<1>1. Apart(Worker, queue) /\ Takes(Worker, Task, queue, queue', v)
  BY DEF OnceInQueues, Takes
<1>2. /\ queue' \in [Worker -> Seq(Task)] /\ Apart(Worker, queue')
      /\ queue[v][1] \in Held(Worker, queue) /\ queue[v][1] \in Task
      /\ Held(Worker, queue') = Held(Worker, queue) \ {queue[v][1]}
  BY ONLY <1>1, TakeTop
<1> QED
  BY ONLY <1>2 DEF OnceInQueues, Pooled

-----------------------------------------------------------------------------
(* The latches.                                                            *)
LEMMA UnrunFacts ==
  ASSUME NEW p \in Task \cup Client
  PROVE  /\ IsFiniteSet(Unrun(p)) /\ Cardinality(Unrun(p)) \in Nat
         /\ Cardinality(Unrun(p)) = 0 => Unrun(p) = {}
         /\ (\A i \in 1..Len(Kids(p)) : runs[Kids(p)[i]] = 0)
              => Cardinality(Unrun(p)) = Len(Kids(p))
<1>1. Len(Kids(p)) \in Nat
  BY KidsFacts
<1>2. IsFiniteSet(1..Len(Kids(p))) /\ Cardinality(1..Len(Kids(p))) = Len(Kids(p))
  <2>1. 1 \in Int /\ Len(Kids(p)) \in Int
    BY ONLY <1>1
  <2>2. /\ IsFiniteSet(1..Len(Kids(p)))
        /\ Cardinality(1..Len(Kids(p))) = IF 1 > Len(Kids(p)) THEN 0 ELSE Len(Kids(p)) - 1 + 1
    BY ONLY <2>1, FS_Interval
  <2> QED
    BY ONLY <1>1, <2>2
<1>3. Unrun(p) \subseteq 1..Len(Kids(p))
  BY DEF Unrun
<1>4. IsFiniteSet(Unrun(p))
  BY ONLY <1>2, <1>3, FS_Subset
<1>5. Cardinality(Unrun(p)) \in Nat /\ (Cardinality(Unrun(p)) = 0 => Unrun(p) = {})
  BY ONLY <1>4, FS_CardinalityType, FS_EmptySet
<1>6. ASSUME \A i \in 1..Len(Kids(p)) : runs[Kids(p)[i]] = 0
      PROVE  Unrun(p) = 1..Len(Kids(p))
  BY <1>6 DEF Unrun
<1> QED
  BY ONLY <1>2, <1>4, <1>5, <1>6

(* A latch that is down: everything it waited for has been run.            *)
LEMMA DownMeansRun ==
  ASSUME LatchesExact, NEW p \in Task \cup Client, Awaited(p), latch[p] = 0
  PROVE  Unrun(p) = {}
<1>1. Cardinality(Unrun(p)) = 0
  BY DEF LatchesExact
<1> QED
  BY <1>1, UnrunFacts

LEMMA RunOfUnrun ==
  ASSUME NEW t \in Task, runs[t] = 0
  PROVE  Site[t][2] \in Unrun(Parent(t))
BY SiteUnique DEF Unrun

(* t is run to its end.                                                    *)
LEMMA UnrunStep ==
  ASSUME NEW t \in Task, runs \in [Task -> Nat], runs[t] = 0, runs' = [runs EXCEPT ![t] = 1]
  PROVE  /\ \A p \in (Task \cup Client) \ {Parent(t)} : Unrun(p)' = Unrun(p)
         /\ \A p \in Task \cup Client : Unrun(p)' \subseteq Unrun(p)
         /\ Cardinality(Unrun(Parent(t))') = Cardinality(Unrun(Parent(t))) - 1
         /\ Cardinality(Unrun(Parent(t))) >= 1
<1> DEFINE q == Parent(t)
           i == Site[t][2]
<1>1. q \in Task \cup Client /\ i \in 1..Len(Kids(q)) /\ Kids(q)[i] = t
  BY SiteUnique
<1>2. \A p \in Task \cup Client : \A j \in 1..Len(Kids(p)) :
        Kids(p)[j] \in Task /\ (Kids(p)[j] = t => p = q /\ j = i)
  <2>1. ASSUME NEW p \in Task \cup Client, NEW j \in 1..Len(Kids(p))
        PROVE  Kids(p)[j] \in Task /\ (Kids(p)[j] = t => p = q /\ j = i)
    <3>1. Kids(p)[j] \in Task /\ Site[Kids(p)[j]] = <<p, j>> /\ Parent(Kids(p)[j]) = p
      BY SiteUnique
    <3> QED
      BY ONLY <3>1
  <2> QED
    BY <2>1
<1>3. \A u \in Task : u # t => runs'[u] = runs[u]
  BY ONLY runs' = [runs EXCEPT ![t] = 1], runs \in [Task -> Nat]
<1>4. runs'[t] = 1
  BY ONLY runs' = [runs EXCEPT ![t] = 1], runs \in [Task -> Nat], t \in Task
<1>5. /\ \A p : Unrun(p)' = {j \in 1..Len(Kids(p)) : runs'[Kids(p)[j]] = 0}
      /\ \A p : Unrun(p) = {j \in 1..Len(Kids(p)) : runs[Kids(p)[j]] = 0}
  BY DEF Unrun, Kids
<1> HIDE DEF q, i
<1>6. ASSUME NEW p \in Task \cup Client, p # q
      PROVE  Unrun(p)' = Unrun(p)
  BY ONLY <1>2, <1>3, <1>5, <1>6, p \in Task \cup Client
<1>7. Unrun(q)' = Unrun(q) \ {i} /\ i \in Unrun(q)
  <2>1. \A j \in 1..Len(Kids(q)) : runs'[Kids(q)[j]] = 0 <=> runs[Kids(q)[j]] = 0 /\ j # i
    BY ONLY <1>1, <1>2, <1>3, <1>4
  <2>2. i \in Unrun(q)
    BY ONLY <1>1, <1>5, runs[t] = 0
  <2> QED
    BY ONLY <1>5, <2>1, <2>2
<1>8. IsFiniteSet(Unrun(q)) /\ Cardinality(Unrun(q)) \in Nat
  BY <1>1, UnrunFacts
<1>9. Cardinality(Unrun(q)') = Cardinality(Unrun(q)) - 1
  BY ONLY <1>7, <1>8, FS_RemoveElement
<1>10. Cardinality(Unrun(q)) >= 1
  <2>1. IsFiniteSet(Unrun(q)')
    BY ONLY <1>7, <1>8, FS_RemoveElement
  <2>2. Cardinality(Unrun(q)') \in Nat
    BY ONLY <2>1, FS_CardinalityType
  <2> QED
    BY ONLY <1>8, <1>9, <2>2
<1>11. \A p \in Task \cup Client : Unrun(p)' \subseteq Unrun(p)
  BY ONLY <1>6, <1>7
<1> QED
  BY ONLY <1>6, <1>9, <1>10, <1>11 DEF q

LEMMA LatchesStay ==
  ASSUME LatchesExact, runs' = runs,
         \A p \in Task \cup Client : Awaited(p)' =>
           \/ Awaited(p) /\ latch'[p] = latch[p]
           \/ latch'[p] = Len(Kids(p)) /\ \A i \in 1..Len(Kids(p)) : runs[Kids(p)[i]] = 0
  PROVE  LatchesExact'
<1>1. \A p : Unrun(p)' = Unrun(p)
  BY ONLY runs' = runs DEF Unrun, Kids
<1>2. ASSUME NEW p \in Task \cup Client, Awaited(p)'
      PROVE  latch'[p] = Cardinality(Unrun(p))
  BY <1>2, UnrunFacts DEF LatchesExact
<1> QED
  BY ONLY <1>1, <1>2 DEF LatchesExact

-----------------------------------------------------------------------------
(* The life of a function.                                                 *)
LEMMA NotPast ==
  ASSUME Lifecycle, NEW t \in Task, ~Past(t)
  PROVE  ~Out(t) /\ runs[t] = 0
BY DEF Lifecycle

(* What has been pushed stays pushed.                                      *)
Grows ==
  /\ \A c \in Client : client[c] # "out" => client'[c] # "out"
  /\ \A p \in Task : runs[p] = 1 => runs'[p] = 1
  /\ \A p \in Ending : p \in Ending' \/ runs'[p] = 1
  /\ \A p \in Ending, l \in Nat : <<p, l>> \in Unpushed' =>
       \E k \in Nat : k <= l /\ <<p, k>> \in Unpushed

LEMMA PastGrows ==
  ASSUME Grows, Ending \subseteq Task, NEW t \in Task, Past(t)
  PROVE  Past(t)'
<1>1. PICK p : p = Parent(t)
  OBVIOUS
<1>2. Site[t][2] \in Nat
  BY SiteUnique
<1>3. \/ p \in Client /\ client[p] # "out"
      \/ p \in Task /\ runs[p] = 1
      \/ p \in Ending /\ \A k \in Nat : <<p, k>> \in Unpushed => Site[t][2] <= k
  BY ONLY <1>1, Past(t) DEF Past
<1>4. CASE p \in Client /\ client[p] # "out"
  BY ONLY <1>1, <1>4, Grows DEF Grows, Past, Parent, Site, Sites, Kids
<1>5. CASE p \in Task /\ runs[p] = 1
  BY ONLY <1>1, <1>5, Grows DEF Grows, Past, Parent, Site, Sites, Kids
<1>6. CASE p \in Ending /\ \A k \in Nat : <<p, k>> \in Unpushed => Site[t][2] <= k
  <2>1. CASE runs'[p] = 1
    BY ONLY <1>1, <1>6, <2>1, Ending \subseteq Task DEF Past, Parent, Site, Sites, Kids
  <2>2. CASE p \in Ending'
    <3>1. ASSUME NEW l \in Nat, <<p, l>> \in Unpushed'
          PROVE  Site[t][2] <= l
      <4>1. PICK k \in Nat : k <= l /\ <<p, k>> \in Unpushed
        BY ONLY <1>6, <3>1, l \in Nat, Grows DEF Grows
      <4>2. Site[t][2] <= k
        BY ONLY <1>6, <4>1
      <4> QED
        BY ONLY <1>2, <4>1, <4>2, l \in Nat
    <3> QED
      BY ONLY <1>1, <2>2, <3>1 DEF Past, Parent, Site, Sites, Kids
  <2> QED
    BY ONLY <1>6, <2>1, <2>2, Grows DEF Grows
<1> QED
  BY <1>3, <1>4, <1>5, <1>6

(* D is pushed; nothing is taken from a queue or run to its end.           *)
LEMMA LifeStep ==
  ASSUME Lifecycle, Grows, Ending \subseteq Task, runs' = runs,
         NEW D, \A u \in D : u \in Task /\ ~Past(u) /\ Past(u)',
         Pooled' = Pooled \cup D, Bodies' \cup Ending' = Bodies \cup Ending
  PROVE  Lifecycle' /\ \A t \in Task : Out(t)' => Out(t) \/ t \in D
<1>1. \A t \in D : t \in Task /\ ~Out(t) /\ runs[t] = 0
  BY NotPast
<1>2. \A t : Out(t)' <=> Out(t) \/ t \in D
  BY ONLY Pooled' = Pooled \cup D, Bodies' \cup Ending' = Bodies \cup Ending DEF Out
<1>3. \A t \in Task : t \in Pooled' => t \notin Bodies' /\ t \notin Ending'
  <2>1. \A t \in Task : t \in Pooled => t \notin Bodies \cup Ending
    BY DEF Lifecycle
  <2>2. \A t \in D : t \notin Bodies \cup Ending
    BY ONLY <1>1 DEF Out
  <2> QED
    BY ONLY <2>1, <2>2, Pooled' = Pooled \cup D, Bodies' \cup Ending' = Bodies \cup Ending
<1>4. \A t \in Task : Out(t)' => runs'[t] = 0
  BY ONLY <1>1, <1>2, Lifecycle, runs' = runs DEF Lifecycle
<1>5. \A t \in Task : Out(t)' \/ runs'[t] = 1 => Past(t)'
  <2>1. ASSUME NEW t \in Task, Out(t)' \/ runs'[t] = 1
        PROVE  Past(t)'
    <3>1. CASE t \in D
      BY <3>1
    <3>2. CASE t \notin D
      <4>1. Out(t) \/ runs[t] = 1
        BY ONLY <1>2, <2>1, <3>2, runs' = runs
      <4>2. Past(t)
        BY <4>1 DEF Lifecycle
      <4> QED
        BY <4>2, PastGrows
    <3> QED
      BY <3>1, <3>2
  <2> QED
    BY <2>1
<1>6. \A t \in Task : runs'[t] \in {0, 1}
  BY ONLY Lifecycle, runs' = runs DEF Lifecycle
<1>7. Lifecycle'
  BY ONLY <1>3, <1>4, <1>5, <1>6 DEF Lifecycle
<1> QED
  BY ONLY <1>2, <1>7

(* p's latch is down, or a stop request has been made.                     *)
Over(p) == stopped = 0 => latch[p] = 0

LEMMA ScopedStay ==
  ASSUME Scoped, LatchesExact, Lifecycle, stopped' = stopped,
         \A t \in Task : Out(t)' => Out(t) \/ Awaited(Parent(t))',
         \A p \in Task \cup Client : Awaited(p) => Awaited(p)' \/ Over(p)
  PROVE  Scoped'
<1>1. ASSUME stopped' = 0, NEW t \in Task, Out(t)'
      PROVE  Awaited(Parent(t))'
  <2>1. CASE Out(t)
    <3>1. Awaited(Parent(t)) /\ Parent(t) \in Task \cup Client
      BY <1>1, <2>1, SiteUnique DEF Scoped
    <3>2. CASE Over(Parent(t))
      <4>1. latch[Parent(t)] = 0
        BY <1>1, <3>2 DEF Over
      <4>2. Unrun(Parent(t)) = {}
        BY <3>1, <4>1, DownMeansRun
      <4>3. runs[t] = 0
        BY <2>1 DEF Lifecycle
      <4>4. Site[t][2] \in Unrun(Parent(t))
        BY <4>3, RunOfUnrun
      <4> QED
        BY ONLY <4>2, <4>4
    <3> QED
      BY <3>1, <3>2
  <2> QED
    BY <1>1, <2>1
<1>2. \A t : Parent(t)' = Parent(t)
  BY ONLY TRUE DEF Parent, Site, Sites, Kids
<1> QED
  BY <1>1, <1>2 DEF Scoped

LEMMA JoinedStay ==
  ASSUME Joined, stopped' = stopped,
         \A t \in Task : runs[t] = 1 => runs'[t] = 1,
         \A t \in Task : Unrun(t)' \subseteq Unrun(t),
         \A t \in Task : runs'[t] = 1 \/ (t \in Ending' /\ t \notin Waiting') =>
           \/ runs[t] = 1 \/ (t \in Ending /\ t \notin Waiting)
           \/ stopped = 0 => Unrun(t) = {},
         \A k \in Client : client'[k] = "back" =>
           client[k] = "back" \/ (stopped = 0 => runs[Root[k]] = 1)
  PROVE  Joined'
<1>1. ASSUME stopped' = 0, NEW t \in Task, runs'[t] = 1 \/ (t \in Ending' /\ t \notin Waiting')
      PROVE  Unrun(t)' = {}
  <2>1. Unrun(t) = {}
    BY <1>1 DEF Joined
  <2> QED
    BY <2>1
<1>2. ASSUME stopped' = 0, NEW k \in Client, client'[k] = "back"
      PROVE  runs'[Root[k]] = 1
  <2>1. Root[k] \in Task
    BY PoolAssumption
  <2>2. runs[Root[k]] = 1
    BY <1>2 DEF Joined
  <2> QED
    BY <2>1, <2>2
<1> QED
  BY ONLY <1>1, <1>2 DEF Joined

LEMMA PromptStay ==
  ASSUME Prompt, NEW w \in Worker, Calm(w), late' = late, stopped' = stopped
  PROVE  Prompt'
<1>1. ASSUME NEW v \in Worker, late[v] # 0
      PROVE  late[v] = 1 /\ Stopped(v)' /\ (calls'[v] # <<>> => Top(v)'.at \notin {"ownPop", "steal"})
  <2>1. /\ late[v] = 1 /\ Stopped(v)
        /\ calls[v] # <<>> => Top(v).at \notin {"ownPop", "steal"}
    BY <1>1 DEF Prompt
  <2>2. Stopped(v)'
    BY <2>1 DEF Stopped
  <2>3. CASE v = w
    BY <2>1, <2>2, <2>3 DEF Calm, Top
  <2>4. CASE v # w
    BY <2>1, <2>2, <2>4 DEF Calm, Top
  <2> QED
    BY <2>3, <2>4
<1> QED
  BY <1>1 DEF Prompt

-----------------------------------------------------------------------------
(* The steps.                                                              *)
LEMMA SamePool ==
  ASSUME queue' = queue
  PROVE  Pooled' = Pooled /\ (OnceInQueues => OnceInQueues')
BY ONLY queue' = queue DEF Pooled, OnceInQueues

LEMMA SameStacks ==
  ASSUME calls' = calls
  PROVE  /\ Bodies' = Bodies /\ Ending' = Ending /\ Waiting' = Waiting
         /\ Unpushed' = Unpushed /\ Readied' = Readied
         /\ Shape => Shape'
         /\ OnceOnStacks => OnceOnStacks'
<1>1. Cores' = Cores
  BY ONLY calls' = calls DEF Cores
<1>2. /\ Bodies' = Bodies /\ Ending' = Ending /\ Waiting' = Waiting
      /\ Unpushed' = Unpushed /\ Readied' = Readied
  BY ONLY <1>1 DEF Bodies, Ending, Waiting, Unpushed, Readied
<1>3. Shape => Shape'
  BY ONLY calls' = calls DEF Shape, StackOK, Nested
<1>4. OnceOnStacks => OnceOnStacks'
  BY ONLY calls' = calls DEF OnceOnStacks
<1> QED
  BY ONLY <1>2, <1>3, <1>4

LEMMA InvFacts ==
  ASSUME PoolInv
  PROVE  /\ Types /\ Shape /\ OnceInQueues /\ OnceOnStacks /\ Lifecycle
         /\ LatchesExact /\ ReadyMeansDown /\ Scoped /\ Joined /\ Prompt
         /\ queue \in [Worker -> Seq(Task)] /\ runs \in [Task -> Nat]
         /\ latch \in [Task \cup Client -> Nat]
         /\ Bodies \subseteq Task /\ Ending \subseteq Task /\ Bodies \cap Ending = {}
         /\ Waiting \subseteq Ending /\ Readied \subseteq Waiting
BY SetFacts DEF PoolInv, Types

LEMMA StaysUnrun ==
  ASSUME runs' = runs
  PROVE  /\ \A t \in Task : runs[t] = 1 => runs'[t] = 1
         /\ \A t \in Task : Unrun(t)' \subseteq Unrun(t)
BY ONLY runs' = runs DEF Unrun, Kids

(* A frame of _look_for_task goes on.                                      *)
LEMMA LookOn ==
  ASSUME PoolInv, NEW w \in Worker, NEW g, Turns(w, g), NEW s, Goes(w, s, g),
         Top(w).at # "push", g.at # "push",
         UNCHANGED <<queue, latch, client, stopped, runs, late>>
  PROVE  PoolInv'
<1>1. /\ Shape' /\ OnceOnStacks' /\ Calm(w)
      /\ Bodies' = Bodies /\ Ending' = Ending /\ Waiting' = Waiting
      /\ Unpushed' = (Unpushed \ PushOf(Top(w))) \cup PushOf(g)
      /\ \A p \in Readied' : p \in Readied \/ latch[p] = 0
  BY InvFacts, Turned
<1>2. Unpushed' = Unpushed
  BY ONLY <1>1, Top(w).at # "push", g.at # "push" DEF PushOf
<1>3. Pooled' = Pooled /\ OnceInQueues'
  BY InvFacts, SamePool
<1>4. Grows
  <2>1. \A l \in Nat : l <= l
    BY ONLY SMT
  <2> QED
    BY ONLY <1>1, <1>2, <2>1, UNCHANGED <<queue, latch, client, stopped, runs, late>> DEF Grows
<1>5. Lifecycle' /\ \A t \in Task : Out(t)' => Out(t)
  <2>1. Pooled' = Pooled \cup {} /\ Bodies' \cup Ending' = Bodies \cup Ending
    BY ONLY <1>1, <1>3
  <2> QED
    BY <1>4, <2>1, InvFacts, LifeStep
<1>6. \A p : Awaited(p)' <=> Awaited(p)
  BY <1>1 DEF Awaited
<1>7. LatchesExact'
  BY <1>6, InvFacts, LatchesStay
<1>8. ReadyMeansDown'
  BY <1>1, InvFacts DEF ReadyMeansDown
<1>9. Scoped'
  BY <1>5, <1>6, InvFacts, ScopedStay
<1>10. Joined'
  BY <1>1, InvFacts, StaysUnrun, JoinedStay
<1>11. Prompt'
  BY <1>1, InvFacts, PromptStay
<1>12. Types'
  BY InvFacts DEF Types
<1> QED
  BY ONLY <1>1, <1>3, <1>5, <1>7, <1>8, <1>9, <1>10, <1>11, <1>12 DEF PoolInv

LEMMA LookGoto ==
  ASSUME PoolInv, NEW w \in Worker, NEW g, Turns(w, g), Goto(w, g),
         Top(w).at # "push", g.at # "push",
         UNCHANGED <<queue, latch, client, stopped, runs, late>>
  PROVE  PoolInv'
<1>1. g \in Frames /\ calls[w] # <<>>
  BY DEF Turns
<1>2. PICK s : Goes(w, s, g)
  BY <1>1, InvFacts, GotoGoes
<1> QED
  BY <1>2, LookOn

(* A frame other than a task's is popped: a join's only when its latch is  *)
(* down, or there has been a stop request.                                 *)
LEMMA ReturnStep ==
  ASSUME PoolInv, NEW w \in Worker, calls[w] # <<>>, Return(w),
         Top(w).at \notin {"body", "finish", "push"},
         Top(w).fn \in {"join", "arena"} => Over(Top(w).task),
         UNCHANGED <<queue, latch, client, stopped, runs, late>>
  PROVE  PoolInv'
<1>0. PICK s : Popped(w, s)
  BY InvFacts, PopGoes
<1>1. /\ Shape' /\ OnceOnStacks' /\ Calm(w)
      /\ Bodies' = Bodies \ BodyOf(Top(w)) /\ Ending' = Ending \ EndOf(Top(w))
      /\ Waiting' = Waiting \ WaitOf(Top(w)) /\ Unpushed' = Unpushed \ PushOf(Top(w))
      /\ Readied' \subseteq Readied
  BY <1>0, InvFacts, Left
<1>2. Bodies' = Bodies /\ Ending' = Ending /\ Unpushed' = Unpushed
  BY ONLY <1>1, Top(w).at \notin {"body", "finish", "push"} DEF BodyOf, EndOf, PushOf
<1>3. \A p : p \in Waiting => p \in Waiting' \/ Over(p)
  BY ONLY <1>1, Top(w).fn \in {"join", "arena"} => Over(Top(w).task) DEF WaitOf
<1>4. Waiting' \subseteq Waiting
  BY ONLY <1>1
<1>5. Pooled' = Pooled /\ OnceInQueues'
  BY InvFacts, SamePool
<1>6. Grows
  <2>1. \A l \in Nat : l <= l
    BY ONLY SMT
  <2> QED
    BY ONLY <1>2, <2>1, UNCHANGED <<queue, latch, client, stopped, runs, late>> DEF Grows
<1>7. Lifecycle' /\ \A t \in Task : Out(t)' => Out(t)
  <2>1. Pooled' = Pooled \cup {} /\ Bodies' \cup Ending' = Bodies \cup Ending
    BY ONLY <1>2, <1>5
  <2> QED
    BY <1>6, <2>1, InvFacts, LifeStep
<1>8. \A p : (Awaited(p)' => Awaited(p)) /\ (Awaited(p) => Awaited(p)' \/ Over(p))
  BY <1>3, <1>4 DEF Awaited
<1>9. LatchesExact'
  BY <1>8, InvFacts, LatchesStay
<1>10. ReadyMeansDown'
  BY <1>1, InvFacts DEF ReadyMeansDown
<1>11. Scoped'
  BY <1>7, <1>8, InvFacts, ScopedStay
<1>12. Joined'
  <2>1. ASSUME NEW t \in Task, t \in Ending', t \notin Waiting'
        PROVE  (t \in Ending /\ t \notin Waiting) \/ (stopped = 0 => Unrun(t) = {})
    <3>1. CASE t \notin Waiting
      BY <2>1, <3>1, <1>2
    <3>2. CASE t \in Waiting
      <4>1. Over(t)
        BY <2>1, <3>2, <1>3
      <4>2. Awaited(t)
        BY <3>2 DEF Awaited
      <4> QED
        BY <4>1, <4>2, InvFacts, DownMeansRun DEF Over
    <3> QED
      BY <3>1, <3>2
  <2> QED
    BY <2>1, InvFacts, StaysUnrun, JoinedStay
<1>13. Prompt'
  BY <1>1, InvFacts, PromptStay
<1>14. Types'
  BY InvFacts DEF Types
<1> QED
  BY ONLY <1>1, <1>5, <1>7, <1>9, <1>10, <1>11, <1>12, <1>13, <1>14 DEF PoolInv

(* A join pushes its next function.                                        *)
LEMMA PushChildStep ==
  ASSUME PoolInv, NEW w \in Worker, PushChild(w)
  PROVE  PoolInv'
<1>0. PICK f, p, k, n : /\ f = Top(w) /\ p = f.task /\ k = f.pos /\ n = Len(Children[p])
  OBVIOUS
<1>1. PICK u, g : /\ u = Children[p][k + 1]
                  /\ g = IF k + 1 = n THEN [f EXCEPT !.pos = 0, !.at = "own"]
                                      ELSE [f EXCEPT !.pos = k + 1]
  OBVIOUS
<1>2. /\ calls[w] # <<>> /\ f.fn = "join" /\ f.at = "push"
      /\ queue' = [queue EXCEPT ![w] = <<u>> \o @] /\ Goto(w, g)
      /\ UNCHANGED <<latch, client, stopped, runs, late>>
  BY <1>0, <1>1 DEF PushChild, At
<1>3. f \in Frames /\ <<p, k>> \in Unpushed
  BY <1>0, <1>2, InvFacts, TopFacts
<1>4. p \in Waiting /\ p \in Ending /\ p \in Task \ ArenaTask /\ k \in Nat /\ k < n /\ n \in Nat
  BY <1>0, <1>3, InvFacts, SetFacts, KidsFacts
<1>5. /\ u \in Task /\ Site[u] = <<p, k + 1>> /\ Parent(u) = p
  <2>1. k + 1 \in 1..Len(Kids(p)) /\ Kids(p)[k + 1] = u /\ p \in Task \cup Client
    BY <1>0, <1>1, <1>4, KidsFacts
  <2> QED
    BY <2>1, SiteUnique
<1>6. /\ g \in Frames /\ g.fn = f.fn /\ g.task = p /\ g.ready = f.ready
      /\ \/ g.at = "push" /\ g.pos = k + 1 /\ k + 1 < n
         \/ g.at = "own"
  <2>1. /\ [f EXCEPT !.pos = 0, !.at = "own"] \in Frames
        /\ [f EXCEPT !.pos = k + 1] \in Frames
    <3>1. [f EXCEPT !.pos = 0, !.at = "own"] \in Frames
      BY ONLY <1>3 DEF Frames, AtLook
    <3>2. \A m \in Nat : [f EXCEPT !.pos = m] \in Frames
      BY ONLY <1>3 DEF Frames
    <3>3. k + 1 \in Nat
      BY ONLY <1>4
    <3> QED
      BY ONLY <3>1, <3>2, <3>3
  <2>2. CASE k + 1 = n
    BY ONLY <1>0, <1>1, <1>3, <2>1, <2>2 DEF Frames
  <2>3. CASE k + 1 # n
    <3>1. k + 1 < n
      BY ONLY <1>4, <2>3
    <3> QED
      BY ONLY <1>0, <1>1, <1>2, <1>3, <2>1, <2>3, <3>1 DEF Frames
  <2> QED
    BY ONLY <2>2, <2>3
<1>7. Turns(w, g)
  BY ONLY <1>0, <1>2, <1>6 DEF Turns, Looking, AtLook
<1>8. PICK s : Goes(w, s, g)
  BY <1>2, <1>6, InvFacts, GotoGoes
<1>9. /\ Shape' /\ OnceOnStacks' /\ Calm(w)
      /\ Bodies' = Bodies /\ Ending' = Ending /\ Waiting' = Waiting
      /\ Unpushed' = (Unpushed \ PushOf(Top(w))) \cup PushOf(g)
      /\ \A q \in Readied' : q \in Readied \/ latch[q] = 0
  BY <1>7, <1>8, InvFacts, Turned
<1>10. \A q, l : <<q, l>> \in Unpushed' => \/ <<q, l>> \in Unpushed /\ q # p
                                           \/ q = p /\ l = k + 1
  <2>1. PushOf(Top(w)) = {<<p, k>>}
    BY ONLY <1>0, <1>2 DEF PushOf
  <2>2. \A q, l : <<q, l>> \in PushOf(g) => q = p /\ l = k + 1
    BY ONLY <1>6 DEF PushOf
  <2>3. \A l : <<p, l>> \in Unpushed => l = k
    BY <1>3, InvFacts, SetFacts
  <2> QED
    BY ONLY <1>9, <2>1, <2>2, <2>3
<1>11. Grows
  <2>1. ASSUME NEW q \in Ending, NEW l \in Nat, <<q, l>> \in Unpushed'
        PROVE  \E j \in Nat : j <= l /\ <<q, j>> \in Unpushed
    <3>1. l <= l
      BY ONLY l \in Nat
    <3>2. k <= k + 1
      BY ONLY <1>4
    <3> QED
      BY ONLY <1>3, <1>4, <1>10, <2>1, <3>1, <3>2
  <2> QED
    BY ONLY <1>2, <1>9, <2>1 DEF Grows
<1>12. ~Past(u)
  <2>1. runs[p] = 0 /\ p \notin Client
    <3>1. Out(p)
      BY ONLY <1>4 DEF Out
    <3> QED
      BY <1>4, <3>1, InvFacts, KidsFacts DEF Lifecycle
  <2>2. ~(k + 1 <= k)
    BY ONLY <1>4
  <2> QED
    BY ONLY <1>3, <1>4, <1>5, <2>1, <2>2 DEF Past
<1>13. Past(u)'
  <2>1. \A l \in Nat : <<p, l>> \in Unpushed' => k + 1 <= l
    BY ONLY <1>4, <1>10
  <2>2. Site[u][2] = k + 1
    BY ONLY <1>5
  <2> QED
    BY ONLY <1>4, <1>5, <1>9, <2>1, <2>2 DEF Past, Parent, Site, Sites, Kids
<1>14. u \notin Pooled
  BY <1>5, <1>12, InvFacts, NotPast DEF Out
<1>15. queue' \in [Worker -> Seq(Task)] /\ OnceInQueues' /\ Pooled' = Pooled \cup {u}
  BY <1>2, <1>5, <1>14, InvFacts, PoolPush
<1>16. Lifecycle' /\ \A t \in Task : Out(t)' => Out(t) \/ t \in {u}
  <2>1. Bodies' \cup Ending' = Bodies \cup Ending
    BY ONLY <1>9
  <2>2. \A t \in {u} : t \in Task /\ ~Past(t) /\ Past(t)'
    BY ONLY <1>5, <1>12, <1>13
  <2> QED
    BY <1>2, <1>11, <1>15, <2>1, <2>2, InvFacts, LifeStep
<1>17. \A q : Awaited(q)' <=> Awaited(q)
  BY <1>2, <1>9 DEF Awaited
<1>18. LatchesExact'
  BY <1>2, <1>17, InvFacts, LatchesStay
<1>19. ReadyMeansDown'
  BY <1>2, <1>9, InvFacts DEF ReadyMeansDown
<1>20. Scoped'
  <2>1. Awaited(Parent(u))'
    BY <1>4, <1>5, <1>9 DEF Awaited, Parent, Site, Sites, Kids
  <2> QED
    BY <1>2, <1>16, <1>17, <2>1, InvFacts, ScopedStay
<1>21. Joined'
  BY <1>2, <1>9, InvFacts, StaysUnrun, JoinedStay
<1>22. Prompt'
  BY <1>2, <1>9, InvFacts, PromptStay
<1>23. Types'
  BY <1>2, <1>15, InvFacts DEF Types
<1> QED
  BY ONLY <1>9, <1>15, <1>16, <1>18, <1>19, <1>20, <1>21, <1>22, <1>23 DEF PoolInv

(* A function at its start: nobody it would pass on is in the pool.        *)
LEMMA KidsNotPast ==
  ASSUME PoolInv, NEW p \in Bodies, NEW u \in Task, Parent(u) = p
  PROVE  ~Past(u) /\ ~Out(u) /\ runs[u] = 0
<1>1. p \in Task /\ p \notin Ending /\ p \notin Client /\ runs[p] = 0
  <2>1. p \in Task /\ p \notin Ending /\ Out(p)
    BY InvFacts DEF Out
  <2> QED
    BY <2>1, InvFacts, KidsFacts DEF Lifecycle
<1>2. ~Past(u)
  BY <1>1 DEF Past
<1> QED
  BY <1>2, InvFacts, NotPast

(* A body calls join or arena: the latch is set, and the arena's function  *)
(* is pushed; D is what is pushed.                                         *)
CallsWith(w, f, g, t, D) ==
  /\ Calls(w, f, g) /\ t = Top(w).task
  /\ calls' = [calls EXCEPT ![w] = <<f, g>> \o Tail(@)]
  /\ latch' = [latch EXCEPT ![t] = Len(Kids(t))]
  /\ queue' \in [Worker -> Seq(Task)] /\ OnceInQueues' /\ Pooled' = Pooled \cup D
  /\ \A u \in D : /\ u \in Task /\ Parent(u) = t
                  /\ \A l \in Nat : <<t, l>> \in PushOf(f) => Site[u][2] <= l
  /\ UNCHANGED <<client, stopped, runs, late>>

LEMMA CallStep ==
  ASSUME PoolInv, NEW w \in Worker, NEW f, NEW g, NEW t, NEW D, CallsWith(w, f, g, t, D)
  PROVE  PoolInv'
<1>0. /\ Calls(w, f, g) /\ t = Top(w).task
      /\ calls' = [calls EXCEPT ![w] = <<f, g>> \o Tail(@)]
      /\ latch' = [latch EXCEPT ![t] = Len(Kids(t))]
      /\ queue' \in [Worker -> Seq(Task)] /\ OnceInQueues' /\ Pooled' = Pooled \cup D
      /\ \A u \in D : /\ u \in Task /\ Parent(u) = t
                      /\ \A l \in Nat : <<t, l>> \in PushOf(f) => Site[u][2] <= l
      /\ UNCHANGED <<client, stopped, runs, late>>
  BY DEF CallsWith
<1>1. /\ Shape' /\ OnceOnStacks' /\ Calm(w)
      /\ Bodies' = Bodies \ {t} /\ Ending' = Ending \cup {t}
      /\ Waiting' = Waiting \cup {t} /\ Unpushed' = Unpushed \cup PushOf(f)
      /\ Readied' = Readied
  BY <1>0, InvFacts, Called
<1>2. t \in Bodies /\ t \in Task /\ t \notin Ending /\ t \notin Waiting /\ t \notin Readied
  <2>1. calls[w] # <<>> /\ Top(w).at = "body"
    BY <1>0 DEF Calls
  <2> QED
    BY <1>0, <2>1, InvFacts, TopFacts
<1>3. /\ f.task = t /\ f.pos = 0
  BY ONLY <1>0 DEF Calls, Frame
<1>4. \A q, l : <<q, l>> \in Unpushed' => <<q, l>> \in Unpushed \/ (q = t /\ <<q, l>> \in PushOf(f))
  <2>1. \A x \in PushOf(f) : x = <<t, 0>>
    BY ONLY <1>3 DEF PushOf
  <2> QED
    BY ONLY <1>1, <2>1
<1>5. Grows
  <2>1. ASSUME NEW q \in Ending, NEW l \in Nat, <<q, l>> \in Unpushed'
        PROVE  \E j \in Nat : j <= l /\ <<q, j>> \in Unpushed
    <3>1. l <= l
      BY ONLY l \in Nat
    <3> QED
      BY ONLY <1>2, <1>4, <2>1, <3>1
  <2> QED
    BY ONLY <1>0, <1>1, <2>1 DEF Grows
<1>6. ASSUME NEW u \in D
      PROVE  u \in Task /\ Parent(u) = t /\ ~Past(u) /\ Past(u)'
  <2>1. u \in Task /\ Parent(u) = t
    BY <1>0
  <2>2. ~Past(u)
    BY <1>2, <2>1, KidsNotPast
  <2>3. ASSUME NEW l \in Nat, <<t, l>> \in Unpushed'
        PROVE  Site[u][2] <= l
    <3>1. <<t, l>> \notin Unpushed
      BY <1>2, InvFacts, SetFacts
    <3>2. <<t, l>> \in PushOf(f)
      BY ONLY <1>4, <2>3, <3>1
    <3> QED
      BY ONLY <1>0, <3>2, u \in D, l \in Nat
  <2>4. Past(u)'
    <3>1. t \in Ending'
      BY ONLY <1>1
    <3> QED
      BY ONLY <2>1, <2>3, <3>1 DEF Past, Parent, Site, Sites, Kids
  <2> QED
    BY ONLY <2>1, <2>2, <2>4
<1>7. Lifecycle' /\ \A u \in Task : Out(u)' => Out(u) \/ u \in D
  <2>1. Bodies' \cup Ending' = Bodies \cup Ending
    BY ONLY <1>1, <1>2
  <2> QED
    BY <1>0, <1>5, <1>6, <2>1, InvFacts, LifeStep
<1>8. \A p : (Awaited(p)' => Awaited(p) \/ p = t) /\ (Awaited(p) => Awaited(p)')
  BY <1>0, <1>1 DEF Awaited
<1>9. \A p \in Task \cup Client : p # t => latch'[p] = latch[p]
  BY ONLY <1>0, InvFacts, PoolInv
<1>10. LatchesExact'
  <2>1. latch'[t] = Len(Kids(t))
    BY <1>0, <1>2, InvFacts
  <2>2. \A i \in 1..Len(Kids(t)) : runs[Kids(t)[i]] = 0
    BY <1>2, SiteUnique, KidsNotPast
  <2> QED
    BY <1>0, <1>8, <1>9, <2>1, <2>2, InvFacts, LatchesStay
<1>11. ReadyMeansDown'
  BY <1>1, <1>2, <1>9, InvFacts DEF ReadyMeansDown
<1>12. Scoped'
  <2>1. \A u \in D : Awaited(Parent(u))'
    <3>1. Awaited(t)'
      BY ONLY <1>1 DEF Awaited
    <3>2. \A u : Parent(u)' = Parent(u)
      BY ONLY TRUE DEF Parent, Site, Sites, Kids
    <3> QED
      BY ONLY <1>6, <3>1, <3>2
  <2> QED
    BY <1>0, <1>7, <1>8, <2>1, InvFacts, ScopedStay
<1>13. Joined'
  BY <1>0, <1>1, <1>2, InvFacts, StaysUnrun, JoinedStay
<1>14. Prompt'
  BY <1>0, <1>1, InvFacts, PromptStay
<1>15. Types'
  <2>1. latch' \in [Task \cup Client -> Nat]
    BY <1>0, <1>2, InvFacts, KidsFacts
  <2> QED
    BY <1>0, <2>1, InvFacts DEF Types
<1> QED
  BY ONLY <1>1, <1>7, <1>10, <1>11, <1>12, <1>13, <1>14, <1>15, <1>0 DEF PoolInv

LEMMA CallJoinStep ==
  ASSUME PoolInv, NEW w \in Worker, CallJoin(w)
  PROVE  PoolInv'
<1>0. PICK t, f, g : t = Top(w).task /\ f = Frame("join", t, "push") /\ g = [Top(w) EXCEPT !.at = "finish"]
  OBVIOUS
<1>1. /\ calls[w] # <<>> /\ Top(w).at = "body"
      /\ t \notin ArenaTask /\ Children[t] # <<>>
      /\ latch' = [latch EXCEPT ![t] = Len(Children[t])]
      /\ calls' = [calls EXCEPT ![w] = <<f, g>> \o Tail(@)]
      /\ UNCHANGED <<queue, client, stopped, runs, late>>
  BY <1>0 DEF CallJoin, At
<1>2. Calls(w, f, g)
  BY ONLY <1>0, <1>1 DEF Calls
<1>3. t \in Task /\ Kids(t) = Children[t]
  <2>1. t \in Bodies
    BY <1>0, <1>1, InvFacts, TopFacts
  <2> QED
    BY <2>1, InvFacts, KidsFacts
<1>4. latch' = [latch EXCEPT ![t] = Len(Kids(t))]
  BY ONLY <1>1, <1>3
<1>5. queue' \in [Worker -> Seq(Task)] /\ OnceInQueues' /\ Pooled' = Pooled \cup {}
  BY <1>1, InvFacts, SamePool
<1>6. CallsWith(w, f, g, t, {})
  BY ONLY <1>0, <1>1, <1>2, <1>4, <1>5 DEF CallsWith
<1> QED
  BY <1>6, CallStep

LEMMA CallArenaStep ==
  ASSUME PoolInv, NEW w \in Worker, CallArena(w)
  PROVE  PoolInv'
<1>0. PICK t, f, g, u : /\ t = Top(w).task /\ f = Frame("arena", t, "wait")
                        /\ g = [Top(w) EXCEPT !.at = "finish"] /\ u = Children[t][1]
  OBVIOUS
<1>1. /\ calls[w] # <<>> /\ Top(w).at = "body" /\ t \in ArenaTask
      /\ latch' = [latch EXCEPT ![t] = 1]
      /\ calls' = [calls EXCEPT ![w] = <<f, g>> \o Tail(@)]
      /\ queue' = [queue EXCEPT ![Front] = <<u>> \o @]
      /\ UNCHANGED <<client, stopped, runs, late>>
  BY <1>0 DEF CallArena, At
<1>2. Calls(w, f, g)
  BY ONLY <1>0, <1>1 DEF Calls
<1>3. t \in Bodies /\ t \in Task /\ Kids(t) = Children[t] /\ Len(Kids(t)) = 1
  <2>1. t \in Bodies
    BY <1>0, <1>1, InvFacts, TopFacts
  <2> QED
    BY <1>1, <2>1, InvFacts, KidsFacts
<1>4. latch' = [latch EXCEPT ![t] = Len(Kids(t))]
  BY ONLY <1>1, <1>3
<1>5. u \in Task /\ Parent(u) = t
  <2>1. 1 \in 1..Len(Kids(t)) /\ u = Kids(t)[1]
    BY ONLY <1>0, <1>3
  <2> QED
    BY <1>3, <2>1, SiteUnique
<1>6. u \notin Pooled
  BY <1>3, <1>5, KidsNotPast DEF Out
<1>7. queue' \in [Worker -> Seq(Task)] /\ OnceInQueues' /\ Pooled' = Pooled \cup {u}
  BY <1>1, <1>5, <1>6, InvFacts, KidsFacts, PoolPush
<1>8. PushOf(f) = {}
  BY ONLY <1>0 DEF PushOf, Frame
<1>9. CallsWith(w, f, g, t, {u})
  BY ONLY <1>0, <1>1, <1>2, <1>4, <1>5, <1>7, <1>8 DEF CallsWith
<1> QED
  BY <1>9, CallStep

(* A client enters the pool, ...                                           *)
LEMMA ArenaStep ==
  ASSUME PoolInv, NEW c \in Client, Arena(c)
  PROVE  PoolInv'
<1>0. PICK u : u = Root[c]
  OBVIOUS
<1>1. /\ client[c] = "out" /\ client' = [client EXCEPT ![c] = "wait"]
      /\ latch' = [latch EXCEPT ![c] = 1]
      /\ queue' = [queue EXCEPT ![Front] = <<u>> \o @]
      /\ UNCHANGED <<calls, stopped, runs, late>>
  BY <1>0 DEF Arena
<1>2. /\ client \in [Client -> {"out", "wait", "back"}] /\ latch \in [Task \cup Client -> Nat]
      /\ Front \in Worker
  BY InvFacts, KidsFacts DEF Types
<1>3. c \notin Task /\ Len(Kids(c)) = 1 /\ Kids(c)[1] = u /\ u \in Task /\ Parent(u) = c
  <2>1. c \notin Task /\ Len(Kids(c)) = 1 /\ Kids(c)[1] = u
    BY <1>0, KidsFacts
  <2> QED
    BY <2>1, SiteUnique
<1>4. /\ client'[c] = "wait" /\ \A k \in Client : k # c => client'[k] = client[k]
      /\ latch'[c] = 1 /\ \A p \in Task \cup Client : p # c => latch'[p] = latch[p]
      /\ client' \in [Client -> {"out", "wait", "back"}] /\ latch' \in [Task \cup Client -> Nat]
  BY ONLY <1>1, <1>2, c \in Client
<1>5. ~Past(u) /\ ~Out(u) /\ runs[u] = 0
  <2>1. c \notin Ending
    BY <1>3, InvFacts
  <2>2. ~Past(u)
    BY ONLY <1>1, <1>3, <2>1 DEF Past
  <2> QED
    BY <1>3, <2>2, InvFacts, NotPast
<1>6. Past(u)'
  BY ONLY <1>3, <1>4, c \in Client DEF Past, Parent, Site, Sites, Kids
<1>7. queue' \in [Worker -> Seq(Task)] /\ OnceInQueues' /\ Pooled' = Pooled \cup {u}
  BY <1>1, <1>2, <1>3, <1>5, InvFacts, PoolPush DEF Out
<1>8. /\ Bodies' = Bodies /\ Ending' = Ending /\ Waiting' = Waiting
      /\ Unpushed' = Unpushed /\ Readied' = Readied /\ Shape' /\ OnceOnStacks'
  BY <1>1, InvFacts, SameStacks
<1>9. Grows
  <2>1. \A l \in Nat : l <= l
    BY ONLY SMT
  <2> QED
    BY ONLY <1>1, <1>4, <1>8, <2>1 DEF Grows
<1>10. Lifecycle' /\ \A t \in Task : Out(t)' => Out(t) \/ t \in {u}
  <2>1. Bodies' \cup Ending' = Bodies \cup Ending
    BY ONLY <1>8
  <2>2. \A t \in {u} : t \in Task /\ ~Past(t) /\ Past(t)'
    BY ONLY <1>3, <1>5, <1>6
  <2> QED
    BY <1>1, <1>7, <1>9, <2>1, <2>2, InvFacts, LifeStep
<1>11. \A p : (Awaited(p)' => Awaited(p) \/ p = c) /\ (Awaited(p) => Awaited(p)')
  BY ONLY <1>1, <1>4, <1>8 DEF Awaited
<1>12. LatchesExact'
  <2>1. \A i \in 1..Len(Kids(c)) : runs[Kids(c)[i]] = 0
    <3>1. \A i \in 1..1 : i = 1
      BY ONLY SMT
    <3> QED
      BY ONLY <1>3, <1>5, <3>1
  <2> QED
    BY <1>1, <1>3, <1>4, <1>11, <2>1, InvFacts, LatchesStay
<1>13. ReadyMeansDown'
  <2>1. \A p \in Readied : p \in Task /\ p # c
    BY <1>3, InvFacts
  <2> QED
    BY <1>4, <1>8, <2>1, InvFacts DEF ReadyMeansDown
<1>14. Scoped'
  <2>1. Awaited(Parent(u))'
    <3>1. Awaited(c)'
      BY ONLY <1>4, c \in Client DEF Awaited
    <3>2. Parent(u)' = Parent(u)
      BY ONLY TRUE DEF Parent, Site, Sites, Kids
    <3> QED
      BY ONLY <1>3, <3>1, <3>2
  <2> QED
    BY <1>1, <1>10, <1>11, <2>1, InvFacts, ScopedStay
<1>15. Joined'
  BY <1>1, <1>4, <1>8, InvFacts, StaysUnrun, JoinedStay
<1>16. Prompt'
  BY ONLY <1>1, InvFacts, PoolInv DEF Prompt, Stopped, Top
<1>17. Types'
  BY <1>1, <1>4, <1>7, InvFacts DEF Types
<1> QED
  BY ONLY <1>7, <1>8, <1>10, <1>12, <1>13, <1>14, <1>15, <1>16, <1>17 DEF PoolInv

(* ... and leaves it.                                                      *)
LEMMA ArenaReturnStep ==
  ASSUME PoolInv, NEW c \in Client, ArenaReturn(c)
  PROVE  PoolInv'
<1>1. /\ client[c] = "wait" /\ latch[c] = 0 /\ client' = [client EXCEPT ![c] = "back"]
      /\ UNCHANGED <<queue, calls, latch, stopped, runs, late>>
  BY DEF ArenaReturn
<1>2. client \in [Client -> {"out", "wait", "back"}]
  BY InvFacts DEF Types
<1>3. /\ client'[c] = "back" /\ \A k \in Client : k # c => client'[k] = client[k]
      /\ client' \in [Client -> {"out", "wait", "back"}]
  BY ONLY <1>1, <1>2, c \in Client
<1>4. Pooled' = Pooled /\ OnceInQueues'
  BY <1>1, InvFacts, SamePool
<1>5. /\ Bodies' = Bodies /\ Ending' = Ending /\ Waiting' = Waiting
      /\ Unpushed' = Unpushed /\ Readied' = Readied /\ Shape' /\ OnceOnStacks'
  BY <1>1, InvFacts, SameStacks
<1>6. Grows
  <2>1. \A l \in Nat : l <= l
    BY ONLY SMT
  <2> QED
    BY ONLY <1>1, <1>3, <1>5, <2>1 DEF Grows
<1>7. Lifecycle' /\ \A t \in Task : Out(t)' => Out(t)
  <2>1. Pooled' = Pooled \cup {} /\ Bodies' \cup Ending' = Bodies \cup Ending
    BY ONLY <1>4, <1>5
  <2> QED
    BY <1>1, <1>6, <2>1, InvFacts, LifeStep
<1>8. \A p : (Awaited(p)' => Awaited(p)) /\ (Awaited(p) => Awaited(p)' \/ Over(p))
  BY ONLY <1>1, <1>3, <1>5 DEF Awaited, Over
<1>9. LatchesExact'
  BY <1>1, <1>8, InvFacts, LatchesStay
<1>10. ReadyMeansDown'
  BY <1>1, <1>5, InvFacts DEF ReadyMeansDown
<1>11. Scoped'
  BY <1>1, <1>7, <1>8, InvFacts, ScopedStay
<1>12. Joined'
  <2>1. runs[Root[c]] = 1
    <3>1. Unrun(c) = {}
      BY <1>1, InvFacts, DownMeansRun DEF Awaited
    <3>2. 1 \in 1..Len(Kids(c)) /\ Kids(c)[1] = Root[c] /\ Root[c] \in Task
      BY KidsFacts, PoolAssumption
    <3>3. runs[Root[c]] # 0
      BY ONLY <3>1, <3>2 DEF Unrun
    <3>4. runs[Root[c]] \in {0, 1}
      BY <3>2, InvFacts DEF Lifecycle
    <3> QED
      BY ONLY <3>3, <3>4
  <2> QED
    BY <1>1, <1>3, <1>5, <2>1, InvFacts, StaysUnrun, JoinedStay
<1>13. Prompt'
  BY ONLY <1>1, InvFacts, PoolInv DEF Prompt, Stopped, Top
<1>14. Types'
  BY <1>1, <1>3, InvFacts DEF Types
<1> QED
  BY ONLY <1>4, <1>5, <1>7, <1>9, <1>10, <1>11, <1>12, <1>13, <1>14 DEF PoolInv

LEMMA StopStep ==
  ASSUME PoolInv, RequestStop
  PROVE  PoolInv'
<1>1. /\ stopped < NumWorkers /\ stopped' = stopped + 1
      /\ UNCHANGED <<queue, calls, latch, client, runs, late>>
  BY DEF RequestStop
<1>2. stopped \in 0..NumWorkers /\ NumWorkers \in Nat
  BY InvFacts, PoolAssumption DEF Types
<1>3. stopped' \in 0..NumWorkers /\ stopped' # 0 /\ \A w \in Worker : w <= stopped => w <= stopped'
  BY ONLY <1>1, <1>2 DEF Worker
<1>4. Pooled' = Pooled /\ OnceInQueues'
  BY <1>1, InvFacts, SamePool
<1>5. /\ Bodies' = Bodies /\ Ending' = Ending /\ Waiting' = Waiting
      /\ Unpushed' = Unpushed /\ Readied' = Readied /\ Shape' /\ OnceOnStacks'
  BY <1>1, InvFacts, SameStacks
<1>6. Grows
  <2>1. \A l \in Nat : l <= l
    BY ONLY SMT
  <2> QED
    BY ONLY <1>1, <1>5, <2>1 DEF Grows
<1>7. Lifecycle'
  <2>1. Pooled' = Pooled \cup {} /\ Bodies' \cup Ending' = Bodies \cup Ending
    BY ONLY <1>4, <1>5
  <2> QED
    BY <1>1, <1>6, <2>1, InvFacts, LifeStep
<1>8. LatchesExact'
  <2>1. \A p : Awaited(p)' <=> Awaited(p)
    BY ONLY <1>1, <1>5 DEF Awaited
  <2> QED
    BY <1>1, <2>1, InvFacts, LatchesStay
<1>9. ReadyMeansDown'
  BY <1>1, <1>5, InvFacts DEF ReadyMeansDown
<1>10. Scoped' /\ Joined'
  BY ONLY <1>3 DEF Scoped, Joined
<1>11. Prompt'
  BY ONLY <1>1, <1>3, InvFacts, PoolInv DEF Prompt, Stopped, Top
<1>12. Types'
  BY <1>1, <1>3, InvFacts DEF Types
<1> QED
  BY ONLY <1>4, <1>5, <1>7, <1>8, <1>9, <1>10, <1>11, <1>12 DEF PoolInv

(* The top of v's queue is run by w.                                       *)
LEMMA RunTaskStep ==
  ASSUME PoolInv, NEW w \in Worker, NEW v \in Worker, NEW g,
         calls[w] # <<>>, Top(w).fn \in Looking, Top(w).at \in {"ownPop", "steal"},
         g \in {[Top(w) EXCEPT !.at = "own"], [Top(w) EXCEPT !.at = "scan"]},
         queue[v] # <<>>, RunTask(w, v, g), UNCHANGED <<latch, client, stopped, runs>>
  PROVE  PoolInv'
<1>0. PICK u : u = queue[v][1]
  OBVIOUS
<1>1. /\ calls' = [calls EXCEPT ![w] = <<Frame("task", u, "body"), g>> \o Tail(@)]
      /\ queue' = [queue EXCEPT ![v] = Tail(@)]
      /\ late' = [late EXCEPT ![w] = IF Stopped(w) THEN @ + 1 ELSE @]
  BY <1>0 DEF RunTask
<1>2. /\ queue' \in [Worker -> Seq(Task)] /\ OnceInQueues'
      /\ u \in Pooled /\ u \in Task /\ Pooled' = Pooled \ {u}
  BY <1>0, <1>1, InvFacts, PoolTake
<1>3. u \notin Bodies /\ u \notin Ending /\ runs[u] = 0
  BY <1>2, InvFacts DEF Lifecycle, Out
<1>4. Lands(w, u, g)
  BY ONLY <1>2, calls[w] # <<>>, Top(w).fn \in Looking, Top(w).at \in {"ownPop", "steal"},
          g \in {[Top(w) EXCEPT !.at = "own"], [Top(w) EXCEPT !.at = "scan"]} DEF Lands, AtLook
<1>5. /\ Shape' /\ OnceOnStacks' /\ Calm(w)
      /\ Bodies' = Bodies \cup {u} /\ Ending' = Ending
      /\ Waiting' = Waiting /\ Unpushed' = Unpushed /\ Readied' = Readied
  BY <1>1, <1>3, <1>4, InvFacts, Landed
<1>6. \A t : Out(t)' <=> Out(t)
  BY ONLY <1>2, <1>5 DEF Out
<1>7. \A t : Past(t)' <=> Past(t)
  BY ONLY <1>5, UNCHANGED <<latch, client, stopped, runs>> DEF Past, Parent, Site, Sites, Kids
<1>8. Lifecycle'
  <2>1. \A t \in Task : t \in Pooled' => t \notin Bodies' /\ t \notin Ending'
    BY ONLY <1>2, <1>5, InvFacts, PoolInv DEF Lifecycle
  <2> QED
    BY ONLY <1>6, <1>7, <2>1, InvFacts, PoolInv, UNCHANGED <<latch, client, stopped, runs>>
       DEF Lifecycle
<1>9. \A p : Awaited(p)' <=> Awaited(p)
  BY ONLY <1>5, UNCHANGED <<latch, client, stopped, runs>> DEF Awaited
<1>10. LatchesExact'
  BY <1>9, InvFacts, LatchesStay
<1>11. ReadyMeansDown'
  BY <1>5, InvFacts DEF ReadyMeansDown
<1>12. Scoped'
  BY <1>6, <1>9, InvFacts, ScopedStay
<1>13. Joined'
  BY <1>5, InvFacts, StaysUnrun, JoinedStay
<1>14. late[w] = 0 /\ late \in [Worker -> Nat]
  BY InvFacts DEF Prompt, Types
<1>15. /\ late'[w] = (IF Stopped(w) THEN 1 ELSE 0)
       /\ \A x \in Worker : x # w => late'[x] = late[x]
       /\ late' \in [Worker -> Nat]
  BY ONLY <1>1, <1>14, w \in Worker
<1>16. Prompt'
  <2>1. ASSUME NEW x \in Worker, late'[x] # 0
        PROVE  /\ late'[x] = 1 /\ Stopped(x)'
               /\ calls'[x] # <<>> => Top(x)'.at \notin {"ownPop", "steal"}
    <3>1. CASE x = w
      BY ONLY <1>5, <1>15, <2>1, <3>1, UNCHANGED <<latch, client, stopped, runs>>
         DEF Calm, Top, Stopped
    <3>2. CASE x # w
      <4>1. late[x] # 0 /\ late'[x] = late[x] /\ calls'[x] = calls[x]
        BY ONLY <1>5, <1>15, <2>1, <3>2, x \in Worker DEF Calm
      <4>2. /\ late[x] = 1 /\ Stopped(x)
            /\ calls[x] # <<>> => Top(x).at \notin {"ownPop", "steal"}
        BY <4>1, InvFacts DEF Prompt
      <4> QED
        BY ONLY <4>1, <4>2, UNCHANGED <<latch, client, stopped, runs>> DEF Top, Stopped
    <3> QED
      BY <3>1, <3>2
  <2> QED
    BY <2>1 DEF Prompt
<1>17. Types'
  BY <1>2, <1>15, InvFacts DEF Types
<1> QED
  BY ONLY <1>2, <1>5, <1>8, <1>10, <1>11, <1>12, <1>13, <1>16, <1>17 DEF PoolInv

(* The calls in progress, in the words of the model.                       *)
LEMMA LiveIsAwaited ==
  ASSUME Shape, NEW p \in Task \cup Client
  PROVE  Live(p) <=> Awaited(p)
<1>1. p \in Waiting <=> \E w \in Worker : \E i \in 1..Len(calls[w]) :
        calls[w][i].fn \in {"join", "arena"} /\ calls[w][i].task = p
  <2>1. ASSUME p \in Waiting
        PROVE  \E w \in Worker : \E i \in 1..Len(calls[w]) :
                 calls[w][i].fn \in {"join", "arena"} /\ calls[w][i].task = p
    <3>1. PICK h \in Cores : h.fn \in {"join", "arena"} /\ h.task = p
      BY <2>1 DEF Waiting
    <3>2. PICK w \in Worker : \E i \in 1..Len(calls[w]) : h = Core(calls[w][i])
      BY CoresMember
    <3>3. PICK i \in 1..Len(calls[w]) : h = Core(calls[w][i])
      BY <3>2
    <3>4. calls[w][i].fn \in {"join", "arena"} /\ calls[w][i].task = p
      BY ONLY <3>1, <3>3, CoreOf
    <3> QED
      BY ONLY <3>4, w \in Worker, i \in 1..Len(calls[w])
  <2>2. ASSUME NEW w \in Worker, NEW i \in 1..Len(calls[w]),
               calls[w][i].fn \in {"join", "arena"}, calls[w][i].task = p
        PROVE  p \in Waiting
    <3>1. Core(calls[w][i]) \in Cores
      BY <2>2, CoresMember
    <3> QED
      BY ONLY <2>2, <3>1, CoreOf DEF Waiting
  <2> QED
    BY ONLY <2>1, <2>2
<1>2. CASE p \in Client
  <2>1. p \notin Waiting
    <3>1. \A h \in Cores : h.fn \in {"join", "arena"} => h.task \in Task
      BY CoreKinds
    <3>2. p \notin Task
      BY <1>2, KidsFacts
    <3> QED
      BY ONLY <3>1, <3>2 DEF Waiting
  <2> QED
    BY ONLY <1>2, <2>1 DEF Live, Awaited
<1>3. CASE p \notin Client
  BY ONLY <1>1, <1>3 DEF Live, Awaited
<1> QED
  BY <1>2, <1>3

(* A function is run to its end.                                           *)
LEMMA FinishStep ==
  ASSUME PoolInv, NEW w \in Worker, Finish(w)
  PROVE  PoolInv'
<1>0. PICK t, q : t = Top(w).task /\ q = Parent(t)
  OBVIOUS
<1>1. /\ calls[w] # <<>> /\ Top(w).fn = "task"
      /\ Top(w).at = "finish" \/ Children[t] = <<>>
      /\ runs' = [runs EXCEPT ![t] = @ + 1]
      /\ latch' = IF Live(q) THEN [latch EXCEPT ![q] = @ - 1] ELSE latch
      /\ Return(w) /\ UNCHANGED <<queue, client, stopped, late>>
  BY <1>0 DEF Finish
<1>2. /\ t \in Task /\ Top(w).at \in {"body", "finish"}
      /\ Top(w).at = "body" => t \in Bodies
      /\ Top(w).at = "finish" => t \in Ending /\ t \notin Waiting
      /\ ~Top(w).ready
  <2>1. Nested(w, 1) /\ Top(w) = calls[w][1] /\ Sorted(Top(w))
    BY <1>1, InvFacts, TopFacts
  <2>2. Top(w).at \in {"body", "finish"} /\ ~Top(w).ready
    BY ONLY <1>1, <2>1 DEF Nested, Sorted
  <2> QED
    BY <1>0, <1>1, <2>2, InvFacts, TopFacts
<1>3. t \notin Waiting /\ Out(t) /\ runs[t] = 0 /\ t \notin Pooled
  <2>1. Out(t) /\ t \notin Pooled
    BY <1>2, InvFacts DEF Out, Lifecycle
  <2>2. t \notin Waiting
    BY <1>2, InvFacts
  <2> QED
    BY <1>2, <2>1, <2>2, InvFacts DEF Lifecycle
<1>4. runs' = [runs EXCEPT ![t] = 1] /\ runs' \in [Task -> Nat] /\ runs'[t] = 1
      /\ \A u \in Task : u # t => runs'[u] = runs[u]
  BY ONLY <1>1, <1>2, <1>3, InvFacts, PoolInv
<1>5. PICK s : Popped(w, s)
  BY <1>1, InvFacts, PopGoes
<1>6. /\ Shape' /\ OnceOnStacks' /\ Calm(w)
      /\ Bodies' = Bodies \ BodyOf(Top(w)) /\ Ending' = Ending \ EndOf(Top(w))
      /\ Waiting' = Waiting \ WaitOf(Top(w)) /\ Unpushed' = Unpushed \ PushOf(Top(w))
      /\ Readied' \subseteq Readied
  BY <1>1, <1>5, InvFacts, Left
<1>7. /\ Waiting' = Waiting /\ Unpushed' = Unpushed
      /\ Bodies' = Bodies \ {t} /\ Ending' = Ending \ {t}
  <2>1. /\ WaitOf(Top(w)) = {} /\ PushOf(Top(w)) = {}
        /\ Top(w).at = "body" => BodyOf(Top(w)) = {t} /\ EndOf(Top(w)) = {}
        /\ Top(w).at = "finish" => BodyOf(Top(w)) = {} /\ EndOf(Top(w)) = {t}
    BY ONLY <1>0, <1>1, <1>2 DEF WaitOf, PushOf, BodyOf, EndOf
  <2>2. Bodies \cap Ending = {}
    BY InvFacts
  <2> QED
    BY ONLY <1>2, <1>6, <2>1, <2>2
<1>8. Pooled' = Pooled /\ OnceInQueues'
  BY <1>1, InvFacts, SamePool
<1>9. Grows
  <2>1. \A l \in Nat : l <= l
    BY ONLY SMT
  <2>2. \A p \in Ending : p \in Ending' \/ runs'[p] = 1
    BY ONLY <1>4, <1>7
  <2>3. \A p \in Task : runs[p] = 1 => runs'[p] = 1
    BY ONLY <1>3, <1>4
  <2> QED
    BY ONLY <1>1, <1>7, <2>1, <2>2, <2>3 DEF Grows
<1>10. \A u : Out(u)' <=> Out(u) /\ u # t
  BY ONLY <1>3, <1>7, <1>8 DEF Out
<1>11. Lifecycle'
  <2>1. \A u \in Task : runs'[u] \in {0, 1}
    BY ONLY <1>4, InvFacts, PoolInv DEF Lifecycle
  <2>2. \A u \in Task : u \in Pooled' => u \notin Bodies' /\ u \notin Ending'
    BY ONLY <1>7, <1>8, InvFacts, PoolInv DEF Lifecycle
  <2>3. \A u \in Task : Out(u)' => runs'[u] = 0
    BY ONLY <1>4, <1>10, InvFacts, PoolInv DEF Lifecycle
  <2>4. ASSUME NEW u \in Task, Out(u)' \/ runs'[u] = 1
        PROVE  Past(u)'
    <3>1. Out(u) \/ runs[u] = 1
      BY ONLY <1>3, <1>4, <1>10, <2>4
    <3>2. Past(u)
      BY <3>1, InvFacts DEF Lifecycle
    <3> QED
      BY <1>9, <3>2, InvFacts, PastGrows
  <2> QED
    BY ONLY <2>1, <2>2, <2>3, <2>4 DEF Lifecycle
<1>12. \A p : Awaited(p)' <=> Awaited(p)
  BY ONLY <1>1, <1>7 DEF Awaited
<1>13. q \in Task \cup Client /\ (Live(q) <=> Awaited(q))
  BY <1>0, <1>2, SiteUnique, InvFacts, LiveIsAwaited
<1>14. /\ \A p \in (Task \cup Client) \ {q} : Unrun(p)' = Unrun(p)
       /\ \A p \in Task \cup Client : Unrun(p)' \subseteq Unrun(p)
       /\ Cardinality(Unrun(q)') = Cardinality(Unrun(q)) - 1
       /\ Cardinality(Unrun(q)) >= 1
  BY <1>0, <1>2, <1>3, <1>4, InvFacts, UnrunStep
<1>15. /\ \A p \in (Task \cup Client) \ {q} : latch'[p] = latch[p]
       /\ Awaited(q) => latch'[q] = latch[q] - 1 /\ latch[q] = Cardinality(Unrun(q))
       /\ latch' \in [Task \cup Client -> Nat]
  <2>1. Awaited(q) => latch[q] = Cardinality(Unrun(q))
    BY <1>13, InvFacts DEF LatchesExact
  <2>2. latch \in [Task \cup Client -> Nat]
    BY InvFacts
  <2>3. Awaited(q) => latch[q] - 1 \in Nat
    BY ONLY <1>13, <1>14, <2>1, <2>2
  <2>4. CASE Awaited(q)
    <3>1. latch' = [latch EXCEPT ![q] = latch[q] - 1]
      BY ONLY <1>1, <1>13, <2>4
    <3> QED
      BY ONLY <1>13, <2>1, <2>2, <2>3, <2>4, <3>1
  <2>5. CASE ~Awaited(q)
    BY ONLY <1>1, <1>13, <2>2, <2>5
  <2> QED
    BY <2>4, <2>5
<1>16. LatchesExact'
  <2>1. ASSUME NEW p \in Task \cup Client, Awaited(p)'
        PROVE  latch'[p] = Cardinality(Unrun(p)')
    <3>1. Awaited(p)
      BY <1>12, <2>1
    <3>2. CASE p = q
      BY ONLY <1>14, <1>15, <3>1, <3>2
    <3>3. CASE p # q
      <4>1. latch[p] = Cardinality(Unrun(p))
        BY <3>1, InvFacts DEF LatchesExact
      <4> QED
        BY ONLY <1>14, <1>15, <3>3, <4>1, p \in Task \cup Client
    <3> QED
      BY <3>2, <3>3
  <2> QED
    BY ONLY <2>1 DEF LatchesExact
<1>17. ReadyMeansDown'
  <2>1. ASSUME NEW p \in Readied
        PROVE  latch'[p] = 0
    <3>1. p \in Task /\ Awaited(p) /\ latch[p] = 0
      BY InvFacts DEF Awaited, ReadyMeansDown
    <3>2. p # q
      BY ONLY <1>14, <1>15, <3>1
    <3> QED
      BY ONLY <1>15, <3>1, <3>2
  <2> QED
    BY <1>6, <2>1 DEF ReadyMeansDown
<1>18. Scoped'
  BY <1>1, <1>10, <1>12, InvFacts, ScopedStay
<1>19. Joined'
  <2>1. stopped = 0 => Unrun(t) = {}
    <3>1. CASE Top(w).at = "finish"
      BY <1>2, <3>1, InvFacts DEF Joined
    <3>2. CASE Top(w).at # "finish"
      <4>1. Children[t] = <<>> /\ Kids(t) = Children[t]
        BY <1>1, <1>2, <3>2, KidsFacts
      <4>2. 1..Len(Kids(t)) = {}
        BY ONLY <4>1
      <4> QED
        BY ONLY <4>2 DEF Unrun
    <3> QED
      BY <3>1, <3>2
  <2>2. \A u \in Task : runs'[u] = 1 \/ (u \in Ending' /\ u \notin Waiting') =>
          \/ runs[u] = 1 \/ (u \in Ending /\ u \notin Waiting)
          \/ stopped = 0 => Unrun(u) = {}
    BY ONLY <1>4, <1>7, <2>1
  <2>3. \A u \in Task : runs[u] = 1 => runs'[u] = 1
    BY ONLY <1>3, <1>4
  <2> QED
    BY <1>1, <1>14, <2>2, <2>3, InvFacts, JoinedStay
<1>20. Prompt'
  BY <1>1, <1>6, InvFacts, PromptStay
<1>21. Types'
  BY <1>1, <1>4, <1>15, InvFacts DEF Types
<1> QED
  BY ONLY <1>6, <1>8, <1>11, <1>16, <1>17, <1>18, <1>19, <1>20, <1>21 DEF PoolInv

(* _look_for_task's own steps.                                             *)
LEMMA TopLook ==
  ASSUME PoolInv, NEW w \in Worker, NEW at \in AtLook, At(w, Looking, at)
  PROVE  /\ calls[w] # <<>> /\ Top(w) \in Frames /\ Top(w).fn \in Looking /\ Top(w).at = at
         /\ Top(w).at # "push"
         /\ Top(w).fn = "join" => Top(w).task \in Task
<1>1. calls[w] # <<>> /\ Top(w).fn \in Looking /\ Top(w).at = at
  BY DEF At
<1>2. Top(w) \in Frames /\ (Top(w).fn = "join" => Top(w).task \in Task)
  BY <1>1, InvFacts, TopFacts
<1> QED
  BY ONLY <1>1, <1>2, at \in AtLook DEF AtLook

LEMMA OwnCheckStep ==
  ASSUME PoolInv, NEW w \in Worker, OwnCheck(w)
  PROVE  PoolInv'
<1>1. /\ At(w, Looking, "own") /\ Check(w, Top(w), "ownPop")
      /\ UNCHANGED <<queue, latch, client, stopped, runs, late>>
  BY DEF OwnCheck
<1>2. /\ calls[w] # <<>> /\ Top(w) \in Frames /\ Top(w).fn \in Looking /\ Top(w).at = "own"
  BY <1>1, TopLook DEF AtLook
<1>3. PICK g : /\ Goto(w, g)
               /\ \/ Stopped(w) /\ g = [Top(w) EXCEPT !.at = "after"]
                  \/ Ready(Top(w)) /\ g = [Top(w) EXCEPT !.at = "after", !.ready = TRUE]
                  \/ ~Stopped(w) /\ g = [Top(w) EXCEPT !.at = "ownPop", !.ready = FALSE]
  BY ONLY <1>1 DEF Check
<1>4. Turns(w, g) /\ Top(w).at # "push" /\ g.at # "push"
  BY ONLY <1>2, <1>3 DEF Turns, Frames, AtLook, Ready
<1> QED
  BY <1>1, <1>3, <1>4, LookGoto

LEMMA VisitStep ==
  ASSUME PoolInv, NEW w \in Worker, Visit(w)
  PROVE  PoolInv'
<1>1. At(w, Looking, "scan") /\ UNCHANGED <<queue, latch, client, stopped, runs, late>>
  BY DEF Visit
<1>2. PICK f : f = Top(w)
  OBVIOUS
<1>3. /\ calls[w] # <<>> /\ f \in Frames /\ f.fn \in Looking /\ f.at = "scan"
  BY <1>1, <1>2, TopLook DEF AtLook
<1>4. CASE f.pos = NumWorkers
  <2>1. PICK g : Goto(w, g) /\ g = [f EXCEPT !.at = "after", !.seen = {}]
    BY ONLY <1>2, <1>4, Visit(w) DEF Visit
  <2>2. Turns(w, g) /\ Top(w).at # "push" /\ g.at # "push"
    BY ONLY <1>2, <1>3, <2>1 DEF Turns, Frames, AtLook
  <2> QED
    BY <1>1, <2>1, <2>2, LookGoto
<1>5. CASE f.pos # NumWorkers
  <2>1. PICK v \in Worker :
          LET g == [f EXCEPT !.pos = @ + 1, !.seen = @ \cup {v}] IN
            IF v = w THEN Goto(w, g) ELSE Check(w, [g EXCEPT !.victim = v], "steal")
    BY ONLY <1>2, <1>5, Visit(w) DEF Visit
  <2>2. PICK h : h = [f EXCEPT !.pos = @ + 1, !.seen = @ \cup {v}]
    OBVIOUS
  <2>3. /\ h \in Frames /\ h.fn = f.fn /\ h.task = f.task /\ h.at = "scan" /\ h.ready = f.ready
    <3>1. f.pos \in Nat /\ f.seen \in SUBSET Worker
      BY ONLY <1>3 DEF Frames
    <3>2. f.pos + 1 \in Nat /\ f.seen \cup {v} \in SUBSET Worker
      BY ONLY <3>1, v \in Worker
    <3> QED
      BY ONLY <1>3, <2>2, <3>2 DEF Frames
  <2>4. CASE v = w
    <3>1. Goto(w, h)
      BY ONLY <2>1, <2>2, <2>4
    <3>2. Turns(w, h) /\ Top(w).at # "push" /\ h.at # "push"
      BY ONLY <1>2, <1>3, <2>3 DEF Turns, AtLook
    <3> QED
      BY <1>1, <3>1, <3>2, LookGoto
  <2>5. CASE v # w
    <3>1. PICK i : i = [h EXCEPT !.victim = v]
      OBVIOUS
    <3>2. /\ i \in Frames /\ i.fn = f.fn /\ i.task = f.task /\ i.at = "scan" /\ i.ready = f.ready
      BY ONLY <2>3, <3>1, v \in Worker DEF Frames
    <3>3. Check(w, i, "steal")
      BY ONLY <2>1, <2>2, <2>5, <3>1
    <3>4. PICK g : /\ Goto(w, g)
                   /\ \/ Stopped(w) /\ g = [i EXCEPT !.at = "after"]
                      \/ Ready(i) /\ g = [i EXCEPT !.at = "after", !.ready = TRUE]
                      \/ ~Stopped(w) /\ g = [i EXCEPT !.at = "steal", !.ready = FALSE]
      BY ONLY <3>3 DEF Check
    <3>5. /\ g \in Frames /\ g.fn = f.fn /\ g.task = f.task /\ g.at \in {"after", "steal"}
          /\ g.ready => f.ready \/ Ready(i)
          /\ Stopped(w) => g.at # "steal"
      BY ONLY <3>2, <3>4 DEF Frames, AtLook
    <3>6. Turns(w, g) /\ Top(w).at # "push" /\ g.at # "push"
      BY ONLY <1>2, <1>3, <3>2, <3>5 DEF Turns, AtLook, Ready
    <3> QED
      BY <1>1, <3>4, <3>6, LookGoto
  <2> QED
    BY <2>4, <2>5
<1> QED
  BY <1>4, <1>5

LEMMA StealNothingStep ==
  ASSUME PoolInv, NEW w \in Worker, StealNothing(w)
  PROVE  PoolInv'
<1>1. PICK g : /\ At(w, Looking, "steal") /\ g = [Top(w) EXCEPT !.at = "scan"] /\ Goto(w, g)
               /\ UNCHANGED <<queue, latch, client, stopped, runs, late>>
  BY DEF StealNothing
<1>2. /\ calls[w] # <<>> /\ Top(w) \in Frames /\ Top(w).fn \in Looking /\ Top(w).at = "steal"
  BY <1>1, TopLook DEF AtLook
<1>3. Turns(w, g) /\ Top(w).at # "push" /\ g.at # "push"
  BY ONLY <1>1, <1>2 DEF Turns, Frames, AtLook
<1> QED
  BY <1>1, <1>3, LookGoto

LEMMA ShuffleStep ==
  ASSUME PoolInv, NEW w \in Worker, Shuffle(w)
  PROVE  PoolInv'
<1>1. /\ At(w, Looking, "ownPop") /\ UNCHANGED <<queue, latch, client, stopped, runs, late>>
  BY DEF Shuffle
<1>2. /\ calls[w] # <<>> /\ Top(w) \in Frames /\ Top(w).fn \in Looking /\ Top(w).at = "ownPop"
  BY <1>1, TopLook DEF AtLook
<1>3. PICK g : g = [Top(w) EXCEPT !.at = "scan", !.pos = 0, !.seen = {}]
  OBVIOUS
<1>4. PICK s : Goes(w, s, g)
  BY <1>2, <1>3, InvFacts, ShuffleGoes
<1>5. Turns(w, g) /\ Top(w).at # "push" /\ g.at # "push"
  BY ONLY <1>2, <1>3 DEF Turns, Frames, AtLook
<1> QED
  BY <1>1, <1>4, <1>5, LookOn

LEMMA OwnPopStep ==
  ASSUME PoolInv, NEW w \in Worker, OwnPop(w)
  PROVE  PoolInv'
<1>1. PICK g : /\ At(w, Looking, "ownPop") /\ queue[w] # <<>>
               /\ g = [Top(w) EXCEPT !.at = "own"] /\ RunTask(w, w, g)
               /\ UNCHANGED <<latch, client, stopped, runs>>
  BY DEF OwnPop
<1>2. calls[w] # <<>> /\ Top(w).fn \in Looking /\ Top(w).at \in {"ownPop", "steal"}
  BY <1>1, TopLook DEF AtLook
<1> QED
  BY <1>1, <1>2, RunTaskStep

LEMMA StealStep ==
  ASSUME PoolInv, NEW w \in Worker, Steal(w)
  PROVE  PoolInv'
<1>1. PICK v, g : /\ At(w, Looking, "steal") /\ v = Top(w).victim /\ queue[v] # <<>>
                  /\ g = [Top(w) EXCEPT !.at = "scan"] /\ RunTask(w, v, g)
                  /\ UNCHANGED <<latch, client, stopped, runs>>
  BY DEF Steal
<1>2. calls[w] # <<>> /\ Top(w) \in Frames /\ Top(w).fn \in Looking /\ Top(w).at \in {"ownPop", "steal"}
  BY <1>1, TopLook DEF AtLook
<1>3. v \in Worker
  BY ONLY <1>1, <1>2 DEF Frames
<1> QED
  BY <1>1, <1>2, <1>3, RunTaskStep

(* A join that returns has its latch down, or a stop request was made.     *)
LEMMA AfterOver ==
  ASSUME PoolInv, NEW w \in Worker, At(w, Looking, "after"), Top(w).fn = "join",
         Stopped(w) \/ Top(w).ready \/ Ready(Top(w))
  PROVE  Stopped(w) \/ latch[Top(w).task] = 0
<1>1. CASE Top(w).ready
  <2>1. calls[w] # <<>>
    BY DEF At
  <2>2. Top(w).task \in Readied
    BY <1>1, <2>1, InvFacts, TopFacts
  <2> QED
    BY <2>2, InvFacts DEF ReadyMeansDown
<1> QED
  BY <1>1 DEF Ready

LEMMA AfterStep ==
  ASSUME PoolInv, NEW w \in Worker, After(w)
  PROVE  PoolInv'
<1>1. /\ At(w, Looking, "after") /\ UNCHANGED <<queue, latch, client, stopped, runs, late>>
      /\ \/ (Stopped(w) \/ Top(w).ready \/ Ready(Top(w))) /\ Return(w)
         \/ Goto(w, [Top(w) EXCEPT !.at = "own"])
  BY DEF After
<1>2. /\ calls[w] # <<>> /\ Top(w) \in Frames /\ Top(w).fn \in Looking /\ Top(w).at = "after"
  BY <1>1, TopLook DEF AtLook
<1>3. CASE (Stopped(w) \/ Top(w).ready \/ Ready(Top(w))) /\ Return(w)
  <2>1. ASSUME Top(w).fn \in {"join", "arena"}
        PROVE  Over(Top(w).task)
    <3>1. Top(w).fn = "join"
      BY ONLY <1>2, <2>1 DEF Looking
    <3>2. Stopped(w) \/ latch[Top(w).task] = 0
      BY <1>1, <1>3, <3>1, AfterOver
    <3>3. Stopped(w) => stopped # 0
      BY ONLY w \in Worker, PoolAssumption DEF Stopped, Worker
    <3> QED
      BY ONLY <3>2, <3>3 DEF Over
  <2> QED
    BY <1>1, <1>2, <1>3, <2>1, ReturnStep
<1>4. CASE Goto(w, [Top(w) EXCEPT !.at = "own"])
  <2>1. PICK g : g = [Top(w) EXCEPT !.at = "own"] /\ Goto(w, g)
    BY <1>4
  <2>2. Turns(w, g) /\ Top(w).at # "push" /\ g.at # "push"
    BY ONLY <1>2, <2>1 DEF Turns, Frames, AtLook
  <2> QED
    BY <1>1, <2>1, <2>2, LookGoto
<1> QED
  BY <1>1, <1>3, <1>4

LEMMA ArenaWaitStep ==
  ASSUME PoolInv, NEW w \in Worker, ArenaWait(w)
  PROVE  PoolInv'
<1>1. /\ calls[w] # <<>> /\ Top(w).at = "wait" /\ latch[Top(w).task] = 0 /\ Return(w)
      /\ UNCHANGED <<queue, latch, client, stopped, runs, late>>
  BY DEF ArenaWait, At
<1>2. Over(Top(w).task)
  BY <1>1 DEF Over
<1> QED
  BY <1>1, <1>2, ReturnStep

-----------------------------------------------------------------------------
(* The invariant.                                                          *)
LEMMA PoolInit == Init => PoolInv
<1> SUFFICES ASSUME Init PROVE PoolInv
  OBVIOUS
<1>1. /\ queue = [w \in Worker |-> <<>>]
      /\ calls = [w \in Worker |-> <<Frame("entry", None, "own")>>]
      /\ latch = [p \in Task \cup Client |-> 0] /\ client = [c \in Client |-> "out"]
      /\ stopped = 0 /\ runs = [t \in Task |-> 0] /\ late = [w \in Worker |-> 0]
  BY DEF Init
<1>2. PICK f : f = Frame("entry", None, "own")
  OBVIOUS
<1>3. /\ f \in Frames /\ f.fn = "entry" /\ f.task = None /\ f.at = "own" /\ f.ready = FALSE
  BY ONLY <1>2, KidsFacts DEF Frame, Frames, AtLook
<1>4. \A w \in Worker : /\ calls[w] = <<f>> /\ Len(calls[w]) = 1 /\ calls[w][1] = f
                        /\ calls[w] \in Seq(Frames)
                        /\ \A i \in 1..Len(calls[w]) : i = 1
  <2>1. <<f>> \in Seq(Frames) /\ Len(<<f>>) = 1 /\ <<f>>[1] = f
    BY ONLY <1>3
  <2>2. \A i \in 1..1 : i = 1
    BY ONLY SMT
  <2>3. \A w \in Worker : calls[w] = <<f>>
    BY ONLY <1>1, <1>2
  <2> QED
    BY ONLY <2>1, <2>2, <2>3
<1>5. Shape
  <2>1. calls \in [Worker -> Seq(Frames)]
    <3>1. calls = [w \in Worker |-> <<f>>] /\ <<f>> \in Seq(Frames)
      BY ONLY <1>1, <1>2, <1>3
    <3> QED
      BY ONLY <3>1
  <2>2. \A w \in Worker : \A i \in 1..Len(calls[w]) : StackOK(w, i) /\ Nested(w, i)
    <3>1. ~(1 > 1)
      BY ONLY SMT
    <3> QED
      BY ONLY <1>3, <1>4, <3>1 DEF StackOK, Nested, AtLook
  <2> QED
    BY <2>1, <2>2 DEF Shape
<1>6. Cores = {}
  BY <1>3, <1>4, CoresMember
<1>7. /\ Bodies = {} /\ Ending = {} /\ Waiting = {} /\ Unpushed = {} /\ Readied = {}
  BY ONLY <1>6 DEF Bodies, Ending, Waiting, Unpushed, Readied
<1>8. OnceOnStacks
  BY ONLY <1>3, <1>4 DEF OnceOnStacks, SameKey
<1>9. \A w \in Worker : queue[w] = <<>> /\ 1..Len(queue[w]) = {}
  <2>1. 1..Len(<<>>) = {}
    OBVIOUS
  <2> QED
    BY ONLY <1>1, <2>1
<1>10. OnceInQueues /\ Pooled = {}
  BY ONLY <1>9 DEF OnceInQueues, Pooled, Apart, Held
<1>11. \A t : ~Out(t)
  BY ONLY <1>7, <1>10 DEF Out
<1>12. \A t \in Task : runs[t] = 0
  BY ONLY <1>1
<1>13. Lifecycle
  BY ONLY <1>7, <1>10, <1>11, <1>12 DEF Lifecycle
<1>14. \A k \in Client : client[k] = "out"
  BY ONLY <1>1
<1>15. LatchesExact /\ ReadyMeansDown /\ Scoped
  BY ONLY <1>7, <1>11, <1>14 DEF LatchesExact, ReadyMeansDown, Scoped, Awaited
<1>16. Joined
  BY ONLY <1>7, <1>12, <1>14 DEF Joined
<1>17. Prompt
  BY ONLY <1>1 DEF Prompt
<1>18. Types
  <2>1. queue \in [Worker -> Seq(Task)]
    <3>1. <<>> \in Seq(Task)
      OBVIOUS
    <3> QED
      BY ONLY <1>1, <3>1
  <2>2. stopped \in 0..NumWorkers
    BY ONLY <1>1, PoolAssumption
  <2> QED
    BY ONLY <1>1, <2>1, <2>2 DEF Types
<1> QED
  BY ONLY <1>5, <1>8, <1>10, <1>13, <1>15, <1>16, <1>17, <1>18 DEF PoolInv

LEMMA PoolNext == PoolInv /\ [Next]_vars => PoolInv'
<1> SUFFICES ASSUME PoolInv, [Next]_vars PROVE PoolInv'
  OBVIOUS
<1>1. CASE \E c \in Client : Arena(c) \/ ArenaReturn(c)
  BY <1>1, ArenaStep, ArenaReturnStep
<1>2. CASE RequestStop
  BY <1>2, StopStep
<1>3. ASSUME NEW w \in Worker, Step(w)
      PROVE  PoolInv'
  <2>1. CASE CallJoin(w) \/ CallArena(w)
    BY <2>1, CallJoinStep, CallArenaStep
  <2>2. CASE ArenaWait(w) \/ Finish(w) \/ PushChild(w)
    BY <2>2, ArenaWaitStep, FinishStep, PushChildStep
  <2>3. CASE OwnCheck(w) \/ OwnPop(w) \/ Shuffle(w)
    BY <2>3, OwnCheckStep, OwnPopStep, ShuffleStep
  <2>4. CASE Visit(w) \/ Steal(w) \/ StealNothing(w)
    BY <2>4, VisitStep, StealStep, StealNothingStep
  <2>5. CASE After(w)
    BY <2>5, AfterStep
  <2> QED
    BY ONLY <1>3, <2>1, <2>2, <2>3, <2>4, <2>5 DEF Step
<1>4. CASE UNCHANGED vars
  <2>1. /\ queue' = queue /\ calls' = calls /\ latch' = latch /\ client' = client
        /\ stopped' = stopped /\ runs' = runs /\ late' = late
    BY <1>4 DEF vars
  <2>2. /\ Bodies' = Bodies /\ Ending' = Ending /\ Waiting' = Waiting
        /\ Unpushed' = Unpushed /\ Readied' = Readied /\ Shape' /\ OnceOnStacks'
    BY <2>1, InvFacts, SameStacks
  <2>3. Pooled' = Pooled /\ OnceInQueues'
    BY <2>1, InvFacts, SamePool
  <2>4. Types' /\ Prompt'
    <3>1. Types /\ Prompt
      BY InvFacts
    <3>2. Types'
      BY ONLY <2>1, <3>1 DEF Types
    <3>3. \A w : (Stopped(w)' <=> Stopped(w)) /\ Top(w)' = Top(w)
      BY ONLY <2>1 DEF Stopped, Top
    <3>4. Prompt'
      BY ONLY <2>1, <3>1, <3>3 DEF Prompt
    <3> QED
      BY <3>2, <3>4
  <2>5. Lifecycle' /\ \A t \in Task : Out(t)' => Out(t)
    <3>1. \A l \in Nat : l <= l
      BY ONLY SMT
    <3>2. Grows
      BY ONLY <2>1, <2>2, <3>1 DEF Grows
    <3>3. Pooled' = Pooled \cup {} /\ Bodies' \cup Ending' = Bodies \cup Ending
      BY ONLY <2>2, <2>3
    <3> QED
      BY <2>1, <3>2, <3>3, InvFacts, LifeStep
  <2>6. LatchesExact' /\ ReadyMeansDown'
    <3>1. LatchesExact /\ ReadyMeansDown
      BY InvFacts
    <3>2. \A p : (Awaited(p)' <=> Awaited(p)) /\ Unrun(p)' = Unrun(p)
      BY ONLY <2>1, <2>2 DEF Awaited, Unrun, Kids
    <3> QED
      BY ONLY <2>1, <2>2, <3>1, <3>2 DEF LatchesExact, ReadyMeansDown
  <2>7. Scoped'
    <3>1. \A p : Awaited(p)' <=> Awaited(p)
      BY ONLY <2>1, <2>2 DEF Awaited
    <3> QED
      BY <2>1, <2>5, <3>1, InvFacts, ScopedStay
  <2>8. Joined'
    BY <2>1, <2>2, InvFacts, StaysUnrun, JoinedStay
  <2> QED
    BY ONLY <2>2, <2>3, <2>4, <2>5, <2>6, <2>7, <2>8 DEF PoolInv
<1> QED
  BY ONLY <1>1, <1>2, <1>3, <1>4, [Next]_vars DEF Next

(* For any number of workers and clients, any forest of functions and any  *)
(* stop request: one place for a function, exact latches, and what they    *)
(* wait for.                                                               *)
THEOREM PoolInvariant == Spec => []PoolInv
<1>1. Init => PoolInv
  BY PoolInit
<1>2. PoolInv /\ [Next]_vars => PoolInv'
  BY PoolNext
<1> QED
  BY <1>1, <1>2, PTL DEF Spec

-----------------------------------------------------------------------------
(* What the runs check.                                                    *)
LEMMA TypeOfInv == PoolInv => TypeOK
<1> SUFFICES ASSUME PoolInv PROVE TypeOK
  OBVIOUS
<1>1. ASSUME NEW w \in Worker, NEW i \in 1..Len(calls[w])
      PROVE  FrameOK(calls[w][i]) /\ StackOK(w, i)
  <2>1. calls[w][i] \in Frames /\ StackOK(w, i)
    BY InvFacts DEF Shape
  <2> QED
    BY ONLY <2>1 DEF Frames, FrameOK, AtLook
<1> QED
  BY <1>1, InvFacts DEF Types, TypeOK

(* The state keeps its shape, and no latch goes below zero.                *)
THEOREM TypesHold == Spec => []TypeOK
BY TypeOfInv, PoolInvariant, PTL

LEMMA OutOfPlace ==
  ASSUME PoolInv, NEW t \in Task
  PROVE  /\ Queued(t) # {} => t \in Pooled
         /\ Running(t) # {} => t \in Bodies \/ t \in Ending
<1>1. ASSUME NEW x \in Queued(t)
      PROVE  t \in Pooled
  <2>1. x[1] \in Worker /\ x[2] \in 1..Len(queue[x[1]]) /\ queue[x[1]][x[2]] = t
    BY DEF Queued
  <2> QED
    BY ONLY <2>1, HeldMember DEF Pooled
<1>2. ASSUME NEW x \in Running(t)
      PROVE  t \in Bodies \/ t \in Ending
  <2>1. PICK w, i : /\ w \in Worker /\ i \in 1..Len(calls[w])
                    /\ calls[w][i].fn = "task" /\ calls[w][i].task = t
    BY DEF Running
  <2>2. PICK h \in Cores : h = Core(calls[w][i])
    BY <2>1, CoresMember
  <2>3. h.fn = "task" /\ h.task = t
    BY ONLY <2>1, <2>2, CoreOf
  <2>4. h.at \in {"body", "finish"}
    BY <2>3, InvFacts, CoreKinds
  <2> QED
    BY ONLY <2>3, <2>4 DEF Bodies, Ending
<1> QED
  BY <1>1, <1>2

LEMMA RunOnceOfInv == PoolInv => RunOnce
<1> SUFFICES ASSUME PoolInv, NEW t \in Task
             PROVE  Cardinality(Queued(t)) + Cardinality(Running(t)) + runs[t] <= 1
  BY DEF RunOnce
<1>1. OnceInQueues /\ OnceOnStacks /\ Lifecycle
  BY InvFacts
<1>2. Cardinality(Queued(t)) \in {0, 1} /\ (Cardinality(Queued(t)) = 1 => Queued(t) # {})
  <2>1. ASSUME NEW x \in Queued(t), NEW y \in Queued(t)
        PROVE  x = y
    <3>1. /\ x = <<x[1], x[2]>> /\ x[1] \in Worker /\ x[2] \in 1..Len(queue[x[1]])
          /\ queue[x[1]][x[2]] = t
          /\ y = <<y[1], y[2]>> /\ y[1] \in Worker /\ y[2] \in 1..Len(queue[y[1]])
          /\ queue[y[1]][y[2]] = t
      BY DEF Queued
    <3>2. x[1] = y[1] /\ x[2] = y[2]
      BY ONLY <3>1, <1>1 DEF OnceInQueues, Apart
    <3> QED
      BY ONLY <3>1, <3>2
  <2> QED
    BY <2>1, AtMostOne
<1>3. Cardinality(Running(t)) \in {0, 1} /\ (Cardinality(Running(t)) = 1 => Running(t) # {})
  <2>1. ASSUME NEW x \in Running(t), NEW y \in Running(t)
        PROVE  x = y
    <3>1. /\ x = <<x[1], x[2]>> /\ x[1] \in Worker /\ x[2] \in 1..Len(calls[x[1]])
          /\ calls[x[1]][x[2]].fn = "task" /\ calls[x[1]][x[2]].task = t
          /\ y = <<y[1], y[2]>> /\ y[1] \in Worker /\ y[2] \in 1..Len(calls[y[1]])
          /\ calls[y[1]][y[2]].fn = "task" /\ calls[y[1]][y[2]].task = t
      BY DEF Running
    <3>2. SameKey(calls[x[1]][x[2]], calls[y[1]][y[2]])
      BY ONLY <3>1 DEF SameKey
    <3>3. x[1] = y[1] /\ x[2] = y[2]
      BY ONLY <3>1, <3>2, <1>1 DEF OnceOnStacks
    <3> QED
      BY ONLY <3>1, <3>3
  <2> QED
    BY <2>1, AtMostOne
<1>4. Queued(t) # {} => runs[t] = 0 /\ Running(t) = {}
  BY <1>1, OutOfPlace DEF Lifecycle, Out
<1>5. Running(t) # {} => runs[t] = 0
  BY <1>1, OutOfPlace DEF Lifecycle, Out
<1>6. runs[t] \in {0, 1}
  BY <1>1 DEF Lifecycle
<1> QED
  BY ONLY <1>2, <1>3, <1>4, <1>5, <1>6

(* No function is run twice, and none is in two places, whoever steals it  *)
(* and whoever is told to stop.                                            *)
THEOREM RunOnceHolds == Spec => []RunOnce
BY RunOnceOfInv, PoolInvariant, PTL

LEMMA LatchCountsOfInv == PoolInv => LatchCounts
<1> SUFFICES ASSUME PoolInv, NEW p \in Task \cup Client, Live(p)
             PROVE  latch[p] = Cardinality({i \in 1..Len(Kids(p)) : runs[Kids(p)[i]] = 0})
  BY DEF LatchCounts
<1>1. Awaited(p)
  BY InvFacts, LiveIsAwaited
<1> QED
  BY <1>1, InvFacts DEF LatchesExact, Unrun

(* A latch counts exactly the functions that its call still waits for.     *)
THEOREM LatchCountsHold == Spec => []LatchCounts
BY LatchCountsOfInv, PoolInvariant, PTL

LEMMA ShutdownOfInv == PoolInv => BoundedShutdown
<1> SUFFICES ASSUME PoolInv, NEW w \in Worker PROVE late[w] <= 1
  BY DEF BoundedShutdown
<1>1. late[w] \in {0, 1}
  BY InvFacts DEF Prompt
<1> QED
  BY ONLY <1>1

(* A worker told to stop takes one more task at most.                      *)
THEOREM BoundedShutdownHolds == Spec => []BoundedShutdown
BY ShutdownOfInv, PoolInvariant, PTL

LEMMA ScopeOfInv == PoolInv => (stopped = 0 => ScopeHeld)
<1> SUFFICES ASSUME PoolInv, stopped = 0, NEW t \in Task, Outstanding(t) # {}
             PROVE  Live(Parent(t))
  BY DEF ScopeHeld
<1>1. Out(t)
  BY OutOfPlace DEF Outstanding, Out
<1>2. Awaited(Parent(t)) /\ Parent(t) \in Task \cup Client
  BY <1>1, InvFacts, SiteUnique DEF Scoped
<1> QED
  BY <1>2, InvFacts, LiveIsAwaited

(* Until a worker is told to stop, the call that passed a function to the  *)
(* pool does not return before the function has been run.                  *)
THEOREM ScopeHeldUnlessStopped == Spec => [](stopped = 0 => ScopeHeld)
BY ScopeOfInv, PoolInvariant, PTL

LEMMA BackOfInv == PoolInv => (stopped = 0 => BackMeansDone)
<1> SUFFICES ASSUME PoolInv, stopped = 0, NEW c \in Client, client[c] = "back",
                    NEW t \in Descendants[c]
             PROVE  runs[t] = 1
  BY DEF BackMeansDone
<1>1. /\ \A u \in Task : runs[u] = 1 => Unrun(u) = {}
      /\ runs[Root[c]] = 1 /\ Root[c] \in Task
  BY InvFacts, PoolAssumption DEF Joined
<1>2. PICK S : S = {u \in Task : runs[u] = 1}
  OBVIOUS
<1>3. Closed(S)
  <2>1. ASSUME NEW u \in S, NEW i \in 1..Len(Children[u])
        PROVE  Children[u][i] \in S
    <3>1. u \in Task /\ Unrun(u) = {} /\ Kids(u) = Children[u]
      BY <1>1, <1>2, KidsFacts
    <3>2. Children[u][i] \in Task
      BY <3>1, SiteUnique
    <3>3. runs[Children[u][i]] # 0
      BY ONLY <3>1, i \in 1..Len(Children[u]) DEF Unrun
    <3>4. runs[Children[u][i]] \in {0, 1}
      BY <3>2, InvFacts DEF Lifecycle
    <3> QED
      BY ONLY <1>2, <3>2, <3>3, <3>4
  <2> QED
    BY <2>1 DEF Closed
<1>4. S \in SUBSET Task /\ Root[c] \in S
  BY ONLY <1>1, <1>2
<1>5. t \in S
  <2>1. t \in {u \in Task : \A T \in SUBSET Task : Root[c] \in T /\ Closed(T) => u \in T}
    BY DEF Descendants
  <2> QED
    BY ONLY <1>3, <1>4, <2>1
<1> QED
  BY ONLY <1>2, <1>5

(* When arena returns, and nobody has been told to stop, everything that   *)
(* follows from its function has been run.                                 *)
THEOREM BackMeansDoneUnlessStopped == Spec => [](stopped = 0 => BackMeansDone)
BY BackOfInv, PoolInvariant, PTL

-----------------------------------------------------------------------------
(* The early return.                                                       *)
LEMMA OwnStackOnly ==
  ASSUME PoolInv, NEW v \in Worker, Step(v)
  PROVE  \A w \in Worker \ {v} : calls'[w] = calls[w]
<1>1. calls \in [Worker -> Seq(Frames)]
  BY InvFacts DEF Shape
<1>2. \E s : calls' = [calls EXCEPT ![v] = s]
  <2>1. ASSUME NEW g, Goto(v, g)
        PROVE  \E s : calls' = [calls EXCEPT ![v] = s]
    <3>1. calls' = [calls EXCEPT ![v] = [calls[v] EXCEPT ![1] = g]]
      BY ONLY <2>1 DEF Goto
    <3> QED
      BY ONLY <3>1
  <2>2. CASE CallJoin(v) \/ CallArena(v)
    BY ONLY <2>2 DEF CallJoin, CallArena
  <2>3. CASE ArenaWait(v) \/ Finish(v)
    BY ONLY <2>3 DEF ArenaWait, Finish, Return
  <2>4. CASE PushChild(v) \/ OwnCheck(v) \/ Visit(v) \/ StealNothing(v)
    BY ONLY <2>1, <2>4 DEF PushChild, OwnCheck, Visit, StealNothing, Check
  <2>5. CASE OwnPop(v) \/ Steal(v)
    BY ONLY <2>5 DEF OwnPop, Steal, RunTask
  <2>6. CASE Shuffle(v)
    BY ONLY <2>6 DEF Shuffle
  <2>7. CASE After(v)
    BY ONLY <2>1, <2>7 DEF After, Return
  <2> QED
    BY ONLY Step(v), <2>2, <2>3, <2>4, <2>5, <2>6, <2>7 DEF Step
<1> QED
  BY ONLY <1>1, <1>2, v \in Worker

(* Only a return makes a join's stack shorter.                             *)
LEMMA JoinReturns ==
  ASSUME PoolInv, NEW w \in Worker, Step(w), calls[w] # <<>>, Top(w).fn = "join",
         Len(calls'[w]) < Len(calls[w])
  PROVE  At(w, Looking, "after") /\ (Stopped(w) \/ Top(w).ready \/ Ready(Top(w)))
<1>1. /\ calls \in [Worker -> Seq(Frames)] /\ Len(calls[w]) \in Nat /\ Len(calls[w]) >= 1
      /\ Top(w) \in Frames /\ ~(Len(calls[w]) < Len(calls[w]))
  <2>1. calls \in [Worker -> Seq(Frames)]
    BY InvFacts DEF Shape
  <2>2. Len(calls[w]) \in Nat /\ Len(calls[w]) >= 1 /\ Top(w) \in Frames
    BY InvFacts, TopFacts
  <2>3. \A k \in Nat : ~(k < k)
    BY ONLY SMT
  <2> QED
    BY ONLY <2>1, <2>2, <2>3
<1>2. ASSUME NEW g, Goto(w, g)
      PROVE  FALSE
  <2>1. PICK s : s = [calls[w] EXCEPT ![1] = g]
    OBVIOUS
  <2>2. calls' = [calls EXCEPT ![w] = s]
    BY ONLY <1>2, <2>1 DEF Goto
  <2>3. calls'[w] = s
    BY ONLY <1>1, <2>2, w \in Worker
  <2>4. Len(s) = Len(calls[w])
    BY ONLY <1>1, <2>1, w \in Worker
  <2> QED
    BY ONLY <1>1, <2>3, <2>4, Len(calls'[w]) < Len(calls[w])
<1>3. ASSUME NEW v, NEW g \in Frames, RunTask(w, v, g), queue[v][1] \in Task
      PROVE  FALSE
  <2>1. PICK f : f = Frame("task", queue[v][1], "body")
    OBVIOUS
  <2>2. f \in Frames
    BY ONLY <1>3, <2>1, KidsFacts DEF Frames, Frame
  <2>3. calls' = [calls EXCEPT ![w] = <<f, g>> \o Tail(@)]
    BY ONLY <1>3, <2>1 DEF RunTask
  <2>4. PICK s : Pushed(w, s, f, g)
    BY <2>2, <2>3, InvFacts, PushGoes
  <2>5. calls'[w] = s /\ Len(s) = Len(calls[w]) + 1
    BY ONLY <2>4 DEF Pushed
  <2> QED
    BY ONLY <1>1, <2>5, Len(calls'[w]) < Len(calls[w])
<1>4. ~CallJoin(w) /\ ~CallArena(w)
  <2>1. ~At(w, {"task"}, "body")
    BY DEF At
  <2> QED
    BY ONLY <2>1 DEF CallJoin, CallArena
<1>5. ~ArenaWait(w) /\ ~Finish(w)
  BY ONLY Top(w).fn = "join" DEF ArenaWait, Finish, At
<1>6. ~PushChild(w) /\ ~OwnCheck(w) /\ ~Visit(w) /\ ~StealNothing(w)
  BY ONLY <1>2 DEF PushChild, OwnCheck, Visit, StealNothing, Check
<1>7. ~OwnPop(w)
  <2>1. ASSUME OwnPop(w)
        PROVE  FALSE
    <3>1. PICK g : g = [Top(w) EXCEPT !.at = "own"] /\ RunTask(w, w, g) /\ queue[w] # <<>>
      BY <2>1 DEF OwnPop
    <3>2. g \in Frames /\ queue[w][1] \in Task
      <4>1. g \in Frames
        BY ONLY <1>1, <3>1 DEF Frames, AtLook
      <4>2. queue[w] \in Seq(Task)
        BY InvFacts
      <4> QED
        BY ONLY <3>1, <4>1, <4>2
    <3> QED
      BY <1>3, <3>1, <3>2
  <2> QED
    BY <2>1
<1>8. ~Steal(w)
  <2>1. ASSUME Steal(w)
        PROVE  FALSE
    <3>1. PICK v, g : /\ g = [Top(w) EXCEPT !.at = "scan"] /\ v = Top(w).victim
                      /\ RunTask(w, v, g) /\ queue[v] # <<>>
      BY <2>1 DEF Steal
    <3>2. g \in Frames /\ queue[v][1] \in Task
      <4>1. g \in Frames /\ v \in Worker
        BY ONLY <1>1, <3>1 DEF Frames, AtLook
      <4>2. queue[v] \in Seq(Task)
        BY <4>1, InvFacts
      <4> QED
        BY ONLY <3>1, <4>1, <4>2
    <3> QED
      BY <1>3, <3>1, <3>2
  <2> QED
    BY <2>1
<1>9. ~Shuffle(w)
  <2>1. ASSUME Shuffle(w)
        PROVE  FALSE
    <3>1. PICK s : Goes(w, s, [Top(w) EXCEPT !.at = "scan", !.pos = 0, !.seen = {}])
      BY <2>1, InvFacts, ShuffleGoes
    <3>2. calls'[w] = s /\ Len(s) = Len(calls[w])
      BY ONLY <3>1 DEF Goes
    <3> QED
      BY ONLY <1>1, <3>2, Len(calls'[w]) < Len(calls[w])
  <2> QED
    BY <2>1
<1>10. After(w)
  BY ONLY Step(w), <1>4, <1>5, <1>6, <1>7, <1>8, <1>9 DEF Step
<1> QED
  BY ONLY <1>2, <1>10 DEF After

LEMMA EarlyReturnStep ==
  PoolInv /\ [Next]_vars =>
    [\A w \in Worker :
       LET f == Top(w) IN
         /\ calls[w] # <<>> /\ f.fn = "join"
         /\ Len(calls'[w]) < Len(calls[w])
         /\ \E i \in 1..Len(Kids(f.task)) : runs[Kids(f.task)[i]] = 0
         => w <= stopped]_vars
<1> SUFFICES ASSUME PoolInv, [Next]_vars, NEW w \in Worker, calls[w] # <<>>,
                    Top(w).fn = "join", Len(calls'[w]) < Len(calls[w]),
                    Unrun(Top(w).task) # {}
             PROVE  w <= stopped
  BY DEF Unrun
<1>1. Len(calls[w]) \in Nat /\ Top(w).task \in Waiting /\ Top(w).task \in Task
  <2>1. Len(calls[w]) \in Nat /\ Top(w).task \in Waiting
    BY InvFacts, TopFacts
  <2> QED
    BY <2>1, InvFacts
<1>2. calls'[w] # calls[w]
  BY ONLY <1>1, Len(calls'[w]) < Len(calls[w])
<1>3. \E v \in Worker : Step(v)
  BY ONLY [Next]_vars, <1>2 DEF Next, Arena, ArenaReturn, RequestStop, vars
<1>4. Step(w)
  BY <1>2, <1>3, OwnStackOnly
<1>5. At(w, Looking, "after") /\ (Stopped(w) \/ Top(w).ready \/ Ready(Top(w)))
  BY <1>4, JoinReturns
<1>6. latch[Top(w).task] # 0
  <2>1. Awaited(Top(w).task)
    BY <1>1 DEF Awaited
  <2> QED
    BY <1>1, <2>1, InvFacts, DownMeansRun
<1>7. Stopped(w)
  BY <1>5, <1>6, AfterOver
<1> QED
  BY <1>7 DEF Stopped

(* A join leaves functions behind only on a worker that was told to stop.  *)
THEOREM EarlyReturnHolds == Spec => EarlyReturnOnlyIfStopped
<1>1. PoolInv /\ [Next]_vars =>
        [\A w \in Worker :
           LET f == Top(w) IN
             /\ calls[w] # <<>> /\ f.fn = "join"
             /\ Len(calls'[w]) < Len(calls[w])
             /\ \E i \in 1..Len(Kids(f.task)) : runs[Kids(f.task)[i]] = 0
             => w <= stopped]_vars
  BY EarlyReturnStep
<1>2. Spec => []PoolInv
  BY PoolInvariant
<1> QED
  BY <1>1, <1>2, PTL DEF Spec, EarlyReturnOnlyIfStopped
=============================================================================
