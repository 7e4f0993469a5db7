----------------------------- MODULE ProofLibrary ----------------------------
(***************************************************************************)
(* What the proofs of several modules need.                                *)
(*                                                                         *)
(* Induction over the natural numbers, quotients and remainders, and the   *)
(* existence of functions that are defined by recursion.                   *)
(*                                                                         *)
(* About the queues of a pool's workers: a task that is pushed on one of   *)
(* them, or taken from one, is the only change to what the queues hold     *)
(* together, and no task gets into two places.  With it, two facts about   *)
(* call stacks and about counting places.                                  *)
(***************************************************************************)
EXTENDS Integers, Sequences, FiniteSets, FiniteSetTheorems, WellFoundedInduction, TLAPS

(* A nonempty set of natural numbers has a least one, and so a set that    *)
(* has zero and with each number the next has all of them.                 *)
LEMMA NatLeast ==
  ASSUME NEW T, T \subseteq Nat, T # {}
  PROVE  \E x \in T : \A y \in T : x <= y
<1> DEFINE R == {ss \in Nat \X Nat : ss[1] < ss[2]}
<1>1. IsWellFoundedOn(R, Nat)
  BY NatLessThanWellFounded DEF OpToRel
<1>2. PICK x \in T : \A y \in T : ~ (<<y, x>> \in R)
  BY <1>1, WFMin
<1>3. \A y \in T : ~(y < x)
  BY <1>2
<1> QED
  BY <1>3

LEMMA NatClosed ==
  ASSUME NEW T, T \subseteq Nat, 0 \in T, \A m \in T : m + 1 \in T
  PROVE  T = Nat
<1> SUFFICES ASSUME Nat \ T # {} PROVE FALSE
  OBVIOUS
<1>1. PICK x \in Nat \ T : \A y \in Nat \ T : x <= y
  BY NatLeast
<1>2. x # 0 /\ x - 1 \in Nat /\ ~(x <= x - 1)
  BY <1>1
<1>3. x - 1 \in T
  BY <1>1, <1>2
<1>4. (x - 1) + 1 = x
  BY <1>1
<1> QED
  BY <1>1, <1>3, <1>4

(* Quotient and remainder.                                                 *)
LEMMA Division ==
  ASSUME NEW d \in Nat \ {0}, NEW n \in Nat
  PROVE  \E q \in Nat, r \in 0..d - 1 : q = n \div d /\ r = n % d /\ n = d * q + r
<1>1. PICK q : q = n \div d
  OBVIOUS
<1>2. PICK r : r = n % d
  OBVIOUS
<1>3. q \in Nat /\ r \in 0..d - 1
  BY <1>1, <1>2
<1>4. n = d * q + r
  BY <1>1, <1>2
<1> QED
  BY <1>1, <1>2, <1>3, <1>4

LEMMA DivisionUnique ==
  ASSUME NEW d \in Nat \ {0}, NEW q \in Nat, NEW r \in 0..d - 1
  PROVE  (d * q + r) \div d = q /\ (d * q + r) % d = r
OBVIOUS

(* A function may be defined by its first value and the step to the next.  *)
Iterates(f, f0, step) == f[0] = f0 /\ \A n \in Nat : f[n + 1] = step[<<n, f[n]>>]

LEMMA RecursionExists ==
  ASSUME NEW S, NEW f0 \in S, NEW step \in [Nat \X S -> S]
  PROVE  \E f \in [Nat -> S] : Iterates(f, f0, step)
<1> DEFINE Upto(n, g) == /\ g \in [0..n -> S] /\ g[0] = f0
                         /\ \A m \in 0..n - 1 : g[m + 1] = step[<<m, g[m]>>]
           T == {n \in Nat : \E g : Upto(n, g)}
<1>1. 0 \in T
  <2>1. Upto(0, [m \in 0..0 |-> f0])
    OBVIOUS
  <2> QED
    BY <2>1
<1>2. ASSUME NEW n \in T
      PROVE  n + 1 \in T
  <2>1. n \in Nat
    OBVIOUS
  <2>2. PICK g : Upto(n, g)
    OBVIOUS
  <2> DEFINE h == [m \in 0..n + 1 |-> IF m = n + 1 THEN step[<<n, g[n]>>] ELSE g[m]]
  <2>3. g[n] \in S /\ step[<<n, g[n]>>] \in S
    BY <2>1, <2>2
  <2>4. h \in [0..n + 1 -> S] /\ h[0] = f0
    BY <2>1, <2>2, <2>3
  <2>5. ASSUME NEW m \in 0..n
        PROVE  h[m + 1] = step[<<m, h[m]>>]
    <3>1. m \in Nat /\ h[m] = g[m] /\ m + 1 \in 0..n + 1
      BY <2>1
    <3>2. CASE m = n
      BY <3>1, <3>2
    <3>3. CASE m # n
      <4>1. m \in 0..n - 1 /\ m + 1 # n + 1
        BY <2>1, <3>3
      <4>2. h[m + 1] = g[m + 1]
        BY <3>1, <4>1
      <4> QED
        BY <2>2, <3>1, <4>1, <4>2
    <3> QED
      BY <3>2, <3>3
  <2>6. (n + 1) - 1 = n /\ n + 1 \in Nat
    BY <2>1
  <2>7. Upto(n + 1, h)
    BY <2>4, <2>5, <2>6
  <2> QED
    BY <2>6, <2>7
<1>3. T \subseteq Nat
  OBVIOUS
<1>4. T = Nat
  <2> HIDE DEF T
  <2> QED
    BY <1>1, <1>2, <1>3, NatClosed
<1>5. ASSUME NEW n \in Nat, NEW g, Upto(n, g), NEW k \in Nat, NEW h, Upto(k, h)
      PROVE  \A m \in Nat : m <= n /\ m <= k => g[m] = h[m]
  <2> DEFINE U == {m \in Nat : m <= n /\ m <= k => g[m] = h[m]}
  <2>1. 0 \in U
    BY <1>5
  <2>2. ASSUME NEW m \in U
        PROVE  m + 1 \in U
    <3> SUFFICES ASSUME m + 1 <= n, m + 1 <= k
                 PROVE  g[m + 1] = h[m + 1]
      OBVIOUS
    <3>1. m \in 0..n - 1 /\ m \in 0..k - 1
      OBVIOUS
    <3>2. g[m] = h[m]
      BY <3>1
    <3> QED
      BY <1>5, <3>1, <3>2
  <2>3. U = Nat
    <3>1. U \subseteq Nat
      OBVIOUS
    <3> HIDE DEF U
    <3> QED
      BY <2>1, <2>2, <3>1, NatClosed
  <2> QED
    BY <2>3
<1> DEFINE P(n) == CHOOSE g : Upto(n, g)
           f == [n \in Nat |-> P(n)[n]]
<1>6. \A n \in Nat : Upto(n, P(n))
  <2>1. \A n \in Nat : \E g : Upto(n, g)
    BY <1>4
  <2> HIDE DEF Upto
  <2> QED
    BY <2>1
<1>7. f \in [Nat -> S]
  <2>1. ASSUME NEW n \in Nat PROVE P(n)[n] \in S
    <3>1. Upto(n, P(n))
      BY <1>6
    <3>2. n \in 0..n
      OBVIOUS
    <3> HIDE DEF P
    <3> QED
      BY <3>1, <3>2
  <2> HIDE DEF P
  <2> QED
    BY <2>1
<1>8. f[0] = f0
  BY <1>6
<1>9. ASSUME NEW n \in Nat
      PROVE  f[n + 1] = step[<<n, f[n]>>]
  <2>1. n + 1 \in Nat /\ n \in 0..(n + 1) - 1 /\ n <= n + 1 /\ n <= n
    OBVIOUS
  <2>2. P(n + 1)[n + 1] = step[<<n, P(n + 1)[n]>>]
    BY <1>6, <2>1
  <2>3. P(n + 1)[n] = P(n)[n]
    <3>1. Upto(n, P(n)) /\ Upto(n + 1, P(n + 1))
      BY <1>6, <2>1
    <3> HIDE DEF P, Upto
    <3> QED
      BY <1>5, <2>1, <3>1
  <2> HIDE DEF P
  <2> QED
    BY <2>1, <2>2, <2>3
<1> HIDE DEF f
<1> QED
  BY <1>7, <1>8, <1>9 DEF Iterates

-----------------------------------------------------------------------------

(* q[w], for w in W, are the queues, top first.                            *)
Held(W, q) == UNION {{q[w][i] : i \in 1..Len(q[w])} : w \in W}
Apart(W, q) ==
  \A v, w \in W : \A i \in 1..Len(q[v]), j \in 1..Len(q[w]) :
    q[v][i] = q[w][j] => v = w /\ i = j

(* u is pushed on v; the top of v is taken.                                *)
Pushes(W, T, q, r, v, u) ==
  /\ q \in [W -> Seq(T)] /\ v \in W /\ u \in T \ Held(W, q)
  /\ r = [q EXCEPT ![v] = <<u>> \o @]
Takes(W, T, q, r, v) ==
  /\ q \in [W -> Seq(T)] /\ v \in W /\ q[v] # <<>>
  /\ r = [q EXCEPT ![v] = Tail(@)]

LEMMA HeldMember ==
  ASSUME NEW W, NEW q
  PROVE  \A t : t \in Held(W, q) <=> \E w \in W : \E i \in 1..Len(q[w]) : q[w][i] = t
BY DEF Held

LEMMA PushOnTop ==
  ASSUME NEW W, NEW T, NEW q, NEW r, NEW v, NEW u, Pushes(W, T, q, r, v, u), Apart(W, q)
  PROVE  r \in [W -> Seq(T)] /\ Apart(W, r) /\ Held(W, r) = Held(W, q) \cup {u}
<1>0. /\ q \in [W -> Seq(T)] /\ v \in W /\ u \in T /\ u \notin Held(W, q)
      /\ r = [q EXCEPT ![v] = <<u>> \o @]
  BY DEF Pushes
<1> DEFINE s == <<u>> \o q[v]
<1>1. s = <<u>> \o q[v] /\ r = [q EXCEPT ![v] = s]
  BY <1>0
<1> HIDE DEF s
<1>2. q[v] \in Seq(T) /\ Len(q[v]) \in Nat
  BY ONLY <1>0
<1>3. /\ s \in Seq(T) /\ Len(s) = Len(q[v]) + 1 /\ s[1] = u
      /\ \A i \in 1..Len(q[v]) : s[i + 1] = q[v][i]
  BY ONLY <1>0, <1>1, <1>2
<1>4. /\ r \in [W -> Seq(T)] /\ r[v] = s
      /\ \A w \in W \ {v} : r[w] = q[w]
  BY ONLY <1>0, <1>1, <1>3
<1>5. \A i \in 1..Len(s) : i = 1 \/ \E j \in 1..Len(q[v]) : i = j + 1 /\ s[i] = q[v][j]
  <2>1. ASSUME NEW i \in 1..Len(s), i # 1
        PROVE  \E j \in 1..Len(q[v]) : i = j + 1 /\ s[i] = q[v][j]
    <3>1. i - 1 \in 1..Len(q[v]) /\ i = (i - 1) + 1
      BY ONLY <1>2, <1>3, <2>1
    <3> QED
      BY ONLY <1>3, <3>1
  <2> QED
    BY <2>1
<1>6. \A j \in 1..Len(q[v]) : j + 1 \in 1..Len(s) /\ s[j + 1] = q[v][j]
  BY ONLY <1>2, <1>3
<1>7. 1 \in 1..Len(s)
  BY ONLY <1>2, <1>3
<1>8. Apart(W, r)
  <2>1. \A w \in W : \A j \in 1..Len(q[w]) : q[w][j] # u
    BY <1>0, HeldMember
  <2>2. ASSUME NEW x \in W, NEW y \in W, NEW i \in 1..Len(r[x]),
               NEW j \in 1..Len(r[y]), r[x][i] = r[y][j]
        PROVE  x = y /\ i = j
    <3>1. CASE x = v /\ y = v
      <4>1. i \in 1..Len(s) /\ j \in 1..Len(s) /\ s[i] = s[j]
        BY ONLY <2>2, <3>1, <1>4
      <4>2. CASE i = 1 \/ j = 1
        <5>1. \A k \in 1..Len(s) : s[k] = u => k = 1
          BY ONLY <1>5, <2>1, <1>0
        <5> QED
          BY ONLY <4>1, <4>2, <5>1, <3>1, <1>3
      <4>3. CASE i # 1 /\ j # 1
        <5>1. PICK k \in 1..Len(q[v]) : i = k + 1 /\ s[i] = q[v][k]
          BY <4>1, <4>3, <1>5
        <5>2. PICK l \in 1..Len(q[v]) : j = l + 1 /\ s[j] = q[v][l]
          BY <4>1, <4>3, <1>5
        <5>3. k = l
          BY ONLY <4>1, <5>1, <5>2, <1>0, Apart(W, q),
             k \in 1..Len(q[v]), l \in 1..Len(q[v]) DEF Apart
        <5> QED
          BY ONLY <3>1, <5>1, <5>2, <5>3
      <4> QED
        BY <4>2, <4>3
    <3>2. CASE x = v /\ y # v
      <4>1. i \in 1..Len(s) /\ j \in 1..Len(q[y]) /\ s[i] = q[y][j]
        BY ONLY <2>2, <3>2, <1>4
      <4> QED
        BY ONLY <4>1, <3>2, <1>3, <1>5, <2>1, <1>0, y \in W, Apart(W, q) DEF Apart
    <3>3. CASE x # v /\ y = v
      <4>1. j \in 1..Len(s) /\ i \in 1..Len(q[x]) /\ s[j] = q[x][i]
        BY ONLY <2>2, <3>3, <1>4
      <4> QED
        BY ONLY <4>1, <3>3, <1>3, <1>5, <2>1, <1>0, x \in W, Apart(W, q) DEF Apart
    <3>4. CASE x # v /\ y # v
      <4>1. i \in 1..Len(q[x]) /\ j \in 1..Len(q[y]) /\ q[x][i] = q[y][j]
        BY ONLY <2>2, <3>4, <1>4
      <4> QED
        BY ONLY <4>1, x \in W, y \in W, Apart(W, q) DEF Apart
    <3> QED
      BY <3>1, <3>2, <3>3, <3>4
  <2> QED
    BY ONLY <2>2 DEF Apart
<1>9. ASSUME NEW t
      PROVE  t \in Held(W, r) <=> t \in Held(W, q) \cup {u}
  <2>1. t \in Held(W, r) <=> \E w \in W : \E i \in 1..Len(r[w]) : r[w][i] = t
    BY DEF Held
  <2>2. ASSUME t \in Held(W, r)
        PROVE  t \in Held(W, q) \cup {u}
    <3>1. PICK w \in W : \E i \in 1..Len(r[w]) : r[w][i] = t
      BY <2>1, <2>2
    <3>2. CASE w = v
      <4>1. PICK i \in 1..Len(s) : s[i] = t
        BY ONLY <3>1, <3>2, <1>4
      <4>2. t = u \/ \E j \in 1..Len(q[v]) : q[v][j] = t
        BY ONLY <4>1, <1>3, <1>5
      <4> QED
        BY ONLY <4>2, <1>0, HeldMember
    <3>3. CASE w # v
      BY <1>0, <3>1, <3>3, <1>4, HeldMember
    <3> QED
      BY <3>2, <3>3
  <2>3. ASSUME t \in Held(W, q)
        PROVE  t \in Held(W, r)
    <3>1. PICK w \in W : \E i \in 1..Len(q[w]) : q[w][i] = t
      BY <2>3, HeldMember
    <3>2. CASE w = v
      <4>1. PICK i \in 1..Len(q[v]) : q[v][i] = t
        BY ONLY <3>1, <3>2
      <4>2. i + 1 \in 1..Len(s) /\ s[i + 1] = t
        BY ONLY <4>1, <1>6
      <4> QED
        BY ONLY <4>2, <1>4, <2>1, <1>0
    <3>3. CASE w # v
      BY <3>1, <3>3, <1>4, <2>1
    <3> QED
      BY <3>2, <3>3
  <2>4. u \in Held(W, r)
    <3>1. u \in Held(W, r) <=> \E w \in W : \E i \in 1..Len(r[w]) : r[w][i] = u
      BY DEF Held
    <3> QED
      BY ONLY <3>1, <1>3, <1>4, <1>7, <1>0
  <2> QED
    BY <2>2, <2>3, <2>4
<1> QED
  BY <1>4, <1>8, <1>9

LEMMA TakeTop ==
  ASSUME NEW W, NEW T, NEW q, NEW r, NEW v, Takes(W, T, q, r, v), Apart(W, q)
  PROVE  /\ r \in [W -> Seq(T)] /\ Apart(W, r)
         /\ q[v][1] \in Held(W, q) /\ q[v][1] \in T
         /\ Held(W, r) = Held(W, q) \ {q[v][1]}
<1>0. q \in [W -> Seq(T)] /\ v \in W /\ q[v] # <<>> /\ r = [q EXCEPT ![v] = Tail(@)]
  BY DEF Takes
<1> DEFINE s == Tail(q[v])
           u == q[v][1]
<1>1. s = Tail(q[v]) /\ r = [q EXCEPT ![v] = s]
  BY <1>0
<1> HIDE DEF s
<1>2. q[v] \in Seq(T) /\ Len(q[v]) \in Nat /\ Len(q[v]) >= 1
  BY ONLY <1>0
<1>3. /\ s \in Seq(T) /\ Len(s) = Len(q[v]) - 1
      /\ \A i \in 1..Len(s) : s[i] = q[v][i + 1]
  BY ONLY <1>1, <1>2
<1>4. /\ r \in [W -> Seq(T)] /\ r[v] = s
      /\ \A w \in W \ {v} : r[w] = q[w]
  BY ONLY <1>0, <1>1, <1>3
<1>5. 1 \in 1..Len(q[v]) /\ u \in T /\ u \in Held(W, q)
  <2>1. 1 \in 1..Len(q[v])
    BY ONLY <1>2
  <2> QED
    BY <1>0, <2>1, <1>2, HeldMember
<1>6. \A i \in 1..Len(s) : i + 1 \in 1..Len(q[v]) /\ i + 1 # 1 /\ s[i] = q[v][i + 1]
  BY ONLY <1>2, <1>3
<1>7. \A j \in 1..Len(q[v]) : j # 1 => j - 1 \in 1..Len(s) /\ s[j - 1] = q[v][j]
  <2>1. ASSUME NEW j \in 1..Len(q[v]), j # 1
        PROVE  j - 1 \in 1..Len(s) /\ (j - 1) + 1 = j
    BY ONLY <1>2, <1>3, <2>1
  <2> QED
    BY <2>1, <1>3
<1>8. Apart(W, r)
  <2>1. ASSUME NEW x \in W, NEW y \in W, NEW i \in 1..Len(r[x]),
               NEW j \in 1..Len(r[y]), r[x][i] = r[y][j]
        PROVE  x = y /\ i = j
    <3>1. CASE x = v /\ y = v
      <4>1. i \in 1..Len(s) /\ j \in 1..Len(s) /\ s[i] = s[j]
        BY ONLY <2>1, <3>1, <1>4
      <4>2. /\ i + 1 \in 1..Len(q[v]) /\ j + 1 \in 1..Len(q[v])
            /\ q[v][i + 1] = q[v][j + 1]
        BY ONLY <4>1, <1>6
      <4>3. i + 1 = j + 1
        BY ONLY <4>2, <1>0, Apart(W, q) DEF Apart
      <4> QED
        BY ONLY <4>3, <4>1, <3>1, <1>2, <1>3
    <3>2. CASE x = v /\ y # v
      <4>1. i \in 1..Len(s) /\ j \in 1..Len(q[y]) /\ s[i] = q[y][j]
        BY ONLY <2>1, <3>2, <1>4
      <4> QED
        BY ONLY <4>1, <3>2, <1>6, <1>0, y \in W, Apart(W, q) DEF Apart
    <3>3. CASE x # v /\ y = v
      <4>1. j \in 1..Len(s) /\ i \in 1..Len(q[x]) /\ s[j] = q[x][i]
        BY ONLY <2>1, <3>3, <1>4
      <4> QED
        BY ONLY <4>1, <3>3, <1>6, <1>0, x \in W, Apart(W, q) DEF Apart
    <3>4. CASE x # v /\ y # v
      <4>1. i \in 1..Len(q[x]) /\ j \in 1..Len(q[y]) /\ q[x][i] = q[y][j]
        BY ONLY <2>1, <3>4, <1>4
      <4> QED
        BY ONLY <4>1, x \in W, y \in W, Apart(W, q) DEF Apart
    <3> QED
      BY <3>1, <3>2, <3>3, <3>4
  <2> QED
    BY ONLY <2>1 DEF Apart
<1>9. ASSUME NEW t
      PROVE  t \in Held(W, r) <=> t \in Held(W, q) /\ t # u
  <2>1. t \in Held(W, r) <=> \E w \in W : \E i \in 1..Len(r[w]) : r[w][i] = t
    BY ONLY TRUE DEF Held
  <2>2. ASSUME t \in Held(W, r)
        PROVE  t \in Held(W, q) /\ t # u
    <3>1. PICK w \in W : \E i \in 1..Len(r[w]) : r[w][i] = t
      BY <2>1, <2>2
    <3>2. CASE w = v
      <4>1. PICK i \in 1..Len(s) : s[i] = t
        BY ONLY <3>1, <3>2, <1>4
      <4>2. i + 1 \in 1..Len(q[v]) /\ i + 1 # 1 /\ t = q[v][i + 1]
        BY ONLY <4>1, <1>6
      <4> QED
        BY <1>0, <4>2, <1>5, HeldMember DEF Apart
    <3>3. CASE w # v
      <4>1. PICK i \in 1..Len(q[w]) : q[w][i] = t
        BY ONLY <3>1, <3>3, <1>4
      <4> QED
        BY <1>0, <4>1, <3>3, <1>5, HeldMember DEF Apart
    <3> QED
      BY <3>2, <3>3
  <2>3. ASSUME t \in Held(W, q), t # u
        PROVE  t \in Held(W, r)
    <3>1. PICK w \in W : \E i \in 1..Len(q[w]) : q[w][i] = t
      BY <2>3, HeldMember
    <3>2. CASE w = v
      <4>1. PICK i \in 1..Len(q[v]) : q[v][i] = t
        BY ONLY <3>1, <3>2
      <4>2. i - 1 \in 1..Len(s) /\ s[i - 1] = t
        BY <4>1, <2>3, <1>7
      <4> QED
        BY ONLY <4>2, <1>4, <2>1, <1>0
    <3>3. CASE w # v
      BY <3>1, <3>3, <1>4, <2>1
    <3> QED
      BY <3>2, <3>3
  <2> QED
    BY <2>2, <2>3
<1> QED
  BY <1>4, <1>5, <1>8, <1>9

-----------------------------------------------------------------------------
(* A stack c whose top is replaced by f on g.                              *)
LEMMA PushedSeq ==
  ASSUME NEW S, NEW c \in Seq(S), Len(c) >= 1, NEW f \in S, NEW g \in S,
         NEW r, r = Tail(c), NEW s, s = <<f, g>> \o r
  PROVE  /\ s \in Seq(S) /\ Len(s) = Len(c) + 1 /\ s[1] = f /\ s[2] = g
         /\ \A i \in 3..Len(s) : s[i] = c[i - 1]
<1>1. r \in Seq(S) /\ Len(r) = Len(c) - 1 /\ \A i \in 1..Len(r) : r[i] = c[i + 1]
  BY ONLY c \in Seq(S), Len(c) >= 1, r = Tail(c)
<1>2. /\ s \in Seq(S) /\ Len(s) = Len(r) + 2 /\ s[1] = f /\ s[2] = g
      /\ \A i \in 3..Len(s) : s[i] = r[i - 2]
  BY ONLY <1>1, f \in S, g \in S, s = <<f, g>> \o r
<1>3. ASSUME NEW i \in 3..Len(s)
      PROVE  s[i] = c[i - 1]
  <2>1. i - 2 \in 1..Len(r) /\ (i - 2) + 1 = i - 1
    BY ONLY <1>1, <1>2, i \in 3..Len(s)
  <2>2. r[i - 2] = c[(i - 2) + 1]
    BY <2>1, <1>1
  <2> QED
    BY <2>1, <2>2, <1>2
<1> QED
  BY ONLY <1>1, <1>2, <1>3, c \in Seq(S)

(* Something that is in one place at most is counted so.                   *)
LEMMA AtMostOne ==
  ASSUME NEW S, \A x, y \in S : x = y
  PROVE  Cardinality(S) \in {0, 1} /\ (Cardinality(S) = 1 => S # {})
<1>1. CASE S = {}
  BY <1>1, FS_EmptySet
<1>2. CASE S # {}
  <2>1. PICK x \in S : S = {x}
    BY <1>2
  <2> QED
    BY <2>1, FS_Singleton
<1> QED
  BY <1>1, <1>2
=============================================================================
