--------------------------- MODULE FlatMap_proof ---------------------------
(***************************************************************************)
(* FlatMap: that probing works, for every table size and hash function.    *)
(*                                                                         *)
(* For a key, the slots of a table have an order, that of its probe: rank  *)
(* is the number of slots looked at before.  Where the probe stops is the  *)
(* slot of least rank that is free or holds the key (StopsFirst).          *)
(***************************************************************************)
EXTENDS FlatMap, ProofLibrary

-----------------------------------------------------------------------------
(* The order of probing.                                                   *)
Slots(n) == 0..n - 1

LEMMA DivisionOfSum ==
  ASSUME NEW d \in Nat \ {0}, NEW x \in Nat, NEW i \in Nat
  PROVE  \E q \in Nat, r \in 0..d - 1 : r = (x + i) % d /\ x + i = d * q + r
<1>1. x + i \in Nat
  OBVIOUS
<1>2. \E q \in Nat, r \in 0..d - 1 :
        q = (x + i) \div d /\ r = (x + i) % d /\ x + i = d * q + r
  BY <1>1, Division, Zenon
<1> QED
  BY <1>2, Zenon

LEMMA OneTurn ==
  ASSUME NEW d \in Nat \ {0}, NEW p \in Nat, NEW q \in Nat, p < q
  PROVE  d * p + d <= d * q
<1>1. PICK e \in Nat : q = p + 1 + e
  <2>1. q - p - 1 \in Nat /\ q = p + 1 + (q - p - 1)
    OBVIOUS
  <2> QED
    BY <2>1
<1>2. d * q = d * p + d + d * e
  BY <1>1
<1>3. d * e >= 0
  OBVIOUS
<1> QED
  BY <1>2, <1>3

(* A probe looks at no slot twice in a turn, and at every slot.            *)
LEMMA ProbeOnce ==
  ASSUME NEW n \in Nat \ {0}, NEW x \in Nat, NEW i \in Slots(n), NEW j \in Slots(n),
         Probe(n, x, i) = Probe(n, x, j)
  PROVE  i = j
<1> USE DEF Slots
<1>0. i \in Nat /\ j \in Nat
  OBVIOUS
<1>1. PICK p \in Nat, r \in 0..n - 1 : r = (x + i) % n /\ x + i = n * p + r
  BY <1>0, DivisionOfSum, Zenon
<1>2. PICK q \in Nat, s \in 0..n - 1 : s = (x + j) % n /\ x + j = n * q + s
  BY <1>0, DivisionOfSum, Zenon
<1>3. r = s
  BY <1>1, <1>2 DEF Probe
<1>4. PICK a \in Int : a = n * p
  OBVIOUS
<1>5. PICK b \in Int : b = n * q
  OBVIOUS
<1>6. i - j = a - b
  BY <1>1, <1>2, <1>3, <1>4, <1>5
<1>7. CASE p < q
  <2>1. a + n <= b
    BY <1>7, <1>4, <1>5, OneTurn
  <2> QED
    BY <2>1, <1>6
<1>8. CASE q < p
  <2>1. b + n <= a
    BY <1>8, <1>4, <1>5, OneTurn
  <2> QED
    BY <2>1, <1>6
<1>9. CASE p = q
  BY <1>9, <1>4, <1>5, <1>6
<1> QED
  BY <1>7, <1>8, <1>9

LEMMA ProbeEverywhere ==
  ASSUME NEW n \in Nat \ {0}, NEW x \in Nat
  PROVE  /\ \A i \in Slots(n) : Probe(n, x, i) \in Slots(n)
         /\ \A h \in Slots(n) : \E i \in Slots(n) : Probe(n, x, i) = h
<1> USE DEF Slots
<1>1. ASSUME NEW i \in 0..n - 1
      PROVE  Probe(n, x, i) \in 0..n - 1
  <2>0. i \in Nat
    OBVIOUS
  <2>1. \E q \in Nat, r \in 0..n - 1 : r = (x + i) % n /\ x + i = n * q + r
    BY <2>0, DivisionOfSum, Zenon
  <2> QED
    BY <2>1 DEF Probe
<1>2. ASSUME NEW h \in 0..n - 1
      PROVE  \E i \in 0..n - 1 : Probe(n, x, i) = h
  <2>1. PICK q \in Nat, r \in 0..n - 1 : r = x % n /\ x = n * q + r
    BY Division
  <2>2. PICK a \in Nat : a = n * q
    OBVIOUS
  <2>3. CASE r <= h
    <3>1. h - r \in 0..n - 1 /\ x + (h - r) = n * q + h
      BY <2>1, <2>2, <2>3
    <3>2. (n * q + h) % n = h
      BY DivisionUnique
    <3> QED
      BY <3>1, <3>2 DEF Probe
  <2>4. CASE h < r
    <3>1. n * (q + 1) = a + n /\ q + 1 \in Nat
      BY <2>2
    <3>2. h + n - r \in 0..n - 1 /\ x + (h + n - r) = n * (q + 1) + h
      BY <2>1, <2>2, <2>4, <3>1
    <3>3. (n * (q + 1) + h) % n = h
      BY <3>1, DivisionUnique
    <3> QED
      BY <3>2, <3>3 DEF Probe
  <2> QED
    BY <2>1, <2>3, <2>4
<1> QED
  BY <1>1, <1>2

(* How many slots a probe for k looks at before slot h.                    *)
Rank(n, k, h) == CHOOSE i \in Slots(n) : Probe(n, Hash[k], i) = h

LEMMA HashNat ==
  ASSUME NEW k \in Key
  PROVE  Hash[k] \in Nat
BY FlatMapAssumption

LEMMA RankProperties ==
  ASSUME NEW n \in Nat \ {0}, NEW k \in Key
  PROVE  /\ \A h \in Slots(n) : Rank(n, k, h) \in Slots(n) /\ Probe(n, Hash[k], Rank(n, k, h)) = h
         /\ \A i \in Slots(n) : Probe(n, Hash[k], i) \in Slots(n) /\ Rank(n, k, Probe(n, Hash[k], i)) = i
         /\ \A g, h \in Slots(n) : Rank(n, k, g) = Rank(n, k, h) => g = h
<1>1. PICK x \in Nat : x = Hash[k]
  BY HashNat
<1>2. ASSUME NEW h \in Slots(n)
      PROVE  Rank(n, k, h) \in Slots(n) /\ Probe(n, Hash[k], Rank(n, k, h)) = h
  <2>1. \E i \in Slots(n) : Probe(n, Hash[k], i) = h
    BY <1>1, ProbeEverywhere
  <2> QED
    BY <2>1, Zenon DEF Rank
<1>3. ASSUME NEW i \in Slots(n)
      PROVE  Probe(n, Hash[k], i) \in Slots(n) /\ Rank(n, k, Probe(n, Hash[k], i)) = i
  <2>1. Probe(n, Hash[k], i) \in Slots(n)
    BY <1>1, ProbeEverywhere
  <2>2. /\ Rank(n, k, Probe(n, Hash[k], i)) \in Slots(n)
        /\ Probe(n, Hash[k], Rank(n, k, Probe(n, Hash[k], i))) = Probe(n, Hash[k], i)
    BY <2>1, <1>2
  <2> QED
    BY <2>1, <2>2, <1>1, ProbeOnce
<1>4. ASSUME NEW g \in Slots(n), NEW h \in Slots(n), Rank(n, k, g) = Rank(n, k, h)
      PROVE  g = h
  BY <1>2, <1>4, Zenon
<1> QED
  BY <1>2, <1>3, <1>4

-----------------------------------------------------------------------------
(* Tables of n slots.  Chained: what the probe of a stored pair passes is  *)
(* taken, or among the slots in c.  Once: no key is stored twice.          *)
Slot == {Free} \cup [key : Key, val : Val]
IsTable(b, n) == b \in [Slots(n) -> Slot]
Chained(b, n, c) == \A g \in Taken(b), h \in Slots(n) :
  Rank(n, b[g].key, h) < Rank(n, b[g].key, g) => b[h] # Free \/ h \in c
Once(b) == \A g, h \in Taken(b) : b[g].key = b[h].key => g = h
KeysIn(b) == {b[h].key : h \in Taken(b)}

LEMMA TakenPairs ==
  ASSUME NEW n \in Nat, NEW b, IsTable(b, n)
  PROVE  /\ Taken(b) \subseteq Slots(n)
         /\ IsFiniteSet(Slots(n)) /\ Cardinality(Slots(n)) = n
         /\ IsFiniteSet(Taken(b)) /\ Cardinality(Taken(b)) \in Nat /\ Cardinality(Taken(b)) <= n
         /\ \A h \in Slots(n) : h \in Taken(b) <=> b[h] # Free
         /\ \A h \in Taken(b) : b[h] \in [key : Key, val : Val] /\ b[h].key \in Key /\ b[h].val \in Val
         /\ KeysIn(b) \subseteq Key
<1>1. Taken(b) \subseteq Slots(n) /\ \A h \in Slots(n) : h \in Taken(b) <=> b[h] # Free
  BY DEF IsTable, Taken
<1>2. IsFiniteSet(Slots(n)) /\ Cardinality(Slots(n)) = n
  BY FS_Interval DEF Slots
<1>3. IsFiniteSet(Taken(b)) /\ Cardinality(Taken(b)) \in Nat /\ Cardinality(Taken(b)) <= n
  BY <1>1, <1>2, FS_Subset, FS_CardinalityType
<1>4. \A h \in Taken(b) : b[h] \in [key : Key, val : Val]
  BY <1>1 DEF IsTable, Slot
<1>5. \A h \in Taken(b) : b[h].key \in Key /\ b[h].val \in Val
  BY <1>4
<1> QED
  BY <1>1, <1>2, <1>3, <1>4, <1>5 DEF KeysIn

(* As many pairs as keys, if every key is there once; never less.          *)
LEMMA KeysCounted ==
  ASSUME NEW n \in Nat, NEW b, IsTable(b, n)
  PROVE  /\ IsFiniteSet(KeysIn(b)) /\ Cardinality(KeysIn(b)) \in Nat
         /\ Cardinality(KeysIn(b)) <= Cardinality(Taken(b))
         /\ Once(b) => Cardinality(KeysIn(b)) = Cardinality(Taken(b))
<1> DEFINE f == [h \in Taken(b) |-> b[h].key]
<1>1. IsFiniteSet(Taken(b))
  BY TakenPairs
<1>2. f \in Surjection(Taken(b), KeysIn(b))
  BY DEF Surjection, KeysIn
<1>3. Once(b) => f \in Injection(Taken(b), KeysIn(b))
  <2>1. f \in [Taken(b) -> KeysIn(b)] /\ \A h \in Taken(b) : f[h] = b[h].key
    BY DEF KeysIn
  <2> HIDE DEF f
  <2> QED
    BY <2>1 DEF Injection, IsInjective, Once
<1> HIDE DEF f
<1>4. /\ IsFiniteSet(KeysIn(b)) /\ Cardinality(KeysIn(b)) <= Cardinality(Taken(b))
      /\ Cardinality(KeysIn(b)) = Cardinality(Taken(b)) <=> f \in Injection(Taken(b), KeysIn(b))
  BY <1>1, <1>2, FS_Surjection, Zenon
<1> QED
  BY <1>3, <1>4, FS_CardinalityType

(* A table that is not full ends every probe.                              *)
LEMMA FreeSlotEnds ==
  ASSUME NEW n \in Nat, NEW b, IsTable(b, n), Cardinality(Taken(b)) < n, NEW k \in Key
  PROVE  n > 0 /\ ProbeEnds(b, n, k)
<1>1. n \in Nat \ {0}
  BY TakenPairs
<1>2. PICK h \in Slots(n) : b[h] = Free
  <2>1. Taken(b) # Slots(n)
    BY TakenPairs
  <2> QED
    BY <2>1, TakenPairs
<1>3. Rank(n, k, h) \in Slots(n) /\ Probe(n, Hash[k], Rank(n, k, h)) = h
  BY <1>1, RankProperties
<1>4. StopsAt(b, n, k, Rank(n, k, h))
  BY <1>2, <1>3 DEF StopsAt
<1> QED
  BY <1>1, <1>3, <1>4 DEF ProbeEnds, Slots

(* Where a probe for k stops: at the first slot that is free or holds k.   *)
Stops(b, k, h) == b[h] # Free => b[h].key = k

LEMMA StopsFirst ==
  ASSUME NEW n \in Nat \ {0}, NEW b, NEW k \in Key, ProbeEnds(b, n, k)
  PROVE  /\ IndexOn(b, n, k) \in Slots(n) /\ Stops(b, k, IndexOn(b, n, k))
         /\ \A g \in Slots(n) : Rank(n, k, g) < Rank(n, k, IndexOn(b, n, k)) => ~Stops(b, k, g)
<1> DEFINE T == {i \in Slots(n) : StopsAt(b, n, k, i)}
           First(j) == StopsAt(b, n, k, j) /\ \A l \in 0..j - 1 : ~StopsAt(b, n, k, l)
           i0 == CHOOSE j \in Slots(n) : First(j)
<1>1. PICK j \in T : \A l \in T : j <= l
  <2>1. T # {} /\ T \subseteq Nat
    BY DEF ProbeEnds, Slots
  <2> QED
    BY <2>1, NatLeast
<1>2. First(j) /\ j \in Slots(n)
  BY <1>1 DEF Slots
<1>3. i0 \in Slots(n) /\ First(i0)
  BY <1>2, Zenon
<1>4. IndexOn(b, n, k) = Probe(n, Hash[k], i0)
  BY DEF IndexOn, Slots
<1> HIDE DEF i0
<1>5. IndexOn(b, n, k) \in Slots(n) /\ Rank(n, k, IndexOn(b, n, k)) = i0
  BY <1>3, <1>4, RankProperties
<1>6. Stops(b, k, IndexOn(b, n, k))
  BY <1>3, <1>4 DEF StopsAt, Stops
<1>7. ASSUME NEW g \in Slots(n), Rank(n, k, g) < i0
      PROVE  ~Stops(b, k, g)
  <2>1. Rank(n, k, g) \in Slots(n) /\ Probe(n, Hash[k], Rank(n, k, g)) = g
    BY RankProperties
  <2>2. Rank(n, k, g) \in 0..i0 - 1
    BY <2>1, <1>3, <1>7 DEF Slots
  <2>3. ~StopsAt(b, n, k, Rank(n, k, g))
    BY <2>2, <1>3
  <2> QED
    BY <2>1, <2>3 DEF StopsAt, Stops
<1> QED
  BY <1>5, <1>6, <1>7

(* The first slot where a probe may stop is where it stops.                *)
LEMMA StopsThere ==
  ASSUME NEW n \in Nat \ {0}, NEW b, NEW k \in Key, NEW g \in Slots(n), Stops(b, k, g),
         \A h \in Slots(n) : Rank(n, k, h) < Rank(n, k, g) => ~Stops(b, k, h)
  PROVE  ProbeEnds(b, n, k) /\ IndexOn(b, n, k) = g
<1>1. Rank(n, k, g) \in Slots(n) /\ Probe(n, Hash[k], Rank(n, k, g)) = g
  BY RankProperties
<1>2. ProbeEnds(b, n, k)
  BY <1>1 DEF ProbeEnds, StopsAt, Stops, Slots
<1> DEFINE h == IndexOn(b, n, k)
<1>3. /\ h \in Slots(n) /\ Stops(b, k, h)
      /\ \A l \in Slots(n) : Rank(n, k, l) < Rank(n, k, h) => ~Stops(b, k, l)
  BY <1>2, StopsFirst
<1> HIDE DEF h
<1>4. Rank(n, k, h) \in Nat /\ Rank(n, k, g) \in Nat
  BY <1>3, RankProperties DEF Slots
<1>5. ~(Rank(n, k, g) < Rank(n, k, h)) /\ ~(Rank(n, k, h) < Rank(n, k, g))
  BY <1>3
<1>6. Rank(n, k, g) = Rank(n, k, h)
  BY <1>4, <1>5
<1>7. g = h
  BY <1>3, <1>6, RankProperties
<1> QED
  BY <1>2, <1>7 DEF h

(* A stored key is found, where it is.                                     *)
LEMMA StoredIsFound ==
  ASSUME NEW n \in Nat \ {0}, NEW b, IsTable(b, n), Chained(b, n, {}), Once(b), NEW g \in Taken(b)
  PROVE  ProbeEnds(b, n, b[g].key) /\ IndexOn(b, n, b[g].key) = g
<1> DEFINE k == b[g].key
<1>1. g \in Slots(n) /\ k \in Key /\ Stops(b, k, g)
  BY TakenPairs DEF Stops
<1>2. ASSUME NEW h \in Slots(n), Rank(n, k, h) < Rank(n, k, g)
      PROVE  ~Stops(b, k, h)
  <2>1. b[h] # Free /\ h \in Taken(b)
    BY <1>2, TakenPairs DEF Chained
  <2>2. b[h].key = k => h = g
    BY <2>1 DEF Once
  <2>3. h # g
    <3>1. Rank(n, k, g) \in Nat
      BY <1>1, RankProperties DEF Slots
    <3> QED
      BY <3>1, <1>2
  <2> QED
    BY <2>1, <2>2, <2>3 DEF Stops
<1> HIDE DEF k
<1>3. ProbeEnds(b, n, k) /\ IndexOn(b, n, k) = g
  BY <1>1, <1>2, StopsThere
<1> QED
  BY <1>3 DEF k

LEMMA FoundMeansStored ==
  ASSUME NEW n \in Nat \ {0}, NEW b, IsTable(b, n), NEW k \in Key, ProbeEnds(b, n, k)
  PROVE  /\ b[IndexOn(b, n, k)] # Free => k \in KeysIn(b)
         /\ Chained(b, n, {}) /\ Once(b) /\ k \in KeysIn(b) => b[IndexOn(b, n, k)] # Free
<1>1. IndexOn(b, n, k) \in Slots(n) /\ Stops(b, k, IndexOn(b, n, k))
  BY StopsFirst
<1>2. ASSUME b[IndexOn(b, n, k)] # Free
      PROVE  k \in KeysIn(b)
  BY <1>1, <1>2, TakenPairs DEF Stops, KeysIn
<1>3. ASSUME Chained(b, n, {}), Once(b), k \in KeysIn(b)
      PROVE  b[IndexOn(b, n, k)] # Free
  <2>1. PICK g \in Taken(b) : b[g].key = k
    BY <1>3 DEF KeysIn
  <2>2. IndexOn(b, n, k) = g
    BY <2>1, <1>3, StoredIsFound
  <2> QED
    BY <2>2, TakenPairs
<1> QED
  BY <1>2, <1>3

-----------------------------------------------------------------------------
(* A pair is stored where the probe of its key stops.                      *)
LEMMA StoredPair ==
  ASSUME NEW n \in Nat \ {0}, NEW b, IsTable(b, n), NEW k \in Key, NEW v \in Val,
         NEW h \in Slots(n), Stops(b, k, h)
  PROVE  LET t == [b EXCEPT ![h] = Pair(k, v)]
         IN /\ IsTable(t, n)
            /\ t[h] = Pair(k, v) /\ t[h].key = k /\ t[h].val = v /\ t[h] # Free
            /\ \A g \in Slots(n) : g # h => t[g] = b[g]
            /\ Taken(t) = Taken(b) \cup {h}
            /\ \A g \in Taken(b) : t[g].key = b[g].key
            /\ KeysIn(t) = KeysIn(b) \cup {k}
<1> DEFINE t == [b EXCEPT ![h] = Pair(k, v)]
<1>1. /\ Pair(k, v) \in [key : Key, val : Val] /\ Pair(k, v) # Free
      /\ Pair(k, v).key = k /\ Pair(k, v).val = v
  BY FlatMapAssumption DEF Pair
<1>2. DOMAIN b = Slots(n)
  BY DEF IsTable
<1>3. /\ IsTable(t, n) /\ t[h] = Pair(k, v) /\ DOMAIN t = Slots(n)
      /\ \A g \in Slots(n) : g # h => t[g] = b[g]
  BY <1>1 DEF IsTable, Slot
<1> HIDE DEF t
<1>4. t[h].key = k /\ t[h].val = v /\ t[h] # Free
  BY <1>1, <1>3
<1>5. Taken(t) = Taken(b) \cup {h}
  BY <1>2, <1>3, <1>4 DEF Taken
<1>6. \A g \in Taken(b) : t[g].key = b[g].key
  BY <1>3, <1>4, TakenPairs DEF Stops
<1>7. KeysIn(t) = KeysIn(b) \cup {k}
  BY <1>4, <1>5, <1>6 DEF KeysIn
<1> QED
  BY <1>3, <1>4, <1>5, <1>6, <1>7 DEF t

LEMMA StoredChained ==
  ASSUME NEW n \in Nat \ {0}, NEW b, IsTable(b, n), NEW k \in Key, NEW v \in Val,
         ProbeEnds(b, n, k), NEW c, Chained(b, n, c)
  PROVE  LET h == IndexOn(b, n, k)
             t == [b EXCEPT ![h] = Pair(k, v)]
         IN Chained(t, n, c \ {h})
<1> DEFINE h == IndexOn(b, n, k)
           t == [b EXCEPT ![h] = Pair(k, v)]
<1>1. /\ h \in Slots(n) /\ Stops(b, k, h)
      /\ \A g \in Slots(n) : Rank(n, k, g) < Rank(n, k, h) => ~Stops(b, k, g)
  BY StopsFirst
<1> HIDE DEF h
<1>2. /\ t[h].key = k /\ t[h] # Free
      /\ \A g \in Slots(n) : g # h => t[g] = b[g]
      /\ Taken(t) = Taken(b) \cup {h}
      /\ \A g \in Taken(b) : t[g].key = b[g].key
  BY <1>1, StoredPair
<1> HIDE DEF t
<1>3. ASSUME NEW g \in Taken(t), NEW l \in Slots(n), Rank(n, t[g].key, l) < Rank(n, t[g].key, g)
      PROVE  t[l] # Free \/ l \in c \ {h}
  <2>1. CASE l = h
    BY <2>1, <1>2
  <2>2. CASE l # h /\ g = h
    <3>1. Rank(n, k, l) < Rank(n, k, h)
      BY <2>2, <1>2, <1>3
    <3>2. b[l] # Free
      BY <3>1, <1>1 DEF Stops
    <3> QED
      BY <3>2, <2>2, <1>2
  <2>3. CASE l # h /\ g # h
    <3>1. g \in Taken(b) /\ t[g].key = b[g].key
      BY <2>3, <1>2
    <3>2. Rank(n, b[g].key, l) < Rank(n, b[g].key, g)
      BY <3>1, <1>3
    <3>3. b[l] # Free \/ l \in c
      BY <3>1, <3>2 DEF Chained
    <3> QED
      BY <3>3, <2>3, <1>2
  <2> QED
    BY <2>1, <2>2, <2>3
<1>4. Chained(t, n, c \ {h})
  BY <1>3 DEF Chained
<1> QED
  BY <1>4 DEF t, h

LEMMA StoredOnce ==
  ASSUME NEW n \in Nat \ {0}, NEW b, IsTable(b, n), NEW k \in Key, NEW v \in Val,
         ProbeEnds(b, n, k), Chained(b, n, {}), Once(b)
  PROVE  Once([b EXCEPT ![IndexOn(b, n, k)] = Pair(k, v)])
<1> DEFINE h == IndexOn(b, n, k)
           t == [b EXCEPT ![h] = Pair(k, v)]
<1>1. h \in Slots(n) /\ Stops(b, k, h)
  BY StopsFirst
<1>2. \A g \in Taken(b) : b[g].key = k => g = h
  BY StoredIsFound
<1> HIDE DEF h
<1>3. /\ t[h].key = k /\ Taken(t) = Taken(b) \cup {h}
      /\ \A g \in Taken(b) : t[g].key = b[g].key
  BY <1>1, StoredPair
<1> HIDE DEF t
<1>4. \A g, l \in Taken(t) : t[g].key = t[l].key => g = l
  BY <1>2, <1>3 DEF Once
<1>5. Once(t)
  BY <1>4 DEF Once
<1> QED
  BY <1>5 DEF t, h

-----------------------------------------------------------------------------
(* rehash's loop, slot by slot.                                            *)
NewTable(n) == [h \in 0..n - 1 |-> Free]
MoveSlot(n, t, h) ==
  IF bucket[h - 1] = Free THEN t
  ELSE [t EXCEPT ![IndexOn(t, n, bucket[h - 1].key)] = bucket[h - 1]]
MovesUpto(n, f, m) ==
  f = [h \in 0..m |-> IF h = 0 THEN NewTable(n) ELSE MoveSlot(n, f[h - 1], h)]

LEMMA MovesExist ==
  ASSUME NEW n
  PROVE  \A m \in Nat : \E f : MovesUpto(n, f, m)
<1> DEFINE T == {m \in Nat : \E f : MovesUpto(n, f, m)}
<1>1. 0 \in T
  <2>1. [h \in 0..0 |-> NewTable(n)] =
          [h \in 0..0 |-> IF h = 0 THEN NewTable(n) ELSE MoveSlot(n, [l \in 0..0 |-> NewTable(n)][h - 1], h)]
    OBVIOUS
  <2> QED
    BY <2>1 DEF MovesUpto
<1>2. ASSUME NEW m \in T
      PROVE  m + 1 \in T
  <2>1. m \in Nat
    OBVIOUS
  <2>2. PICK f : MovesUpto(n, f, m)
    OBVIOUS
  <2> DEFINE g == [h \in 0..m + 1 |-> IF h = m + 1 THEN MoveSlot(n, f[m], m + 1) ELSE f[h]]
  <2>3. \A h \in 0..m + 1 : g[h] = IF h = m + 1 THEN MoveSlot(n, f[m], m + 1) ELSE f[h]
    OBVIOUS
  <2>4. g = [h \in 0..m + 1 |-> g[h]]
    OBVIOUS
  <2>5. \A h \in 0..m : f[h] = IF h = 0 THEN NewTable(n) ELSE MoveSlot(n, f[h - 1], h)
    BY <2>2 DEF MovesUpto
  <2> HIDE DEF g, T
  <2>6. ASSUME NEW h \in 0..m + 1
        PROVE  g[h] = IF h = 0 THEN NewTable(n) ELSE MoveSlot(n, g[h - 1], h)
    <3>1. CASE h = m + 1
      <4>1. h # 0 /\ h - 1 = m /\ m \in 0..m + 1 /\ m # m + 1
        BY <2>1, <3>1
      <4>2. g[m] = f[m]
        BY <4>1, <2>3
      <4>3. g[h] = MoveSlot(n, f[m], m + 1)
        BY <3>1, <2>3
      <4> QED
        BY <4>1, <4>2, <4>3, <3>1
    <3>2. CASE h # m + 1
      <4>1. h \in 0..m
        BY <2>1, <3>2
      <4>2. g[h] = f[h]
        BY <3>2, <2>3
      <4>3. CASE h = 0
        BY <4>1, <4>2, <4>3, <2>5
      <4>4. CASE h # 0
        <5>1. h - 1 \in 0..m + 1 /\ h - 1 # m + 1
          BY <2>1, <4>1, <4>4
        <5>2. g[h - 1] = f[h - 1]
          BY <5>1, <2>3
        <5> QED
          BY <4>1, <4>2, <4>4, <5>2, <2>5
      <4> QED
        BY <4>3, <4>4
    <3> QED
      BY <3>1, <3>2
  <2>7. MovesUpto(n, g, m + 1)
    BY <2>4, <2>6 DEF MovesUpto
  <2> QED
    BY <2>1, <2>7 DEF T
<1>3. T \subseteq Nat
  OBVIOUS
<1> HIDE DEF T
<1>4. T = Nat
  BY <1>1, <1>2, <1>3, NatClosed
<1> QED
  BY <1>4 DEF T

LEMMA MovedBySlots ==
  ASSUME NEW n, count \in Nat
  PROVE  \E f : /\ f[0] = NewTable(n)
                /\ \A h \in 1..count : f[h] = MoveSlot(n, f[h - 1], h)
                /\ Moved(NewTable(n), n) = f[count]
<1> DEFINE f == CHOOSE g : MovesUpto(n, g, count)
<1>1. MovesUpto(n, f, count)
  BY MovesExist
<1>2. Moved(NewTable(n), n) = f[count]
  BY DEF Moved, MovesUpto, MoveSlot
<1> HIDE DEF f
<1>3. \A h \in 0..count : f[h] = IF h = 0 THEN NewTable(n) ELSE MoveSlot(n, f[h - 1], h)
  BY <1>1 DEF MovesUpto
<1>4. f[0] = NewTable(n)
  BY <1>3
<1>5. \A h \in 1..count : h \in 0..count /\ h # 0
  OBVIOUS
<1>6. \A h \in 1..count : f[h] = MoveSlot(n, f[h - 1], h)
  BY <1>3, <1>5
<1> QED
  BY <1>2, <1>4, <1>6

(* What was moved so far: the keys of the slots below h, each once and     *)
(* where its probe finds it, with a pair that was in the old table.        *)
MovedKeys(h) == {bucket[g].key : g \in {l \in Taken(bucket) : l < h}}
MovedWell(n, t, h) ==
  /\ IsTable(t, n) /\ Chained(t, n, {}) /\ Once(t)
  /\ KeysIn(t) = MovedKeys(h)
  /\ \A g \in Taken(t) : \E l \in Taken(bucket) : t[g] = bucket[l]

LEMMA SlotMoved ==
  ASSUME count \in Nat, IsTable(bucket, count), NEW n \in Nat \ {0},
         Cardinality(KeysIn(bucket)) < n, NEW h \in 1..count, NEW t, MovedWell(n, t, h - 1)
  PROVE  MovedWell(n, MoveSlot(n, t, h), h)
<1>1. h - 1 \in Slots(count) /\ h \in Nat /\ h - 1 < h
  BY DEF Slots
<1>2. \A l \in Slots(count) : l < h <=> l < h - 1 \/ l = h - 1
  BY DEF Slots
<1>3. CASE bucket[h - 1] = Free
  <2>1. h - 1 \notin Taken(bucket)
    BY <1>3 DEF Taken
  <2>2. {l \in Taken(bucket) : l < h} = {l \in Taken(bucket) : l < h - 1}
    BY <2>1, <1>2, TakenPairs
  <2>3. MovedKeys(h) = MovedKeys(h - 1)
    BY <2>2 DEF MovedKeys
  <2> QED
    BY <2>3, <1>3 DEF MoveSlot, MovedWell
<1>4. CASE bucket[h - 1] # Free
  <2> DEFINE k == bucket[h - 1].key
             v == bucket[h - 1].val
  <2>1. h - 1 \in Taken(bucket) /\ k \in Key /\ v \in Val /\ bucket[h - 1] = Pair(k, v)
    BY <1>1, <1>4, TakenPairs DEF Pair
  <2>2. {l \in Taken(bucket) : l < h} = {l \in Taken(bucket) : l < h - 1} \cup {h - 1}
    BY <2>1, <1>1, <1>2, TakenPairs
  <2>3. MovedKeys(h) = MovedKeys(h - 1) \cup {k}
    BY <2>2 DEF MovedKeys
  <2>4. MovedKeys(h) \subseteq KeysIn(bucket)
    BY DEF MovedKeys, KeysIn
  <2> HIDE DEF k, v
  <2>5. ProbeEnds(t, n, k)
    <3>1. CASE k \in KeysIn(t)
      <4>1. PICK g \in Taken(t) : t[g].key = k
        BY <3>1 DEF KeysIn
      <4> QED
        BY <4>1, StoredIsFound DEF MovedWell
    <3>2. CASE k \notin KeysIn(t)
      <4>1. KeysIn(t) \subseteq KeysIn(bucket) /\ k \in KeysIn(bucket)
        BY <2>3, <2>4 DEF MovedWell
      <4>2. IsFiniteSet(KeysIn(bucket)) /\ Cardinality(KeysIn(bucket)) \in Nat
        BY KeysCounted
      <4>3. Cardinality(KeysIn(t)) <= Cardinality(KeysIn(bucket))
        BY <4>1, <4>2, FS_Subset
      <4>4. Cardinality(Taken(t)) = Cardinality(KeysIn(t)) /\ Cardinality(KeysIn(t)) \in Nat
        BY KeysCounted DEF MovedWell
      <4>5. Cardinality(Taken(t)) < n
        BY <4>2, <4>3, <4>4
      <4> QED
        BY <4>5, <2>1, FreeSlotEnds DEF MovedWell
    <3> QED
      BY <3>1, <3>2
  <2> DEFINE i == IndexOn(t, n, k)
             u == [t EXCEPT ![i] = Pair(k, v)]
  <2>6. i \in Slots(n) /\ Stops(t, k, i)
    BY <2>1, <2>5, StopsFirst
  <2>7. Chained(u, n, {} \ {i}) /\ Once(u)
    BY <2>1, <2>5, StoredChained, StoredOnce DEF MovedWell
  <2>8. MoveSlot(n, t, h) = u
    BY <2>1, <1>4 DEF MoveSlot, k
  <2> HIDE DEF i
  <2>9. /\ IsTable(u, n) /\ u[i] = Pair(k, v) /\ Taken(u) = Taken(t) \cup {i}
        /\ \A g \in Slots(n) : g # i => u[g] = t[g]
        /\ KeysIn(u) = KeysIn(t) \cup {k}
    <3>1. IsTable(t, n)
      BY DEF MovedWell
    <3>2. k \in Key /\ v \in Val
      BY <2>1
    <3>3. IsTable(u, n)
      BY <3>1, <3>2 DEF IsTable, Slot, Pair
    <3>4. u[i] = Pair(k, v) /\ \A g \in Slots(n) : g # i => u[g] = t[g]
      BY <3>1, <2>6 DEF IsTable
    <3>5. Taken(u) = Taken(t) \cup {i}
      BY <3>1, <3>2, <2>6, StoredPair
    <3>6. KeysIn(u) = KeysIn(t) \cup {k}
      BY <3>1, <3>2, <2>6, StoredPair
    <3> QED
      BY <3>3, <3>4, <3>5, <3>6
  <2> HIDE DEF u
  <2>10. ASSUME NEW g \in Taken(u)
         PROVE  \E l \in Taken(bucket) : u[g] = bucket[l]
    <3>1. CASE g = i
      BY <3>1, <2>1, <2>9
    <3>2. CASE g # i
      <4>1. g \in Taken(t) /\ g \in Slots(n)
        BY <3>2, <2>9, TakenPairs
      <4> QED
        BY <4>1, <3>2, <2>9 DEF MovedWell
    <3> QED
      BY <3>1, <3>2
  <2>11. Chained(u, n, {})
    <3>1. {} \ {i} = {}
      OBVIOUS
    <3> QED
      BY <2>7, <3>1, Zenon
  <2>12. KeysIn(u) = MovedKeys(h)
    BY <2>3, <2>9 DEF MovedWell
  <2> QED
    BY <2>7, <2>8, <2>9, <2>10, <2>11, <2>12 DEF MovedWell
<1> QED
  BY <1>3, <1>4

LEMMA TableMoved ==
  ASSUME count \in Nat, IsTable(bucket, count), NEW n \in Nat \ {0},
         Cardinality(KeysIn(bucket)) < n
  PROVE  LET t == Moved(NewTable(n), n)
         IN /\ IsTable(t, n) /\ Chained(t, n, {}) /\ Once(t) /\ KeysIn(t) = KeysIn(bucket)
            /\ \A g \in Taken(t) : \E l \in Taken(bucket) : t[g] = bucket[l]
<1>1. PICK f : /\ f[0] = NewTable(n)
               /\ \A h \in 1..count : f[h] = MoveSlot(n, f[h - 1], h)
               /\ Moved(NewTable(n), n) = f[count]
  BY MovedBySlots
<1> DEFINE T == {h \in Nat : h <= count => MovedWell(n, f[h], h)}
<1>2. 0 \in T
  <2>1. Taken(NewTable(n)) = {}
    BY DEF NewTable, Taken
  <2>2. IsTable(NewTable(n), n)
    BY DEF IsTable, NewTable, Slot, Slots
  <2>3. MovedKeys(0) = {}
    <3>1. \A l \in Taken(bucket) : ~(l < 0)
      BY TakenPairs DEF Slots
    <3> QED
      BY <3>1 DEF MovedKeys
  <2>4. MovedWell(n, NewTable(n), 0)
    BY <2>1, <2>2, <2>3 DEF MovedWell, Chained, Once, KeysIn
  <2> QED
    BY <2>4, <1>1
<1>3. ASSUME NEW m \in T
      PROVE  m + 1 \in T
  <2>1. m \in Nat /\ (m <= count => MovedWell(n, f[m], m))
    OBVIOUS
  <2>2. ASSUME m + 1 <= count
        PROVE  MovedWell(n, f[m + 1], m + 1)
    <3>1. m + 1 \in 1..count /\ (m + 1) - 1 = m /\ m <= count
      BY <2>1, <2>2
    <3>2. MovedWell(n, f[m], (m + 1) - 1)
      BY <3>1, <2>1
    <3>3. MovedWell(n, MoveSlot(n, f[m], m + 1), m + 1)
      BY <3>1, <3>2, SlotMoved
    <3>4. f[m + 1] = MoveSlot(n, f[m], m + 1)
      BY <3>1, <1>1
    <3> QED
      BY <3>3, <3>4
  <2> QED
    BY <2>1, <2>2
<1>4. T \subseteq Nat
  OBVIOUS
<1>5. T = Nat
  <2> HIDE DEF T
  <2> QED
    BY <1>2, <1>3, <1>4, NatClosed
<1>6. MovedWell(n, f[count], count)
  BY <1>5
<1>7. MovedKeys(count) = KeysIn(bucket)
  <2>1. {l \in Taken(bucket) : l < count} = Taken(bucket)
    BY TakenPairs DEF Slots
  <2> QED
    BY <2>1 DEF MovedKeys, KeysIn
<1> QED
  BY <1>1, <1>6, <1>7 DEF MovedWell

-----------------------------------------------------------------------------
(* The invariant, of a table b with n slots and size s: at least half of   *)
(* the slots are free, but for one; no more pairs than s; probes are cut   *)
(* at slots of c only.  As long as no erase did harm none is cut, every    *)
(* key is there once, and s counts them.                                   *)
TableInv(n, b, s, c, harm) ==
  /\ n \in Nat /\ IsTable(b, n) /\ s \in Nat /\ c \in SUBSET Slots(n) /\ harm \in BOOLEAN
  /\ 2 * s <= n + 1
  /\ Cardinality(Taken(b)) <= s
  /\ Chained(b, n, c)
  /\ ~harm => Chained(b, n, {}) /\ Once(b) /\ Cardinality(KeysIn(b)) = s

FlatInv == TableInv(count, bucket, size, cut, harmed)

Fits(n) == n \in Nat /\ (n = 0 \/ 2 * size <= n)

(* A rehash keeps the invariant and the keys; it mends cut probes.         *)
LEMMA RehashKeeps ==
  ASSUME FlatInv, NEW n, Fits(n)
  PROVE  /\ TableInv(Count(n), Table(n), size, Cut(n), harmed)
         /\ KeysIn(Table(n)) = KeysIn(bucket)
         /\ \A g \in Taken(Table(n)) : \E l \in Taken(bucket) : Table(n)[g] = bucket[l]
         /\ n # 0 => Cardinality(Taken(Table(n))) < n
<1> USE DEF FlatInv, TableInv
<1>1. CASE n = 0
  BY <1>1 DEF Count, Table, Cut
<1>2. CASE n # 0
  <2>1. n \in Nat \ {0} /\ 2 * size <= n
    BY <1>2 DEF Fits
  <2>2. /\ Cardinality(KeysIn(bucket)) \in Nat
        /\ Cardinality(KeysIn(bucket)) <= Cardinality(Taken(bucket))
        /\ Cardinality(Taken(bucket)) \in Nat
    BY KeysCounted, TakenPairs
  <2>3. Cardinality(KeysIn(bucket)) < n
    BY <2>1, <2>2
  <2>4. /\ Count(n) = n /\ Cut(n) = {} /\ Table(n) = Moved(NewTable(n), n)
    BY <1>2 DEF Count, Cut, Table, NewTable
  <2> DEFINE t == Table(n)
  <2>5. /\ IsTable(t, n) /\ Chained(t, n, {}) /\ Once(t) /\ KeysIn(t) = KeysIn(bucket)
        /\ \A g \in Taken(t) : \E l \in Taken(bucket) : t[g] = bucket[l]
    BY <2>1, <2>3, <2>4, TableMoved
  <2> HIDE DEF t
  <2>6. Cardinality(Taken(t)) = Cardinality(KeysIn(bucket))
    BY <2>1, <2>5, KeysCounted
  <2>7. 2 * size <= n + 1
    BY <2>1
  <2>8. Cardinality(Taken(t)) <= size /\ Cardinality(Taken(t)) < n
    BY <2>2, <2>3, <2>6
  <2>9. TableInv(n, t, size, {}, harmed)
    BY <2>1, <2>5, <2>7, <2>8
  <2> QED
    BY <2>4, <2>5, <2>8, <2>9 DEF t
<1> QED
  BY <1>1, <1>2

(* A new key adds one to the size.                                         *)
LEMMA ConstructKeeps ==
  ASSUME NEW n \in Nat \ {0}, NEW b, NEW s, NEW c, NEW harm, TableInv(n, b, s, c, harm),
         NEW k \in Key, NEW v \in Val, ProbeEnds(b, n, k), 2 * (s + 1) <= n + 1,
         harm \/ k \notin KeysIn(b)
  PROVE  LET h == IndexOn(b, n, k)
         IN TableInv(n, [b EXCEPT ![h] = Pair(k, v)], s + 1, c \ {h}, harm)
<1> USE DEF TableInv
<1> DEFINE h == IndexOn(b, n, k)
           t == [b EXCEPT ![h] = Pair(k, v)]
<1>1. h \in Slots(n) /\ Stops(b, k, h)
  BY StopsFirst
<1>2. Chained(t, n, c \ {h})
  BY StoredChained
<1>3. ~harm => Chained(t, n, {}) /\ Once(t)
  <2>1. ~harm => Chained(t, n, {} \ {h})
    BY StoredChained
  <2>2. ~harm => Once(t)
    BY StoredOnce
  <2>3. {} \ {h} = {}
    OBVIOUS
  <2> QED
    BY <2>1, <2>2, <2>3, Zenon
<1> HIDE DEF h
<1>4. IsTable(t, n) /\ Taken(t) = Taken(b) \cup {h} /\ KeysIn(t) = KeysIn(b) \cup {k}
  <2>1. IsTable(b, n)
    OBVIOUS
  <2> HIDE DEF TableInv
  <2>2. Taken(t) = Taken(b) \cup {h}
    BY <2>1, <1>1, StoredPair
  <2>3. KeysIn(t) = KeysIn(b) \cup {k}
    BY <2>1, <1>1, StoredPair
  <2>4. IsTable(t, n)
    BY <2>1, <1>1, StoredPair
  <2> QED
    BY <2>2, <2>3, <2>4
<1> HIDE DEF t
<1>5. Cardinality(Taken(t)) <= s + 1
  <2>1. IsFiniteSet(Taken(b)) /\ Cardinality(Taken(b)) \in Nat
    BY TakenPairs
  <2>2. Cardinality(Taken(t)) = IF h \in Taken(b) THEN Cardinality(Taken(b)) ELSE Cardinality(Taken(b)) + 1
    BY <2>1, <1>4, FS_AddElement
  <2> QED
    BY <2>1, <2>2
<1>6. ~harm => Cardinality(KeysIn(t)) = s + 1
  <2>1. IsFiniteSet(KeysIn(b))
    BY KeysCounted
  <2>2. k \notin KeysIn(b) => Cardinality(KeysIn(t)) = Cardinality(KeysIn(b)) + 1
    BY <2>1, <1>4, FS_AddElement
  <2> QED
    BY <2>2
<1>7. TableInv(n, t, s + 1, c \ {h}, harm)
  BY <1>2, <1>3, <1>4, <1>5, <1>6
<1> QED
  BY <1>7 DEF t, h

LEMMA EmptyInv ==
  ASSUME NEW n \in Nat
  PROVE  TableInv(n, [h \in Slots(n) |-> Free], 0, {}, FALSE)
<1> DEFINE b == [h \in Slots(n) |-> Free]
<1>1. IsTable(b, n) /\ Taken(b) = {}
  BY DEF IsTable, Slot, Taken
<1> HIDE DEF b
<1>2. KeysIn(b) = {}
  BY <1>1 DEF KeysIn
<1>3. Cardinality({}) = 0
  BY FS_EmptySet
<1>4. TableInv(n, b, 0, {}, FALSE)
  BY <1>1, <1>2, <1>3 DEF TableInv, Chained, Once
<1> QED
  BY <1>4 DEF b

(* A value changes: no key does.                                           *)
LEMMA AssignKeeps ==
  ASSUME NEW n \in Nat, NEW b, NEW s, NEW c, NEW harm, TableInv(n, b, s, c, harm),
         NEW h \in Taken(b), NEW v \in Val
  PROVE  TableInv(n, [b EXCEPT ![h].val = v], s, c, harm)
<1> USE DEF TableInv
<1> DEFINE k == b[h].key
           t == [b EXCEPT ![h] = Pair(k, v)]
<1>1. IsTable(b, n)
  OBVIOUS
<1>2. h \in Slots(n) /\ k \in Key /\ b[h] \in [key : Key, val : Val] /\ n \in Nat \ {0}
  BY <1>1, TakenPairs DEF Slots
<1>3. [b EXCEPT ![h].val = v] = t
  <2>1. [b[h] EXCEPT !.val = v] = Pair(k, v)
    BY <1>2 DEF Pair
  <2> QED
    BY <2>1
<1> HIDE DEF TableInv
<1>5. IsTable(t, n)
  BY <1>1, <1>2 DEF IsTable, Slot, Pair
<1>6. /\ t[h] = Pair(k, v) /\ DOMAIN t = Slots(n) /\ DOMAIN b = Slots(n)
      /\ \A g \in Slots(n) : g # h => t[g] = b[g]
  BY <1>1, <1>2 DEF IsTable
<1>60. Pair(k, v) # Free /\ Pair(k, v).key = k
  BY <1>2, FlatMapAssumption DEF Pair
<1> HIDE DEF t
<1>7. \A g \in Taken(b) : t[g].key = b[g].key
  BY <1>6, <1>60 DEF Taken
<1>8. Taken(t) = Taken(b)
  BY <1>6, <1>60 DEF Taken
<1>9. KeysIn(t) = KeysIn(b) /\ (Once(b) => Once(t))
  BY <1>7, <1>8 DEF KeysIn, Once
<1>10. ASSUME NEW d, Chained(b, n, d)
       PROVE  Chained(t, n, d)
  <2>1. \A l \in Slots(n) : t[l] # Free <=> b[l] # Free
    BY <1>1, <1>5, <1>8, TakenPairs
  <2> QED
    BY <2>1, <1>7, <1>8, <1>10 DEF Chained
<1>11. TableInv(n, t, s, c, harm)
  BY <1>5, <1>8, <1>9, <1>10 DEF TableInv
<1> QED
  BY <1>3, <1>11 DEF t

-----------------------------------------------------------------------------
(* Erasing.                                                                *)
LEMMA BeforeByRank ==
  ASSUME FlatInv, NEW g \in Taken(bucket)
  PROVE  Before(g) = {h \in Slots(count) : Rank(count, bucket[g].key, h) < Rank(count, bucket[g].key, g)}
<1> DEFINE k == bucket[g].key
           r == Rank(count, k, g)
<1>1. count \in Nat \ {0} /\ k \in Key /\ g \in Slots(count)
  BY TakenPairs DEF FlatInv, TableInv, Slots
<1>2. Before(g) = {Probe(count, Hash[k], i) : i \in 0..r - 1}
  BY DEF Before, Rank, Slots
<1> HIDE DEF k
<1>3. r \in Slots(count)
  BY <1>1, RankProperties
<1> HIDE DEF r
<1>4. ASSUME NEW i \in 0..r - 1
      PROVE  Probe(count, Hash[k], i) \in Slots(count) /\ Rank(count, k, Probe(count, Hash[k], i)) < r
  <2>1. i \in Slots(count) /\ i < r
    BY <1>1, <1>3 DEF Slots
  <2> QED
    BY <2>1, <1>1, RankProperties
<1>5. ASSUME NEW h \in Slots(count), Rank(count, k, h) < r
      PROVE  \E i \in 0..r - 1 : h = Probe(count, Hash[k], i)
  <2>1. Rank(count, k, h) \in Slots(count) /\ Probe(count, Hash[k], Rank(count, k, h)) = h
    BY <1>1, RankProperties
  <2>2. Rank(count, k, h) \in 0..r - 1
    BY <2>1, <1>1, <1>3, <1>5 DEF Slots
  <2> QED
    BY <2>1, <2>2
<1>6. {Probe(count, Hash[k], i) : i \in 0..r - 1} = {h \in Slots(count) : Rank(count, k, h) < r}
  BY <1>4, <1>5
<1> QED
  BY <1>2, <1>6 DEF r, k

LEMMA ErasedSlot ==
  ASSUME NEW n \in Nat, NEW b, IsTable(b, n), NEW h \in Taken(b)
  PROVE  LET t == [b EXCEPT ![h] = Free]
         IN /\ IsTable(t, n) /\ t[h] = Free
            /\ \A g \in Slots(n) : g # h => t[g] = b[g]
            /\ Taken(t) = Taken(b) \ {h}
<1> DEFINE t == [b EXCEPT ![h] = Free]
<1>1. h \in Slots(n) /\ DOMAIN b = Slots(n)
  BY TakenPairs DEF IsTable
<1>2. /\ IsTable(t, n) /\ t[h] = Free /\ DOMAIN t = Slots(n)
      /\ \A g \in Slots(n) : g # h => t[g] = b[g]
  BY <1>1 DEF IsTable, Slot
<1> HIDE DEF t
<1>3. Taken(t) = Taken(b) \ {h}
  BY <1>1, <1>2 DEF Taken
<1> QED
  BY <1>2, <1>3 DEF t

LEMMA EraseKeeps ==
  ASSUME FlatInv, NEW h \in Taken(bucket)
  PROVE  /\ TableInv(count, [bucket EXCEPT ![h] = Free], size - 1, cut \cup {h}, harmed \/ Passed(h))
         /\ ~harmed => KeysIn([bucket EXCEPT ![h] = Free]) = KeysIn(bucket) \ {bucket[h].key}
<1> DEFINE t == [bucket EXCEPT ![h] = Free]
           harm == harmed \/ Passed(h)
<1>1. /\ count \in Nat /\ IsTable(bucket, count) /\ size \in Nat /\ cut \in SUBSET Slots(count)
      /\ harmed \in BOOLEAN /\ 2 * size <= count + 1 /\ Cardinality(Taken(bucket)) <= size
      /\ Chained(bucket, count, cut)
      /\ ~harmed => Chained(bucket, count, {}) /\ Once(bucket) /\ Cardinality(KeysIn(bucket)) = size
  BY DEF FlatInv, TableInv
<1>2. h \in Slots(count) /\ IsFiniteSet(Taken(bucket)) /\ Cardinality(Taken(bucket)) \in Nat
  BY <1>1, TakenPairs
<1>20. count \in Nat /\ IsTable(bucket, count)
  BY <1>1
<1>3. IsTable(t, count) /\ t[h] = Free /\ Taken(t) = Taken(bucket) \ {h}
  <2>1. IsTable(t, count)
    BY <1>20, ErasedSlot
  <2>2. Taken(t) = Taken(bucket) \ {h}
    BY <1>20, ErasedSlot
  <2>3. t[h] = Free
    BY <1>2, <1>20 DEF IsTable
  <2> QED
    BY <2>1, <2>2, <2>3
<1>4. \A g \in Slots(count) : g # h => t[g] = bucket[g]
  BY <1>1, ErasedSlot
<1> HIDE DEF t
<1>5. \A g \in Taken(t) : g \in Taken(bucket) /\ t[g].key = bucket[g].key
  BY <1>3, <1>4, <1>1, TakenPairs
<1>6. Cardinality(Taken(t)) = Cardinality(Taken(bucket)) - 1
  BY <1>2, <1>3, FS_RemoveElement
<1>7. Cardinality(Taken(t)) \in Nat
  BY <1>1, <1>3, TakenPairs
<1>8. size - 1 \in Nat /\ 2 * (size - 1) <= count + 1 /\ Cardinality(Taken(t)) <= size - 1
  BY <1>1, <1>2, <1>6, <1>7
<1>9. Chained(t, count, cut \cup {h})
  BY <1>1, <1>4, <1>5 DEF Chained
<1>10. ~harm => Chained(t, count, {})
  <2> SUFFICES ASSUME ~harm, NEW g \in Taken(t), NEW l \in Slots(count),
                      Rank(count, t[g].key, l) < Rank(count, t[g].key, g)
               PROVE  t[l] # Free
    BY DEF Chained
  <2>1. g \in Taken(bucket) /\ Rank(count, bucket[g].key, l) < Rank(count, bucket[g].key, g)
    BY <1>5
  <2>2. bucket[l] # Free
    BY <2>1, <1>1 DEF Chained
  <2>3. l \in Before(g)
    BY <2>1, BeforeByRank
  <2>4. l # h
    BY <2>1, <2>3 DEF Passed
  <2> QED
    BY <2>2, <2>4, <1>4
<1>11. ~harmed => /\ Once(t)
                  /\ KeysIn(t) = KeysIn(bucket) \ {bucket[h].key}
                  /\ Cardinality(KeysIn(t)) = size - 1
  <2> SUFFICES ASSUME ~harmed
               PROVE  /\ Once(t) /\ KeysIn(t) = KeysIn(bucket) \ {bucket[h].key}
                      /\ Cardinality(KeysIn(t)) = size - 1
    OBVIOUS
  <2>1. Once(t)
    BY <1>1, <1>5 DEF Once
  <2>2. KeysIn(t) = KeysIn(bucket) \ {bucket[h].key}
    BY <1>1, <1>3, <1>5 DEF KeysIn, Once
  <2>3. bucket[h].key \in KeysIn(bucket) /\ IsFiniteSet(KeysIn(bucket))
    BY <1>1, KeysCounted DEF KeysIn
  <2>4. Cardinality(KeysIn(t)) = size - 1
    <3>1. Cardinality(KeysIn(bucket) \ {bucket[h].key}) = Cardinality(KeysIn(bucket)) - 1
      BY <2>3, FS_RemoveElement
    <3> QED
      BY <3>1, <2>2, <1>1
  <2> QED
    BY <2>1, <2>2, <2>4
<1>12. harm \in BOOLEAN /\ (~harm => ~harmed) /\ cut \cup {h} \in SUBSET Slots(count)
  BY <1>1, <1>2
<1> HIDE DEF harm
<1>13. TableInv(count, t, size - 1, cut \cup {h}, harm)
  BY <1>1, <1>3, <1>8, <1>9, <1>10, <1>11, <1>12 DEF TableInv
<1> QED
  BY <1>11, <1>13 DEF t, harm

-----------------------------------------------------------------------------
(* What the calls ask for: a table in which half of the slots stay free.   *)
LEMMA HalfFree ==
  ASSUME FlatInv
  PROVE  /\ \A n \in Nat : Fits(RehashTo(n)) /\ Fits(ReserveTo(n))
         /\ Fits(IF count > 2 * size THEN RehashTo(0) ELSE 0)
         /\ \A n \in {Growth, ReserveTo(size + 1)} :
              Fits(n) /\ Count(n) \in Nat \ {0} /\ 2 * (size + 1) <= Count(n) + 1
<1>1. count \in Nat /\ size \in Nat
  BY DEF FlatInv, TableInv
<1>2. Capacity \in Nat /\ 2 * Capacity <= count + 1 /\ (Capacity > 0 => count > 0)
  BY <1>1 DEF Capacity
<1>3. \A n \in Nat : RehashTo(n) \in Nat /\ RehashTo(n) >= n /\ RehashTo(n) >= 2 * size
  BY <1>1 DEF RehashTo, Larger
<1>4. ASSUME NEW n \in Nat
      PROVE  /\ ReserveTo(n) \in Nat
             /\ n >= Capacity => ReserveTo(n) >= 2 * size /\ ReserveTo(n) >= 2 * n
             /\ ~(n >= Capacity) => ReserveTo(n) = 0
  <2> DEFINE m == Larger(2 * n, 2 * count)
  <2>1. m \in Nat /\ m >= 2 * n
    BY <1>1 DEF Larger
  <2>2. ReserveTo(n) = IF n >= Capacity THEN RehashTo(m) ELSE 0
    BY DEF ReserveTo
  <2> HIDE DEF m
  <2> QED
    BY <2>1, <2>2, <1>3
<1>5. \A n \in Nat : Fits(RehashTo(n)) /\ Fits(ReserveTo(n))
  BY <1>3, <1>4 DEF Fits
<1>6. Fits(IF count > 2 * size THEN RehashTo(0) ELSE 0)
  BY <1>5 DEF Fits
<1>7. size + 1 \in Nat
  BY <1>1
<1>8. /\ Fits(ReserveTo(size + 1)) /\ Count(ReserveTo(size + 1)) \in Nat \ {0}
      /\ 2 * (size + 1) <= Count(ReserveTo(size + 1)) + 1
  <2>1. CASE size + 1 >= Capacity
    <3>1. ReserveTo(size + 1) \in Nat \ {0} /\ ReserveTo(size + 1) >= 2 * (size + 1)
      BY <1>1, <1>4, <1>7, <2>1
    <3>2. Count(ReserveTo(size + 1)) = ReserveTo(size + 1)
      BY <3>1 DEF Count
    <3> QED
      BY <3>1, <3>2, <1>1, <1>5, <1>7
  <2>2. CASE ~(size + 1 >= Capacity)
    <3>1. Count(ReserveTo(size + 1)) = count
      BY <2>2, <1>4, <1>7 DEF Count
    <3>2. Capacity > 0 /\ 2 * (size + 1) <= 2 * Capacity
      BY <2>2, <1>1, <1>2
    <3> QED
      BY <3>1, <3>2, <1>1, <1>2, <1>5, <1>7
  <2> QED
    BY <2>1, <2>2
<1>9. Fits(Growth) /\ Count(Growth) \in Nat \ {0} /\ 2 * (size + 1) <= Count(Growth) + 1
  <2>1. CASE size + 1 > Capacity
    BY <2>1, <1>8 DEF Growth
  <2>2. CASE ~(size + 1 > Capacity)
    <3>1. Growth = 0 /\ Count(Growth) = count
      BY <2>2 DEF Growth, Count
    <3>2. Capacity > 0 /\ 2 * (size + 1) <= 2 * Capacity
      BY <2>2, <1>1, <1>2
    <3> QED
      BY <3>1, <3>2, <1>1, <1>2 DEF Fits
  <2> QED
    BY <2>1, <2>2
<1> QED
  BY <1>5, <1>6, <1>8, <1>9

(* Whether a key is found, it is stored; if no erase did harm also the     *)
(* other way round.                                                        *)
LEMMA FoundIsStored ==
  ASSUME FlatInv, NEW k \in Key, Terminates(k)
  PROVE  /\ Found(k) => /\ count \in Nat \ {0} /\ Index(k) \in Taken(bucket)
                        /\ bucket[Index(k)].key = k /\ k \in KeysIn(bucket)
         /\ ~harmed /\ k \in KeysIn(bucket) => Found(k)
<1>1. /\ count \in Nat /\ IsTable(bucket, count)
      /\ ~harmed => Chained(bucket, count, {}) /\ Once(bucket)
  BY DEF FlatInv, TableInv
<1>2. CASE count = 0
  <2>1. Taken(bucket) = {}
    BY <1>1, <1>2, TakenPairs DEF Slots
  <2> QED
    BY <2>1, <1>2 DEF Found, KeysIn
<1>3. CASE count # 0
  <2>1. count \in Nat \ {0} /\ ProbeEnds(bucket, count, k)
    BY <1>1, <1>3 DEF Terminates
  <2>2. Found(k) <=> bucket[Index(k)] # Free
    BY <2>1 DEF Found
  <2>3. Index(k) \in Slots(count) /\ Stops(bucket, k, Index(k))
    BY <2>1, StopsFirst DEF Index
  <2>4. Found(k) => Index(k) \in Taken(bucket) /\ bucket[Index(k)].key = k
    BY <2>2, <2>3, <1>1, TakenPairs DEF Stops
  <2>5. /\ bucket[Index(k)] # Free => k \in KeysIn(bucket)
        /\ Chained(bucket, count, {}) /\ Once(bucket) /\ k \in KeysIn(bucket) => bucket[Index(k)] # Free
    BY <2>1, <1>1, FoundMeansStored DEF Index
  <2> QED
    BY <2>1, <2>2, <2>4, <2>5, <1>1
<1> QED
  BY <1>2, <1>3

(* A table that was made, or is still large enough, ends the probe.        *)
LEMMA ProbeEndsAfter ==
  ASSUME FlatInv, NEW n, Fits(n), NEW k \in Key, Terminates(k), Count(n) # 0
  PROVE  ProbeEnds(Table(n), Count(n), k)
<1>1. CASE n = 0
  <2>1. count \in Nat
    BY DEF FlatInv, TableInv
  <2> QED
    BY <1>1, <2>1 DEF Count, Table, Terminates
<1>2. CASE n # 0
  <2>1. Cardinality(Taken(Table(n))) < n /\ n \in Nat /\ Count(n) = n
    BY <1>2, RehashKeeps DEF Count, Fits
  <2>2. IsTable(Table(n), n)
    BY <2>1, RehashKeeps DEF TableInv
  <2> QED
    BY <2>1, <2>2, FreeSlotEnds
<1> QED
  BY <1>1, <1>2

(* A pair is constructed in the table made for it.                         *)
LEMMA ConstructStep ==
  ASSUME FlatInv, NEW n, Fits(n), Count(n) \in Nat \ {0}, 2 * (size + 1) <= Count(n) + 1,
         NEW k \in Key, NEW v \in Val, ProbeEnds(Table(n), Count(n), k),
         harmed \/ k \notin KeysIn(bucket), Construct(k, v, n)
  PROVE  FlatInv'
<1> DEFINE h == IndexOn(Table(n), Count(n), k)
<1>1. TableInv(Count(n), Table(n), size, Cut(n), harmed) /\ KeysIn(Table(n)) = KeysIn(bucket)
  BY RehashKeeps
<1>2. TableInv(Count(n), [Table(n) EXCEPT ![h] = Pair(k, v)], size + 1, Cut(n) \ {h}, harmed)
  BY <1>1, ConstructKeeps
<1> QED
  BY <1>2 DEF Construct, FlatInv

LEMMA ResizeStep ==
  ASSUME FlatInv, NEW n, Fits(n), Resize(n)
  PROVE  FlatInv'
<1>1. TableInv(Count(n), Table(n), size, Cut(n), harmed)
  BY RehashKeeps
<1> QED
  BY <1>1 DEF Resize, FlatInv

LEMMA InsertStep ==
  ASSUME FlatInv, NEW k \in Key, NEW v \in Val, Insert(k, v)
  PROVE  FlatInv'
<1> DEFINE n == ReserveTo(size + 1)
           t == Table(n)
           h == IndexOn(t, Count(n), k)
<1>1. Fits(n) /\ Count(n) \in Nat \ {0} /\ 2 * (size + 1) <= Count(n) + 1
  BY HalfFree
<1>2. /\ ProbeEnds(t, Count(n), k)
      /\ IF t[h] = Free THEN Construct(k, v, n)
         ELSE /\ count' = Count(n) /\ bucket' = t /\ cut' = Cut(n)
              /\ UNCHANGED <<size, harmed>>
  BY DEF Insert
<1> HIDE DEF n
<1>3. TableInv(Count(n), t, size, Cut(n), harmed) /\ KeysIn(t) = KeysIn(bucket)
  BY <1>1, RehashKeeps
<1>4. CASE t[h] # Free
  BY <1>2, <1>3, <1>4 DEF FlatInv
<1>5. CASE t[h] = Free
  <2>1. /\ IsTable(t, Count(n))
        /\ ~harmed => Chained(t, Count(n), {}) /\ Once(t)
    BY <1>3 DEF TableInv
  <2> HIDE DEF t
  <2>2. harmed \/ k \notin KeysIn(t)
    BY <1>1, <1>2, <1>5, <2>1, FoundMeansStored
  <2> QED
    BY <1>1, <1>2, <1>3, <1>5, <2>2, ConstructStep DEF t
<1> QED
  BY <1>4, <1>5

(* operator[] for a key that is not there: a place is made.                *)
LEMMA NewKeyStep ==
  ASSUME FlatInv, NEW k \in Key, NEW v \in Val, Terminates(k), ~Found(k), Construct(k, v, Growth)
  PROVE  FlatInv'
<1>1. Fits(Growth) /\ Count(Growth) \in Nat \ {0} /\ 2 * (size + 1) <= Count(Growth) + 1
  BY HalfFree
<1>2. ProbeEnds(Table(Growth), Count(Growth), k)
  BY <1>1, ProbeEndsAfter
<1>3. harmed \/ k \notin KeysIn(bucket)
  BY FoundIsStored
<1> QED
  BY <1>1, <1>2, <1>3, ConstructStep

LEMMA SubscriptStep ==
  ASSUME FlatInv, NEW k \in Key, Subscript(k)
  PROVE  FlatInv'
<1>1. CASE Found(k)
  BY <1>1 DEF Subscript, FlatInv
<1>2. CASE ~Found(k)
  <2>1. Terminates(k) /\ Construct(k, Default, Growth) /\ Default \in Val
    BY <1>2, FlatMapAssumption DEF Subscript
  <2> QED
    BY <1>2, <2>1, NewKeyStep
<1> QED
  BY <1>1, <1>2

LEMMA AssignStep ==
  ASSUME FlatInv, NEW k \in Key, NEW v \in Val, Assign(k, v)
  PROVE  FlatInv'
<1>1. Terminates(k)
  BY DEF Assign
<1>2. CASE Found(k)
  <2>1. Index(k) \in Taken(bucket) /\ count \in Nat
    BY <1>1, <1>2, FoundIsStored
  <2>2. bucket' = [bucket EXCEPT ![Index(k)].val = v] /\ UNCHANGED <<count, size, cut, harmed>>
    BY <1>2 DEF Assign
  <2>3. TableInv(count, [bucket EXCEPT ![Index(k)].val = v], size, cut, harmed)
    BY <2>1, AssignKeeps DEF FlatInv
  <2> QED
    BY <2>2, <2>3 DEF FlatInv
<1>3. CASE ~Found(k)
  <2>1. Construct(k, v, Growth)
    BY <1>3 DEF Assign
  <2> QED
    BY <1>1, <1>3, <2>1, NewKeyStep
<1> QED
  BY <1>2, <1>3

LEMMA EraseStep ==
  ASSUME FlatInv, NEW k \in Key, Erase(k)
  PROVE  FlatInv'
<1>1. Terminates(k)
  BY DEF Erase
<1>2. CASE Found(k)
  <2>1. Index(k) \in Taken(bucket)
    BY <1>1, <1>2, FoundIsStored
  <2>2. /\ bucket' = [bucket EXCEPT ![Index(k)] = Free] /\ cut' = cut \cup {Index(k)}
        /\ harmed' = (harmed \/ Passed(Index(k))) /\ size' = size - 1 /\ count' = count
    BY <1>2 DEF Erase
  <2>3. TableInv(count, [bucket EXCEPT ![Index(k)] = Free], size - 1, cut \cup {Index(k)},
                 harmed \/ Passed(Index(k)))
    BY <2>1, EraseKeeps
  <2> QED
    BY <2>2, <2>3 DEF FlatInv
<1>3. CASE ~Found(k)
  BY <1>3 DEF Erase, FlatInv
<1> QED
  BY <1>2, <1>3

LEMMA FlatInit == Init => FlatInv
<1>1. NoTable = [h \in Slots(0) |-> Free]
  <2>1. Slots(0) = {}
    BY DEF Slots
  <2> QED
    BY <2>1 DEF NoTable
<1>2. TableInv(0, NoTable, 0, {}, FALSE)
  BY <1>1, EmptyInv
<1> QED
  BY <1>2 DEF Init, FlatInv

LEMMA FlatInduction ==
  ASSUME FlatInv, [Next]_vars
  PROVE  FlatInv'
<1>1. CASE UNCHANGED vars
  BY <1>1 DEF vars, FlatInv
<1>2. ASSUME NEW k \in Key, Find(k) \/ At(k) \/ Contains(k)
      PROVE  FlatInv'
  BY <1>2 DEF Find, At, Contains, FlatInv
<1>3. ASSUME NEW n \in RehashSizes, Rehash(n) \/ Reserve(n)
      PROVE  FlatInv'
  <2>1. n \in Nat
    BY FlatMapAssumption
  <2> QED
    BY <1>3, <2>1, HalfFree, ResizeStep DEF Rehash, Reserve
<1>4. CASE ShrinkToFit
  BY <1>4, HalfFree, ResizeStep DEF ShrinkToFit
<1>5. CASE Clear
  <2>1. count \in Nat /\ DOMAIN bucket = Slots(count)
    BY DEF FlatInv, TableInv, IsTable
  <2>2. TableInv(count, [h \in Slots(count) |-> Free], 0, {}, FALSE)
    BY <2>1, EmptyInv
  <2> QED
    BY <2>1, <2>2, <1>5 DEF Clear, FlatInv
<1>6. CASE MoveFrom
  <2>1. TableInv(0, NoTable, 0, {}, FALSE)
    <3>1. Slots(0) = {}
      BY DEF Slots
    <3>2. NoTable = [h \in Slots(0) |-> Free]
      BY <3>1 DEF NoTable
    <3> QED
      BY <3>2, EmptyInv
  <2> QED
    BY <2>1, <1>6 DEF MoveFrom, FlatInv
<1>7. ASSUME NEW k \in Key, \/ Subscript(k) \/ Erase(k)
                            \/ \E v \in Val : Insert(k, v) \/ Assign(k, v)
      PROVE  FlatInv'
  BY <1>7, SubscriptStep, EraseStep, InsertStep, AssignStep
<1> QED
  BY <1>1, <1>2, <1>3, <1>4, <1>5, <1>6, <1>7 DEF Next

LEMMA FlatInvariant == Spec => []FlatInv
BY FlatInit, FlatInduction, PTL DEF Spec

(* A stored pair is found from its hash on: the slots its probe passes are *)
(* taken, or an erase has freed them since the table was made.  For every  *)
(* hash function, table size and sequence of calls.                        *)
THEOREM ProbeChainHolds == Spec => []ProbeChain
<1>1. FlatInv => ProbeChain
  <2> SUFFICES ASSUME FlatInv, NEW g \in Taken(bucket), NEW h \in Before(g)
               PROVE  bucket[h] # Free \/ h \in cut
    BY DEF ProbeChain
  <2>1. h \in Slots(count) /\ Rank(count, bucket[g].key, h) < Rank(count, bucket[g].key, g)
    BY BeforeByRank
  <2> QED
    BY <2>1 DEF FlatInv, TableInv, Chained
<1> QED
  BY <1>1, FlatInvariant, PTL

(* Every probe of a table with two slots or more ends.                     *)
THEOREM ProbesEndHolds == Spec => []ProbesEnd
<1>1. FlatInv => ProbesEnd
  <2> SUFFICES ASSUME FlatInv, NEW k \in Key, count # 1
               PROVE  Terminates(k)
    BY DEF ProbesEnd
  <2>1. /\ count \in Nat /\ IsTable(bucket, count) /\ size \in Nat /\ 2 * size <= count + 1
        /\ Cardinality(Taken(bucket)) <= size
    BY DEF FlatInv, TableInv
  <2>2. CASE count = 0
    BY <2>2 DEF Terminates, ProbeEnds
  <2>3. CASE count # 0
    <3>1. Cardinality(Taken(bucket)) \in Nat
      BY <2>1, TakenPairs
    <3>2. Cardinality(Taken(bucket)) < count
      BY <2>1, <2>3, <3>1
    <3> QED
      BY <2>1, <3>2, FreeSlotEnds DEF Terminates
  <2> QED
    BY <2>2, <2>3
<1> QED
  BY <1>1, FlatInvariant, PTL

(* m_size is never less than the number of pairs, and counts the keys as   *)
(* long as no erase has cut another key's probe.                           *)
THEOREM CountedHolds == Spec => []Counted
<1>1. FlatInv => Counted
  <2>1. KeysIn(bucket) = {bucket[h].key : h \in Taken(bucket)}
    BY DEF KeysIn
  <2> QED
    BY <2>1 DEF FlatInv, TableInv, Counted
<1> QED
  BY <1>1, FlatInvariant, PTL

-----------------------------------------------------------------------------
(* What a caller sees of a table that no erase has harmed.                 *)
Sound(b, n) == n \in Nat /\ IsTable(b, n) /\ Chained(b, n, {}) /\ Once(b)
Visible(b, n) == {j \in Key : ProbeEnds(b, n, j) /\ n > 0 /\ b[IndexOn(b, n, j)] # Free}
ContentsOf(b, n) == [k \in Visible(b, n) |-> b[IndexOn(b, n, k)].val]

LEMMA ContentsAreOf ==
  /\ Contents = ContentsOf(bucket, count)
  /\ Contents' = ContentsOf(bucket', count')
  /\ FlatInv /\ ~harmed => Sound(bucket, count)
  /\ FlatInv' /\ ~harmed' => Sound(bucket', count')
<1>1. Contents = ContentsOf(bucket, count)
  BY DEF Contents, ContentsOf, Visible, Terminates, Found, Index
<1>2. Contents' = ContentsOf(bucket', count')
  BY DEF Contents, ContentsOf, Visible, Terminates, Found, Index
<1>3. FlatInv /\ ~harmed => Sound(bucket, count)
  BY DEF FlatInv, TableInv, Sound
<1>4. FlatInv' /\ ~harmed' => Sound(bucket', count')
  BY DEF FlatInv, TableInv, Sound
<1> QED
  BY <1>1, <1>2, <1>3, <1>4

LEMMA ContentsProperties ==
  ASSUME NEW n, NEW b, Sound(b, n)
  PROVE  /\ DOMAIN ContentsOf(b, n) = KeysIn(b)
         /\ \A g \in Taken(b) : ContentsOf(b, n)[b[g].key] = b[g].val
<1> USE DEF Sound
<1>1. CASE n = 0
  <2>1. Taken(b) = {}
    BY <1>1, TakenPairs DEF Slots
  <2> QED
    BY <2>1, <1>1 DEF ContentsOf, Visible, KeysIn
<1>2. CASE n # 0
  <2>1. n \in Nat \ {0} /\ n > 0
    BY <1>2
  <2>2. ASSUME NEW g \in Taken(b)
        PROVE  /\ b[g].key \in Visible(b, n) /\ IndexOn(b, n, b[g].key) = g
    BY <2>1, StoredIsFound, TakenPairs DEF Visible
  <2>3. ASSUME NEW j \in Visible(b, n)
        PROVE  j \in KeysIn(b)
    BY <2>1, FoundMeansStored DEF Visible
  <2>4. Visible(b, n) = KeysIn(b)
    BY <2>2, <2>3 DEF KeysIn
  <2> QED
    BY <2>2, <2>4 DEF ContentsOf
<1> QED
  BY <1>1, <1>2

LEMMA SameContents ==
  ASSUME NEW n, NEW b, Sound(b, n), NEW m, NEW t, Sound(t, m), KeysIn(t) = KeysIn(b),
         \A g \in Taken(t) : \E l \in Taken(b) : t[g] = b[l]
  PROVE  ContentsOf(t, m) = ContentsOf(b, n)
<1> DEFINE c == ContentsOf(b, n)
           d == ContentsOf(t, m)
<1>1. DOMAIN c = KeysIn(b) /\ \A g \in Taken(b) : c[b[g].key] = b[g].val
  BY ContentsProperties
<1>2. DOMAIN d = KeysIn(t) /\ \A g \in Taken(t) : d[t[g].key] = t[g].val
  BY ContentsProperties
<1>3. c = [j \in DOMAIN c |-> c[j]] /\ d = [j \in DOMAIN d |-> d[j]]
  BY DEF ContentsOf
<1> HIDE DEF c, d
<1>4. ASSUME NEW j \in KeysIn(t)
      PROVE  d[j] = c[j]
  <2>1. PICK g \in Taken(t) : t[g].key = j
    BY DEF KeysIn
  <2>2. PICK l \in Taken(b) : t[g] = b[l]
    OBVIOUS
  <2> QED
    BY <2>1, <2>2, <1>1, <1>2
<1>5. d = c
  BY <1>1, <1>2, <1>3, <1>4
<1> QED
  BY <1>5 DEF c, d

(* A table with the pair of k and v, and otherwise the pairs of b.         *)
LEMMA PutContents ==
  ASSUME NEW n, NEW b, Sound(b, n), NEW m, NEW t, Sound(t, m), NEW k, NEW v,
         KeysIn(t) = KeysIn(b) \cup {k},
         NEW h \in Taken(t), t[h] = Pair(k, v),
         \A g \in Taken(t) \ {h} : \E l \in Taken(b) : t[g] = b[l]
  PROVE  ContentsOf(t, m) = Abstract!Put(ContentsOf(b, n), k, v)
<1> DEFINE c == ContentsOf(b, n)
           d == ContentsOf(t, m)
           e == Abstract!Put(c, k, v)
<1>1. DOMAIN c = KeysIn(b) /\ \A g \in Taken(b) : c[b[g].key] = b[g].val
  BY ContentsProperties
<1>2. DOMAIN d = KeysIn(t) /\ \A g \in Taken(t) : d[t[g].key] = t[g].val
  BY ContentsProperties
<1>3. d = [j \in DOMAIN d |-> d[j]]
  BY DEF ContentsOf
<1> HIDE DEF c, d
<1>4. e = [j \in DOMAIN c \cup {k} |-> IF j = k THEN v ELSE c[j]]
  BY DEF Abstract!Put
<1>5. t[h].key = k /\ t[h].val = v
  BY DEF Pair
<1>6. ASSUME NEW j \in KeysIn(t)
      PROVE  d[j] = IF j = k THEN v ELSE c[j]
  <2>1. PICK g \in Taken(t) : t[g].key = j
    BY DEF KeysIn
  <2>2. CASE g = h
    BY <2>1, <2>2, <1>2, <1>5
  <2>3. CASE g # h
    <3>1. j # k
      BY <2>1, <2>3, <1>5 DEF Sound, Once
    <3>2. PICK l \in Taken(b) : t[g] = b[l]
      BY <2>3
    <3> QED
      BY <3>1, <3>2, <2>1, <1>1, <1>2
  <2> QED
    BY <2>2, <2>3
<1> HIDE DEF e
<1>7. d = e
  BY <1>1, <1>2, <1>3, <1>4, <1>6
<1> QED
  BY <1>7 DEF c, d, e

LEMMA WithoutContents ==
  ASSUME NEW n, NEW b, Sound(b, n), NEW m, NEW t, Sound(t, m), NEW k,
         KeysIn(t) = KeysIn(b) \ {k},
         \A g \in Taken(t) : \E l \in Taken(b) : t[g] = b[l]
  PROVE  ContentsOf(t, m) = Abstract!Without(ContentsOf(b, n), k)
<1> DEFINE c == ContentsOf(b, n)
           d == ContentsOf(t, m)
           e == Abstract!Without(c, k)
<1>1. DOMAIN c = KeysIn(b) /\ \A g \in Taken(b) : c[b[g].key] = b[g].val
  BY ContentsProperties
<1>2. DOMAIN d = KeysIn(t) /\ \A g \in Taken(t) : d[t[g].key] = t[g].val
  BY ContentsProperties
<1>3. d = [j \in DOMAIN d |-> d[j]]
  BY DEF ContentsOf
<1> HIDE DEF c, d
<1>4. e = [j \in DOMAIN c \ {k} |-> c[j]]
  BY DEF Abstract!Without
<1>5. ASSUME NEW j \in KeysIn(t)
      PROVE  d[j] = c[j]
  <2>1. PICK g \in Taken(t) : t[g].key = j
    BY DEF KeysIn
  <2>2. PICK l \in Taken(b) : t[g] = b[l]
    OBVIOUS
  <2> QED
    BY <2>1, <2>2, <1>1, <1>2
<1> HIDE DEF e
<1>6. d = e
  BY <1>1, <1>2, <1>3, <1>4, <1>5
<1> QED
  BY <1>6 DEF c, d, e

LEMMA EmptyContents ==
  ASSUME NEW n, NEW b, Sound(b, n), Taken(b) = {}
  PROVE  ContentsOf(b, n) = [k \in {} |-> Default]
<1>0. KeysIn(b) = {}
  BY DEF KeysIn
<1>1. DOMAIN ContentsOf(b, n) = {}
  BY <1>0, ContentsProperties
<1>2. Visible(b, n) = {}
  BY <1>1 DEF ContentsOf
<1> QED
  BY <1>2 DEF ContentsOf

-----------------------------------------------------------------------------
(* Every call is the finite map's.                                         *)
Whole == FlatInv /\ ~harmed /\ FlatInv' /\ ~harmed'

LEMMA FoundIsVisible ==
  ASSUME NEW k \in Key, Terminates(k)
  PROVE  Found(k) <=> k \in DOMAIN Contents
BY DEF Contents

LEMMA FoundValue ==
  ASSUME NEW k \in Key, Terminates(k), Found(k)
  PROVE  Contents[k] = bucket[Index(k)].val
BY DEF Contents

LEMMA SameTable ==
  ASSUME bucket' = bucket, count' = count
  PROVE  Contents' = Contents
BY ContentsAreOf

LEMMA ResizeRefines ==
  ASSUME Whole, NEW n, Fits(n), count' = Count(n), bucket' = Table(n)
  PROVE  Contents' = Contents
<1>1. /\ KeysIn(bucket') = KeysIn(bucket)
      /\ \A g \in Taken(bucket') : \E l \in Taken(bucket) : bucket'[g] = bucket[l]
  BY RehashKeeps DEF Whole
<1>2. Sound(bucket, count) /\ Sound(bucket', count')
  BY ContentsAreOf DEF Whole
<1>3. ContentsOf(bucket', count') = ContentsOf(bucket, count)
  BY <1>1, <1>2, SameContents
<1> QED
  BY <1>3, ContentsAreOf

LEMMA ConstructRefines ==
  ASSUME Whole, NEW n, Fits(n), Count(n) # 0, NEW k \in Key, NEW v \in Val,
         ProbeEnds(Table(n), Count(n), k), Construct(k, v, n)
  PROVE  Contents' = Abstract!Put(Contents, k, v)
<1> DEFINE t == Table(n)
           h == IndexOn(t, Count(n), k)
           u == [t EXCEPT ![h] = Pair(k, v)]
<1>1. /\ IsTable(t, Count(n)) /\ Count(n) \in Nat \ {0}
      /\ KeysIn(t) = KeysIn(bucket)
      /\ \A g \in Taken(t) : \E l \in Taken(bucket) : t[g] = bucket[l]
  <2>1. TableInv(Count(n), t, size, Cut(n), harmed)
    BY RehashKeeps DEF Whole
  <2> QED
    BY <2>1, RehashKeeps DEF Whole, TableInv
<1>2. bucket' = u /\ count' = Count(n)
  BY DEF Construct
<1>3. Sound(bucket, count) /\ Sound(bucket', count')
  BY ContentsAreOf DEF Whole
<1> HIDE DEF t
<1>4. h \in Slots(Count(n)) /\ Stops(t, k, h)
  BY <1>1, StopsFirst DEF t
<1> HIDE DEF h
<1>5. Taken(u) = Taken(t) \cup {h}
  BY <1>1, <1>4, StoredPair
<1>6. KeysIn(u) = KeysIn(t) \cup {k}
  BY <1>1, <1>4, StoredPair
<1>7. u[h] = Pair(k, v) /\ \A g \in Slots(Count(n)) : g # h => u[g] = t[g]
  BY <1>1, <1>4 DEF IsTable
<1> HIDE DEF u
<1>8. ASSUME NEW g \in Taken(u) \ {h}
      PROVE  \E l \in Taken(bucket) : u[g] = bucket[l]
  <2>1. g \in Taken(t) /\ g \in Slots(Count(n))
    BY <1>1, <1>5, TakenPairs
  <2> QED
    BY <2>1, <1>1, <1>7
<1>9. ContentsOf(bucket', count') = Abstract!Put(ContentsOf(bucket, count), k, v)
  BY <1>1, <1>2, <1>3, <1>5, <1>6, <1>7, <1>8, PutContents
<1> QED
  BY <1>9, ContentsAreOf

LEMMA NewKeyRefines ==
  ASSUME Whole, NEW k \in Key, NEW v \in Val, Terminates(k), Construct(k, v, Growth)
  PROVE  Contents' = Abstract!Put(Contents, k, v)
<1>1. Fits(Growth) /\ Count(Growth) \in Nat \ {0}
  BY HalfFree DEF Whole
<1>2. ProbeEnds(Table(Growth), Count(Growth), k)
  BY <1>1, ProbeEndsAfter DEF Whole
<1> QED
  BY <1>1, <1>2, ConstructRefines

LEMMA InsertRefines ==
  ASSUME Whole, NEW k \in Key, NEW v \in Val, Insert(k, v)
  PROVE  Abstract!Insert(k, v)
<1> DEFINE n == ReserveTo(size + 1)
           h == IndexOn(Table(n), Count(n), k)
<1>1. Fits(n) /\ Count(n) \in Nat \ {0} /\ Count(n) # 0
  BY HalfFree DEF Whole
<1>2. /\ ProbeEnds(Table(n), Count(n), k)
      /\ IF Table(n)[h] = Free THEN Construct(k, v, n) /\ ret' = TRUE
         ELSE count' = Count(n) /\ bucket' = Table(n) /\ ret' = FALSE
  BY DEF Insert
<1> HIDE DEF n
<1>3. /\ IsTable(Table(n), Count(n)) /\ Chained(Table(n), Count(n), {}) /\ Once(Table(n))
      /\ KeysIn(Table(n)) = KeysIn(bucket)
  BY <1>1, RehashKeeps DEF Whole, TableInv
<1>4. DOMAIN Contents = KeysIn(bucket)
  <2>1. Sound(bucket, count)
    BY ContentsAreOf DEF Whole
  <2> QED
    BY <2>1, ContentsAreOf, ContentsProperties
<1>5. Table(n)[h] # Free <=> k \in DOMAIN Contents
  BY <1>1, <1>2, <1>3, <1>4, FoundMeansStored
<1>6. CASE Table(n)[h] = Free
  <2>1. Contents' = Abstract!Put(Contents, k, v) /\ ret' = TRUE
    BY <1>1, <1>2, <1>6, ConstructRefines
  <2> QED
    BY <2>1, <1>5, <1>6 DEF Abstract!Insert
<1>7. CASE Table(n)[h] # Free
  <2>1. Contents' = Contents /\ ret' = FALSE
    BY <1>1, <1>2, <1>7, ResizeRefines
  <2> QED
    BY <2>1, <1>5, <1>7 DEF Abstract!Insert
<1> QED
  BY <1>6, <1>7

LEMMA SubscriptRefines ==
  ASSUME Whole, NEW k \in Key, Subscript(k)
  PROVE  Abstract!Subscript(k)
<1>1. Terminates(k) /\ Default \in Val
  BY FlatMapAssumption DEF Subscript
<1>2. CASE Found(k)
  <2>1. ret' = bucket[Index(k)].val /\ Contents' = Contents
    BY <1>2, SameTable DEF Subscript
  <2> QED
    BY <2>1, <1>1, <1>2, FoundIsVisible, FoundValue DEF Abstract!Subscript
<1>3. CASE ~Found(k)
  <2>1. ret' = Default /\ Contents' = Abstract!Put(Contents, k, Default)
    BY <1>1, <1>3, NewKeyRefines DEF Subscript
  <2>2. Abstract!Put(Contents, k, Default)[k] = Default
    BY DEF Abstract!Put
  <2> QED
    BY <2>1, <2>2, <1>1, <1>3, FoundIsVisible DEF Abstract!Subscript
<1> QED
  BY <1>2, <1>3

LEMMA AssignRefines ==
  ASSUME Whole, NEW k \in Key, NEW v \in Val, Assign(k, v)
  PROVE  Abstract!Assign(k, v)
<1>1. Terminates(k) /\ ret' = v
  BY DEF Assign
<1>2. CASE Found(k)
  <2> DEFINE h == Index(k)
             t == [bucket EXCEPT ![h] = Pair(k, v)]
  <2>1. h \in Taken(bucket) /\ bucket[h].key = k /\ k \in KeysIn(bucket)
    BY <1>1, <1>2, FoundIsStored DEF Whole
  <2>2. bucket' = [bucket EXCEPT ![h].val = v] /\ count' = count
    BY <1>2 DEF Assign
  <2>3. Sound(bucket, count) /\ Sound(bucket', count')
    BY ContentsAreOf DEF Whole
  <2> HIDE DEF h
  <2>4. bucket' = t
    <3>1. bucket[h] \in [key : Key, val : Val]
      BY <2>1, <2>3, TakenPairs DEF Sound
    <3>2. [bucket[h] EXCEPT !.val = v] = Pair(k, v)
      BY <3>1, <2>1 DEF Pair
    <3> QED
      BY <3>2, <2>2
  <2>5. h \in Slots(count) /\ Stops(bucket, k, h) /\ IsTable(bucket, count) /\ count \in Nat \ {0}
    BY <2>1, <2>3, TakenPairs DEF Stops, Sound, Slots
  <2>6. Taken(t) = Taken(bucket) \cup {h}
    BY <2>5, StoredPair
  <2>7. KeysIn(t) = KeysIn(bucket) \cup {k}
    BY <2>5, StoredPair
  <2>8. t[h] = Pair(k, v) /\ \A g \in Slots(count) : g # h => t[g] = bucket[g]
    BY <2>5 DEF IsTable
  <2> HIDE DEF t
  <2>9. ASSUME NEW g \in Taken(t) \ {h}
        PROVE  \E l \in Taken(bucket) : t[g] = bucket[l]
    <3>1. g \in Taken(bucket) /\ g \in Slots(count)
      BY <2>5, <2>6, TakenPairs
    <3> QED
      BY <3>1, <2>8
  <2>10. ContentsOf(bucket', count') = Abstract!Put(ContentsOf(bucket, count), k, v)
    BY <2>3, <2>4, <2>6, <2>7, <2>8, <2>9, PutContents
  <2> QED
    BY <2>10, <1>1, ContentsAreOf DEF Abstract!Assign
<1>3. CASE ~Found(k)
  <2>1. Contents' = Abstract!Put(Contents, k, v)
    BY <1>1, <1>3, NewKeyRefines DEF Assign
  <2> QED
    BY <2>1, <1>1 DEF Abstract!Assign
<1> QED
  BY <1>2, <1>3

LEMMA EraseRefines ==
  ASSUME Whole, NEW k \in Key, Erase(k)
  PROVE  Abstract!Erase(k)
<1>1. Terminates(k) /\ ret' = Found(k)
  BY DEF Erase
<1>2. Found(k) \in BOOLEAN
  BY DEF Found
<1>3. CASE Found(k)
  <2> DEFINE h == Index(k)
             t == [bucket EXCEPT ![h] = Free]
  <2>1. h \in Taken(bucket) /\ bucket[h].key = k
    BY <1>1, <1>3, FoundIsStored DEF Whole
  <2>2. bucket' = t /\ count' = count
    BY <1>3 DEF Erase
  <2>3. Sound(bucket, count) /\ Sound(bucket', count')
    BY ContentsAreOf DEF Whole
  <2> HIDE DEF h
  <2>4. KeysIn(t) = KeysIn(bucket) \ {k}
    BY <2>1, EraseKeeps DEF Whole
  <2>5. Taken(t) = Taken(bucket) \ {h}
    BY <2>1, <2>3, ErasedSlot DEF Sound
  <2>6. \A g \in Slots(count) : g # h => t[g] = bucket[g]
    BY <2>1, <2>3 DEF Sound, IsTable
  <2> HIDE DEF t
  <2>7. ASSUME NEW g \in Taken(t)
        PROVE  \E l \in Taken(bucket) : t[g] = bucket[l]
    <3>1. g \in Taken(bucket) /\ g \in Slots(count) /\ g # h
      BY <2>3, <2>5, TakenPairs DEF Sound
    <3> QED
      BY <3>1, <2>6
  <2>8. ContentsOf(bucket', count') = Abstract!Without(ContentsOf(bucket, count), k)
    BY <2>2, <2>3, <2>4, <2>7, WithoutContents
  <2> QED
    BY <2>8, <1>1, <1>3, FoundIsVisible, ContentsAreOf DEF Abstract!Erase
<1>4. CASE ~Found(k)
  <2>1. Contents' = Contents
    BY <1>4, SameTable DEF Erase
  <2>2. k \notin DOMAIN Contents /\ Contents = [j \in DOMAIN Contents |-> Contents[j]]
    BY <1>1, <1>4, FoundIsVisible DEF Contents
  <2>3. Abstract!Without(Contents, k) = Contents
    <3>1. DOMAIN Contents \ {k} = DOMAIN Contents
      BY <2>2
    <3> QED
      BY <3>1, <2>2 DEF Abstract!Without
  <2> QED
    BY <2>1, <2>2, <2>3, <1>1, <1>2, <1>4 DEF Abstract!Erase
<1> QED
  BY <1>3, <1>4

LEMMA ReadRefines ==
  ASSUME NEW k \in Key
  PROVE  /\ Find(k) => Abstract!Lookup(k)
         /\ Contains(k) => Abstract!Contains(k)
<1>1. ASSUME Find(k)
      PROVE  Abstract!Lookup(k)
  <2>1. /\ Terminates(k) /\ Contents' = Contents
        /\ ret' = IF Found(k) THEN bucket[Index(k)].val ELSE Absent
    BY <1>1, SameTable DEF Find
  <2> QED
    BY <2>1, FoundIsVisible, FoundValue DEF Abstract!Lookup
<1>2. ASSUME Contains(k)
      PROVE  Abstract!Contains(k)
  <2>1. Terminates(k) /\ Contents' = Contents /\ ret' = Found(k)
    BY <1>2, SameTable DEF Contains
  <2>2. Found(k) = (k \in DOMAIN Contents)
    BY <2>1, FoundIsVisible DEF Found
  <2> QED
    BY <2>1, <2>2 DEF Abstract!Contains
<1> QED
  BY <1>1, <1>2

LEMMA EmptyRefines ==
  ASSUME FlatInv', ~harmed', Taken(bucket') = {}, ret' = Done
  PROVE  Abstract!Clear
<1>1. ContentsOf(bucket', count') = [k \in {} |-> Default]
  BY ContentsAreOf, EmptyContents
<1> QED
  BY <1>1, ContentsAreOf DEF Abstract!Clear

LEMMA StepRefines ==
  ASSUME FlatInv, [Next]_vars, ~harmed'
  PROVE  [Abstract!Next]_<<Contents, ret>>
<1>1. FlatInv'
  BY FlatInduction
<1>2. CASE UNCHANGED vars
  BY <1>2, SameTable DEF vars
<1>3. CASE Clear \/ MoveFrom
  <2>1. Taken(bucket') = {} /\ ret' = Done
    BY <1>3 DEF Clear, MoveFrom, NoTable, Taken
  <2> QED
    BY <2>1, <1>1, EmptyRefines DEF Abstract!Next
<1>4. CASE Next /\ ~Clear /\ ~MoveFrom
  <2>1. Whole
    <3>1. ~harmed
      <4>1. ASSUME NEW k \in Key, Subscript(k) \/ Find(k) \/ At(k) \/ Contains(k)
            PROVE  harmed' = harmed
        BY <4>1 DEF Subscript, Construct, Find, At, Contains
      <4>2. ASSUME NEW k \in Key, NEW v \in Val, Insert(k, v) \/ Assign(k, v)
            PROVE  harmed' = harmed
        BY <4>2 DEF Insert, Assign, Construct
      <4>3. ASSUME NEW k \in Key, Erase(k)
            PROVE  ~harmed
        BY <4>3 DEF Erase
      <4>4. ASSUME NEW n \in RehashSizes, Rehash(n) \/ Reserve(n)
            PROVE  harmed' = harmed
        BY <4>4 DEF Rehash, Reserve, Resize
      <4>5. CASE ShrinkToFit
        BY <4>5 DEF ShrinkToFit, Resize
      <4> QED
        BY <4>1, <4>2, <4>3, <4>4, <4>5, <1>4 DEF Next
    <3> QED
      BY <3>1, <1>1 DEF Whole
  <2>2. ASSUME NEW n, Fits(n), Resize(n)
        PROVE  Abstract!Reorganise
    BY <2>1, <2>2, ResizeRefines DEF Resize, Abstract!Reorganise
  <2>3. ASSUME NEW n \in RehashSizes, Rehash(n) \/ Reserve(n)
        PROVE  Abstract!Next
    <3>1. n \in Nat
      BY FlatMapAssumption
    <3> QED
      BY <3>1, <2>2, <2>3, HalfFree DEF Rehash, Reserve, Abstract!Next
  <2>4. CASE ShrinkToFit
    BY <2>4, <2>2, HalfFree DEF ShrinkToFit, Abstract!Next
  <2>5. ASSUME NEW k \in Key, Subscript(k) \/ Erase(k) \/ Find(k) \/ At(k) \/ Contains(k)
        PROVE  Abstract!Next
    BY <2>1, <2>5, SubscriptRefines, EraseRefines, ReadRefines DEF At, Abstract!Next
  <2>6. ASSUME NEW k \in Key, NEW v \in Val, Insert(k, v) \/ Assign(k, v)
        PROVE  Abstract!Next
    BY <2>1, <2>6, InsertRefines, AssignRefines DEF Abstract!Next
  <2> QED
    BY <1>4, <2>3, <2>4, <2>5, <2>6 DEF Next
<1> QED
  BY <1>2, <1>3, <1>4

(* Until an erase frees a slot that another key's probe has passed, every  *)
(* operation is the finite map's and rehashing cannot be seen, for every   *)
(* hash function.                                                          *)
THEOREM RefinesFiniteMapHolds == Spec => RefinesFiniteMap
<1>1. FlatInv /\ [Next]_vars => [~harmed' => [Abstract!Next]_<<Contents, ret>>]_vars
  BY StepRefines
<1> QED
  BY <1>1, FlatInvariant, PTL DEF Spec, RefinesFiniteMap
=============================================================================
