-------------------------- MODULE Condense_proof --------------------------
(***************************************************************************)
(* What the containers of condense/ promise, for all keys, values, types   *)
(* and sizes.                                                              *)
(*                                                                         *)
(* OrderedMap: no key is in the vector twice whichever erases are mixed:   *)
(* what is inserted is new to unomap, what is in the vector is in unomap,  *)
(* and every erase keeps a part of the vector in which only elements       *)
(* changed places.  Until an erase makes the index stale, it holds every   *)
(* key's position.                                                         *)
(*                                                                         *)
(* BinaryBuffer: there are starts, one behind the other, at which the      *)
(* values lie; a reader that asked for the same types is at one of them.   *)
(*                                                                         *)
(* SparseVec: both arrays reach as far as the sizes, and entry i of each   *)
(* belongs to id i - 1 until an id that is not the last is erased.         *)
(***************************************************************************)
EXTENDS SparseVec, OrderedMap, BinaryBuffer, SequenceTheorems, TLAPS

Pairs == [first : OrderKey, second : OrderVal]

OrderTypeOK ==
  /\ order \in Seq(Pairs)
  /\ unomap \in [DOMAIN unomap -> Nat \ {0}]

OrderInv == OrderTypeOK /\ OrderKeysOnce

-----------------------------------------------------------------------------
(* What the vector's erase leaves, and the swap with the last element.     *)
LEMMA RemoveAtProperties ==
  ASSUME NEW S, NEW s \in Seq(S), NEW i \in 1..Len(s)
  PROVE  /\ RemoveAt(s, i) \in Seq(S)
         /\ Len(RemoveAt(s, i)) = Len(s) - 1
         /\ \A j \in 1..Len(s) - 1 : RemoveAt(s, i)[j] = IF j < i THEN s[j] ELSE s[j + 1]
<1> DEFINE a == SubSeq(s, 1, i - 1)
           b == SubSeq(s, i + 1, Len(s))
<1>1. Len(s) \in Nat /\ i \in Nat /\ 1 <= i /\ i <= Len(s)
  OBVIOUS
<1>2. /\ a \in Seq(S) /\ Len(a) = i - 1
      /\ \A j \in 1..i - 1 : a[j] = s[j]
  BY <1>1
<1>3. /\ b \in Seq(S) /\ Len(b) = Len(s) - i
      /\ \A j \in 1..Len(s) - i : b[j] = s[i + j]
  BY <1>1
<1> HIDE DEF a, b
<1>4. /\ a \o b \in Seq(S) /\ Len(a \o b) = Len(a) + Len(b)
      /\ \A j \in 1..Len(a) + Len(b) :
           (a \o b)[j] = IF j <= Len(a) THEN a[j] ELSE b[j - Len(a)]
  BY <1>2, <1>3, ConcatProperties, Zenon
<1> DEFINE c == a \o b
<1>5. /\ c \in Seq(S) /\ Len(c) = Len(s) - 1
      /\ \A j \in 1..Len(s) - 1 : c[j] = IF j <= i - 1 THEN a[j] ELSE b[j - (i - 1)]
  BY <1>1, <1>2, <1>3, <1>4
<1> HIDE DEF c
<1>6. ASSUME NEW j \in 1..Len(s) - 1
      PROVE  c[j] = IF j < i THEN s[j] ELSE s[j + 1]
  <2>1. CASE j <= i - 1
    BY <2>1, <1>1, <1>2, <1>5
  <2>2. CASE ~(j <= i - 1)
    <3>1. j - (i - 1) \in 1..Len(s) - i /\ i + (j - (i - 1)) = j + 1
      BY <2>2, <1>1
    <3> QED
      BY <2>2, <3>1, <1>1, <1>3, <1>5
  <2> QED
    BY <2>1, <2>2
<1>7. RemoveAt(s, i) = c
  BY DEF RemoveAt, a, b, c
<1> QED
  BY <1>5, <1>6, <1>7

LEMMA SwappedBackProperties ==
  ASSUME NEW S, order \in Seq(S), NEW i \in 1..Len(order)
  PROVE  /\ SwappedBack(i) \in Seq(S)
         /\ Len(SwappedBack(i)) = Len(order) - 1
         /\ \A j \in 1..Len(order) - 1 :
              SwappedBack(i)[j] = IF j = i THEN order[Len(order)] ELSE order[j]
<1> DEFINE s == [order EXCEPT ![i] = Last(order)]
<1>1. Len(order) \in Nat /\ i \in Nat /\ 1 <= i /\ i <= Len(order)
  OBVIOUS
<1>2. /\ s \in Seq(S) /\ Len(s) = Len(order)
      /\ \A j \in 1..Len(order) : s[j] = IF j = i THEN order[Len(order)] ELSE order[j]
  BY <1>1 DEF Last
<1>3. SwappedBack(i) = SubSeq(s, 1, Len(order) - 1)
  BY <1>2 DEF SwappedBack, Front
<1> HIDE DEF s
<1> DEFINE f == SubSeq(s, 1, Len(order) - 1)
<1>4. /\ f \in Seq(S) /\ Len(f) = Len(order) - 1
      /\ \A j \in 1..Len(order) - 1 : f[j] = s[j]
  BY <1>1, <1>2
<1> HIDE DEF f
<1>5. \A j \in 1..Len(order) - 1 : f[j] = IF j = i THEN order[Len(order)] ELSE order[j]
  BY <1>1, <1>2, <1>4
<1> QED
  BY <1>3, <1>4, <1>5 DEF f

-----------------------------------------------------------------------------
(* A vector of elements of another one, no two from one place, has its     *)
(* keys once too; its keys stay in unomap if the erased one is not needed. *)
LEMMA ErasePreserves ==
  ASSUME OrderInv, NEW i \in 1..Len(order),
         \/ order' = RemoveAt(order, i)
         \/ order' = SwappedBack(i),
         unomap' = unomap \/ unomap' = Dropped(unomap, order[i].first)
  PROVE  OrderInv'
<1> USE DEF OrderInv, OrderTypeOK, OrderKeysOnce
<1> DEFINE From(j) == IF order' = RemoveAt(order, i)
                      THEN IF j < i THEN j ELSE j + 1
                      ELSE IF j = i THEN Len(order) ELSE j
<1>1. Len(order) \in Nat /\ i \in Nat /\ 1 <= i /\ i <= Len(order)
  OBVIOUS
<1>2. order' \in Seq(Pairs) /\ Len(order') = Len(order) - 1
  <2>1. CASE order' = RemoveAt(order, i)
    BY <2>1, RemoveAtProperties, Zenon
  <2>2. CASE order' = SwappedBack(i)
    BY <2>2, SwappedBackProperties, Zenon
  <2> QED
    BY <2>1, <2>2
<1>3. ASSUME NEW j \in 1..Len(order')
      PROVE  order'[j] = order[From(j)] /\ From(j) \in 1..Len(order) /\ From(j) # i
  <2>1. CASE order' = RemoveAt(order, i)
    <3>1. order'[j] = IF j < i THEN order[j] ELSE order[j + 1]
      BY <2>1, <1>2, RemoveAtProperties
    <3> QED
      BY <2>1, <3>1, <1>1, <1>2
  <2>2. CASE order' # RemoveAt(order, i)
    <3>1. order'[j] = IF j = i THEN order[Len(order)] ELSE order[j]
      BY <2>2, <1>2, SwappedBackProperties
    <3> QED
      BY <2>2, <3>1, <1>1, <1>2
  <2> QED
    BY <2>1, <2>2
<1>4. ASSUME NEW j \in 1..Len(order'), NEW k \in 1..Len(order'), From(j) = From(k)
      PROVE  j = k
  BY <1>1, <1>2, <1>4
<1>5. DOMAIN order' = 1..Len(order') /\ DOMAIN order = 1..Len(order)
  BY <1>2
<1>6. unomap' \in [DOMAIN unomap' -> Nat \ {0}]
  BY DEF Dropped
<1>7. \A k \in DOMAIN unomap : k # order[i].first => k \in DOMAIN unomap'
  BY DEF Dropped
<1> HIDE DEF From
<1>8. \A j \in DOMAIN order' : order'[j].first \in DOMAIN unomap'
  BY <1>3, <1>5, <1>7
<1>9. \A j, k \in DOMAIN order' : order'[j].first = order'[k].first => j = k
  BY <1>3, <1>4, <1>5
<1> QED
  BY <1>2, <1>6, <1>8, <1>9

-----------------------------------------------------------------------------
(* Every call keeps the invariant.                                         *)
LEMMA OrderInduction ==
  ASSUME OrderInv, [OrderNext]_orderVars
  PROVE  OrderInv'
<1> USE DEF OrderInv, OrderTypeOK, OrderKeysOnce
<1>1. CASE UNCHANGED orderVars
  BY <1>1 DEF orderVars
<1>2. ASSUME NEW k \in OrderKey, NEW v \in OrderVal, k \notin DOMAIN unomap, OrderInsert(k, v)
      PROVE  OrderInv'
  <2>1. /\ unomap' = Emplace(unomap, k, Len(order) + 1)
        /\ order' = Append(order, KV(k, v))
    BY <1>2 DEF OrderInsert
  <2>2. KV(k, v) \in Pairs /\ KV(k, v).first = k
    BY DEF KV, Pairs
  <2>3. /\ order' \in Seq(Pairs) /\ Len(order') = Len(order) + 1
        /\ \A i \in 1..Len(order) : order'[i] = order[i]
        /\ order'[Len(order) + 1] = KV(k, v)
    BY <2>1, <2>2
  <2>4. DOMAIN unomap' = DOMAIN unomap \cup {k} /\ unomap' \in [DOMAIN unomap' -> Nat \ {0}]
    BY <2>1 DEF Emplace
  <2>5. DOMAIN order' = 1..Len(order) + 1 /\ DOMAIN order = 1..Len(order) /\ Len(order) \in Nat
    BY <2>3
  <2>6. \A i \in DOMAIN order : order[i].first # k
    BY <1>2
  <2>7. \A i \in DOMAIN order' : order'[i].first \in DOMAIN unomap'
    BY <2>2, <2>3, <2>4, <2>5
  <2>8. \A i, j \in DOMAIN order' : order'[i].first = order'[j].first => i = j
    BY <2>2, <2>3, <2>5, <2>6
  <2> QED
    BY <2>3, <2>4, <2>7, <2>8
<1>3. ASSUME NEW i \in 1..Len(order), NEW v \in OrderVal, AssignAt(i, v)
      PROVE  OrderInv'
  <2>1. order' = [order EXCEPT ![i].second = v] /\ unomap' = unomap
    BY <1>3 DEF AssignAt
  <2>2. /\ order' \in Seq(Pairs) /\ DOMAIN order' = DOMAIN order
        /\ \A j \in DOMAIN order : order'[j].first = order[j].first
    <3>1. order[i] \in Pairs
      OBVIOUS
    <3>2. [order[i] EXCEPT !.second = v] \in Pairs
          /\ [order[i] EXCEPT !.second = v].first = order[i].first
      BY <3>1 DEF Pairs
    <3> QED
      BY <2>1, <3>2
  <2> QED
    BY <2>1, <2>2
<1>4. ASSUME NEW k \in OrderKey, EraseKey(k) \/ BackSwapEraseKey(k)
      PROVE  OrderInv'
  <2>1. /\ unomap[k] \in 1..Len(order) /\ unomap' = unomap
        /\ order' = RemoveAt(order, unomap[k]) \/ order' = SwappedBack(unomap[k])
    BY <1>4 DEF EraseKey, BackSwapEraseKey
  <2> QED
    BY <2>1, ErasePreserves, Zenon
<1>5. ASSUME NEW i \in 1..Len(order), EraseIter(i) \/ BackSwapEraseIter(i)
      PROVE  OrderInv'
  BY <1>5, ErasePreserves DEF EraseIter, BackSwapEraseIter
<1>6. ASSUME NEW k \in OrderKey, NEW v \in OrderVal, OrderInsert(k, v) \/ AssignKey(k, v)
      PROVE  OrderInv'
  <2>1. CASE OrderInsert(k, v) /\ k \notin DOMAIN unomap
    BY <2>1, <1>2, Zenon
  <2>2. CASE OrderInsert(k, v) /\ k \in DOMAIN unomap
    BY <2>2, <1>1 DEF OrderInsert
  <2>3. CASE AssignKey(k, v)
    <3>1. unomap[k] \in 1..Len(order) /\ AssignAt(unomap[k], v)
      BY <2>3 DEF AssignKey, AssignAt
    <3> QED
      BY <3>1, <1>3, Zenon
  <2> QED
    BY <1>6, <2>1, <2>2, <2>3, Zenon
<1> QED
  BY <1>1, <1>3, <1>4, <1>5, <1>6, Zenon DEF OrderNext

(* The vector never holds a key twice, and unomap keeps every key of it:   *)
(* for all keys and values and every sequence of OrderedMap's calls.       *)
THEOREM KeysOnce == OrderSpec => []OrderKeysOnce
<1>1. OrderInit => OrderInv
  BY DEF OrderInit, OrderInv, OrderTypeOK, OrderKeysOnce
<1>2. OrderInv /\ [OrderNext]_orderVars => OrderInv'
  BY OrderInduction
<1>3. OrderInv => OrderKeysOnce
  BY DEF OrderInv
<1> QED
  BY <1>1, <1>2, <1>3, PTL DEF OrderSpec

-----------------------------------------------------------------------------
(* What the vector and its index are until an erase separates them.        *)
KeysOf(s) == {s[i].first : i \in DOMAIN s}

OrderAgrees ==
  /\ order = inserted
  /\ DOMAIN unomap = KeysOf(order)
  /\ \A i \in DOMAIN order : unomap[order[i].first] = i

OrderIndexInv == OrderInv /\ (~stale => OrderAgrees)

LEMMA KeysEqual ==
  ASSUME NEW s, NEW t, DOMAIN s = DOMAIN t,
         \A i \in DOMAIN s : s[i].first = t[i].first
  PROVE  KeysOf(s) = KeysOf(t)
BY DEF KeysOf

(* The erases by iterator that do not make the index stale are those of    *)
(* the last element: they shorten the vector and forget its key.           *)
LEMMA LastErased ==
  ASSUME OrderInv, OrderAgrees, NEW n \in 1..Len(order), ~(n < Len(order)),
         \/ order' = RemoveAt(order, n)
         \/ order' = SwappedBack(n),
         unomap' = Dropped(unomap, order[n].first),
         inserted' = NotKey(inserted, order[n].first)
  PROVE  OrderAgrees'
<1> USE DEF OrderInv, OrderTypeOK, OrderKeysOnce, OrderAgrees
<1>1. n = Len(order) /\ n \in Nat /\ 1 <= n /\ n \in 1..n /\ DOMAIN order = 1..n /\ order \in Seq(Pairs)
  OBVIOUS
<1>2. /\ RemoveAt(order, n) \in Seq(Pairs) /\ Len(RemoveAt(order, n)) = n - 1
      /\ \A j \in 1..n - 1 : RemoveAt(order, n)[j] = order[j]
  <2>1. /\ RemoveAt(order, n) \in Seq(Pairs) /\ Len(RemoveAt(order, n)) = Len(order) - 1
        /\ \A j \in 1..Len(order) - 1 : RemoveAt(order, n)[j] = IF j < n THEN order[j] ELSE order[j + 1]
    BY RemoveAtProperties
  <2> QED
    BY <2>1, <1>1
<1>3. /\ order' \in Seq(Pairs) /\ Len(order') = n - 1
      /\ \A j \in 1..n - 1 : order'[j] = order[j]
  <2>1. CASE order' = RemoveAt(order, n)
    BY <2>1, <1>2
  <2>2. CASE order' = SwappedBack(n)
    <3>1. /\ order' \in Seq(Pairs) /\ Len(order') = Len(order) - 1
          /\ \A j \in 1..Len(order) - 1 : order'[j] = IF j = n THEN order[n] ELSE order[j]
      BY <2>2, SwappedBackProperties
    <3> QED
      BY <3>1, <1>1
  <2> QED
    BY <2>1, <2>2
<1>4. order' = RemoveAt(order, n)
  <2> DEFINE r == RemoveAt(order, n)
  <2> HIDE DEF r
  <2>1. \A j \in 1..Len(order') : order'[j] = r[j]
    BY <1>2, <1>3 DEF r
  <2>2. r \in Seq(Pairs) /\ Len(r) = Len(order')
    BY <1>2, <1>3 DEF r
  <2>3. order' = r
    BY <2>1, <2>2, <1>3, SeqEqual, Zenon
  <2> QED
    BY <2>3 DEF r
<1>5. inserted' = RemoveAt(order, n)
  <2>1. (CHOOSE i \in DOMAIN inserted : inserted[i].first = order[n].first) = n
    BY <1>1
  <2> QED
    BY <2>1, <1>1 DEF NotKey
<1>6. DOMAIN order' = 1..n - 1
  BY <1>3
<1>7. DOMAIN unomap' = DOMAIN unomap \ {order[n].first}
      /\ \A k \in DOMAIN unomap' : unomap'[k] = unomap[k]
  BY DEF Dropped
<1>8. \A j \in 1..n - 1 : order[j].first # order[n].first
  BY <1>1
<1>9. DOMAIN unomap' = KeysOf(order')
  <2>1. \A k : k \in KeysOf(order) <=> \E i \in 1..n : k = order[i].first
    BY <1>1 DEF KeysOf
  <2>2. \A k : k \in KeysOf(order') <=> \E i \in 1..n - 1 : k = order[i].first
    BY <1>3, <1>6 DEF KeysOf
  <2>3. \A i \in 1..n : i \in 1..n - 1 \/ i = n
    BY <1>1
  <2>4. 1..n - 1 \subseteq 1..n
    BY <1>1
  <2>5. \A k : k \in DOMAIN unomap' <=> k \in KeysOf(order')
    BY <1>7, <1>8, <2>1, <2>2, <2>3, <2>4
  <2> QED
    BY <2>5
<1>10. \A i \in DOMAIN order' : unomap'[order'[i].first] = i
  BY <1>1, <1>3, <1>6, <1>7, <1>8
<1> QED
  BY <1>4, <1>5, <1>9, <1>10

LEMMA OrderIndexInduction ==
  ASSUME OrderIndexInv, [OrderNext]_orderVars
  PROVE  OrderIndexInv'
<1> USE DEF OrderIndexInv
<1>1. OrderInv'
  BY OrderInduction, Zenon
<1> SUFFICES ASSUME ~stale' PROVE OrderAgrees'
  BY <1>1
<1> USE DEF OrderInv, OrderTypeOK, OrderKeysOnce
<1>2. CASE UNCHANGED orderVars
  BY <1>2 DEF orderVars, OrderAgrees
<1>3. ASSUME NEW k \in OrderKey, NEW v \in OrderVal, k \notin DOMAIN unomap, OrderInsert(k, v)
      PROVE  OrderAgrees'
  <2>1. /\ unomap' = Emplace(unomap, k, Len(order) + 1)
        /\ order' = Append(order, KV(k, v))
        /\ inserted' = Append(inserted, KV(k, v)) /\ stale' = stale
    BY <1>3 DEF OrderInsert
  <2>2. OrderAgrees
    BY <2>1
  <2>3. KV(k, v) \in Pairs /\ KV(k, v).first = k
    BY DEF KV, Pairs
  <2>4. /\ DOMAIN order = 1..Len(order) /\ DOMAIN order' = 1..Len(order) + 1
        /\ Len(order) \in Nat
        /\ \A i \in 1..Len(order) : order'[i] = order[i]
        /\ order'[Len(order) + 1].first = k
    BY <2>1, <2>3
  <2>5. /\ DOMAIN unomap' = DOMAIN unomap \cup {k} /\ unomap'[k] = Len(order) + 1
        /\ \A j \in DOMAIN unomap : unomap'[j] = unomap[j]
    BY <2>1, <1>3 DEF Emplace
  <2>6. \A i \in DOMAIN order : order[i].first # k
    BY <1>3
  <2>7. order' = inserted'
    BY <2>1, <2>2 DEF OrderAgrees
  <2>8. DOMAIN unomap' = KeysOf(order')
    <3>1. \A j \in DOMAIN order' : j \in DOMAIN order \/ j = Len(order) + 1
      BY <2>4
    <3>2. Len(order) + 1 \in DOMAIN order' /\ DOMAIN order \subseteq DOMAIN order'
      BY <2>4
    <3>3. KeysOf(order') = KeysOf(order) \cup {k}
      BY <2>4, <3>1, <3>2 DEF KeysOf
    <3> QED
      BY <2>2, <2>5, <3>3 DEF OrderAgrees
  <2>9. ASSUME NEW i \in DOMAIN order'
        PROVE  unomap'[order'[i].first] = i
    <3>1. CASE i \in DOMAIN order
      BY <3>1, <2>2, <2>4, <2>5 DEF OrderAgrees
    <3>2. CASE i = Len(order) + 1
      BY <3>2, <2>4, <2>5
    <3> QED
      BY <3>1, <3>2, <2>4
  <2> QED
    BY <2>7, <2>8, <2>9 DEF OrderAgrees
<1>4. ASSUME NEW i \in 1..Len(order), NEW v \in OrderVal, AssignAt(i, v)
      PROVE  OrderAgrees'
  <2>1. /\ order' = [order EXCEPT ![i].second = v] /\ unomap' = unomap /\ stale' = stale
        /\ inserted' = [j \in DOMAIN inserted |->
             IF inserted[j].first = order[i].first THEN KV(order[i].first, v) ELSE inserted[j]]
    BY <1>4 DEF AssignAt
  <2>2. OrderAgrees
    BY <2>1
  <2>3. [order[i] EXCEPT !.second = v] = KV(order[i].first, v)
    <3>1. order[i] \in Pairs
      OBVIOUS
    <3> QED
      BY <3>1 DEF Pairs, KV
  <2>4. order' = [j \in DOMAIN order |-> IF j = i THEN KV(order[i].first, v) ELSE order[j]]
    <3>1. order' = [order EXCEPT ![i] = [order[i] EXCEPT !.second = v]]
      BY <2>1
    <3> QED
      BY <3>1, <2>3
  <2>5. \A j \in DOMAIN order : (order[j].first = order[i].first) <=> j = i
    OBVIOUS
  <2>6. inserted' = order'
    <3>1. inserted' = [j \in DOMAIN order |->
            IF order[j].first = order[i].first THEN KV(order[i].first, v) ELSE order[j]]
      BY <2>1, <2>2 DEF OrderAgrees
    <3> QED
      BY <3>1, <2>4, <2>5
  <2>7. \A j \in DOMAIN order : order'[j].first = order[j].first
    BY <2>4 DEF KV
  <2>8. DOMAIN order' = DOMAIN order
    BY <2>4
  <2>9. KeysOf(order') = KeysOf(order)
    BY <2>7, <2>8, KeysEqual, Zenon
  <2> QED
    BY <2>1, <2>2, <2>6, <2>7, <2>8, <2>9 DEF OrderAgrees
<1>5. ASSUME NEW k \in OrderKey, EraseKey(k) \/ BackSwapEraseKey(k)
      PROVE  OrderAgrees'
  BY <1>5 DEF EraseKey, BackSwapEraseKey
<1>6. ASSUME NEW i \in 1..Len(order), EraseIter(i) \/ BackSwapEraseIter(i)
      PROVE  OrderAgrees'
  <2>1. ~stale /\ ~(i < Len(order))
    BY <1>6, Zenon DEF EraseIter, BackSwapEraseIter
  <2>2. i = Len(order) /\ order # <<>>
    BY <2>1
  <2> QED
    BY <1>6, <2>1, <2>2, LastErased DEF EraseIter, BackSwapEraseIter
<1>7. ASSUME NEW k \in OrderKey, NEW v \in OrderVal, OrderInsert(k, v) \/ AssignKey(k, v)
      PROVE  OrderAgrees'
  <2>1. CASE OrderInsert(k, v) /\ k \notin DOMAIN unomap
    BY <2>1, <1>3, Zenon
  <2>2. CASE OrderInsert(k, v) /\ k \in DOMAIN unomap
    BY <2>2, <1>2 DEF OrderInsert
  <2>3. CASE AssignKey(k, v)
    <3>1. unomap[k] \in 1..Len(order) /\ AssignAt(unomap[k], v)
      BY <2>3 DEF AssignKey, AssignAt
    <3> QED
      BY <3>1, <1>4, Zenon
  <2> QED
    BY <1>7, <2>1, <2>2, <2>3, Zenon
<1> QED
  BY <1>2, <1>4, <1>5, <1>6, <1>7, Zenon DEF OrderNext

(* Until an erase leaves the hash index stale it finds exactly the keys of *)
(* the vector, with their last values, in the order of insertion: for all  *)
(* keys and values and every sequence of OrderedMap's calls.               *)
THEOREM OrderIndexedHolds == OrderSpec => []OrderIndexed
<1>1. OrderInit => OrderIndexInv
  BY DEF OrderInit, OrderIndexInv, OrderInv, OrderTypeOK, OrderKeysOnce, OrderAgrees, KeysOf
<1>2. OrderIndexInv /\ [OrderNext]_orderVars => OrderIndexInv'
  BY OrderIndexInduction
<1>3. OrderIndexInv => OrderIndexed
  BY DEF OrderIndexInv, OrderAgrees, KeysOf, OrderIndexed, HasKey, ValueOf
<1> QED
  BY <1>1, <1>2, <1>3, PTL DEF OrderSpec

-----------------------------------------------------------------------------
(* BinaryBuffer: start[i] is where the i-th value was written, and the     *)
(* last start is the writer's offset.  Every value lies behind its start,  *)
(* before the writer, and the values read so far were found in order.      *)
Bytes == {Zero} \cup (Nat \X Nat)

BinaryTypeOK ==
  /\ bytes \in Seq(Bytes)
  /\ writer \in Nat /\ reader \in Nat
  /\ wrote \in Seq(TypeSizes)
  /\ writer <= Len(bytes)

Layout(start) ==
  /\ start \in [1..Len(wrote) + 1 -> Nat]
  /\ start[1] = 0 /\ start[Len(wrote) + 1] = writer
  /\ \A i \in 1..Len(wrote) : start[i + 1] = start[i] + wrote[i] /\ start[i + 1] <= writer
  /\ \A i \in 1..Len(wrote) : \A b \in 1..wrote[i] : bytes[start[i] + b] = <<i, b>>

(* The types read so far are those that were written.                      *)
SameTypes(k) == k <= Len(wrote) /\ \A j \in 1..k : Len(got[j]) = wrote[j]

BinaryInv ==
  /\ BinaryTypeOK
  /\ got \in Seq(Seq(Bytes))
  /\ got = <<>> => reader = 0
  /\ RoundTrip
  /\ \E start : Layout(start) /\ (SameTypes(Len(got)) => reader = start[Len(got) + 1])

(* A value is put behind the last one, into a buffer that holds it.        *)
LEMMA LayoutExtended ==
  ASSUME BinaryTypeOK, NEW start, Layout(start), NEW n \in TypeSizes,
         NEW s \in Seq(Bytes), Len(s) >= writer + n,
         \A i \in 1..writer : s[i] = bytes[i],
         bytes' = Put(s, writer, Value(Len(wrote) + 1, n)),
         writer' = writer + n, reader' = reader, wrote' = Append(wrote, n)
  PROVE  /\ BinaryTypeOK'
         /\ \E newStart : Layout(newStart)' /\ newStart[1] = 0
<1> USE DEF BinaryTypeOK
<1>0. PICK k : k = Len(wrote) + 1
  OBVIOUS
<1>1. /\ n \in Nat /\ k \in Nat /\ k >= 1 /\ k - 1 \in Nat /\ writer \in Nat
      /\ Len(wrote) = k - 1
  BY <1>0, BinaryAssumption
<1>2. /\ wrote' \in Seq(TypeSizes) /\ Len(wrote') = k
      /\ \A i \in 1..k - 1 : wrote'[i] = wrote[i]
      /\ wrote'[k] = n
  BY <1>1
<1>3. \A i \in 1..k - 1 : wrote[i] \in Nat
  <2>1. \A i \in 1..k - 1 : wrote[i] \in TypeSizes
    BY <1>1
  <2> QED
    BY <2>1, BinaryAssumption
<1>4. DOMAIN s = 1..Len(s) /\ Len(s) \in Nat
  OBVIOUS
<1>5. /\ bytes' \in [1..Len(s) -> Bytes]
      /\ \A i \in 1..Len(s) : i <= writer => bytes'[i] = s[i]
      /\ \A b \in 1..n : bytes'[writer + b] = <<k, b>>
  <2>1. bytes' = [i \in 1..Len(s) |-> IF i - writer \in 1..n THEN <<k, i - writer>> ELSE s[i]]
    BY <1>0, <1>4 DEF Put, Value
  <2>2. \A i \in 1..Len(s) : s[i] \in Bytes
    OBVIOUS
  <2>3. \A i \in 1..Len(s) : i - writer \in 1..n => <<k, i - writer>> \in Bytes
    BY <1>1, <1>4 DEF Bytes
  <2>4. \A b \in 1..n : writer + b \in 1..Len(s) /\ (writer + b) - writer = b
    BY <1>1, <1>4
  <2>5. \A i \in 1..Len(s) : i <= writer => ~(i - writer \in 1..n)
    BY <1>1, <1>4
  <2>6. bytes' \in [1..Len(s) -> Bytes]
    BY <2>1, <2>2, <2>3
  <2>7. \A i \in 1..Len(s) : i <= writer => bytes'[i] = s[i]
    BY <2>1, <2>5
  <2>8. \A b \in 1..n : bytes'[writer + b] = <<k, b>>
    BY <2>1, <2>4
  <2> QED
    BY <2>6, <2>7, <2>8
<1>6. bytes' \in Seq(Bytes) /\ Len(bytes') = Len(s)
  <2>1. \E m \in Nat : bytes' \in [1..m -> Bytes]
    BY <1>4, <1>5
  <2>2. bytes' \in Seq(Bytes)
    BY <2>1, SeqDef
  <2> QED
    BY <2>2, <1>4, <1>5
<1>7. BinaryTypeOK'
  BY <1>1, <1>2, <1>6
<1>8. start \in [1..k -> Nat] /\ start[1] = 0 /\ start[k] = writer
  BY <1>0 DEF Layout
<1> DEFINE f == [i \in 1..k + 1 |-> IF i <= k THEN start[i] ELSE writer + n]
<1> HIDE DEF f
<1>0a. PICK newStart : newStart = f
  OBVIOUS
<1>9. /\ newStart \in [1..k + 1 -> Nat]
      /\ \A i \in 1..k : newStart[i] = start[i]
      /\ newStart[k + 1] = writer + n
  BY <1>1, <1>8, <1>0a DEF f
<1>10. ASSUME NEW i \in 1..k
       PROVE  /\ newStart[i + 1] = newStart[i] + wrote'[i]
              /\ newStart[i + 1] <= writer'
              /\ \A b \in 1..wrote'[i] : bytes'[newStart[i] + b] = <<i, b>>
  <2>1. CASE i = k
    BY <2>1, <1>1, <1>2, <1>5, <1>8, <1>9
  <2>2. CASE i # k
    <3>1. i \in 1..k - 1 /\ i + 1 \in 1..k
      BY <2>2, <1>1
    <3>2. /\ start[i + 1] = start[i] + wrote[i] /\ start[i + 1] <= writer
          /\ \A b \in 1..wrote[i] : bytes[start[i] + b] = <<i, b>>
      BY <3>1, <1>1 DEF Layout
    <3>3. wrote'[i] = wrote[i] /\ newStart[i] = start[i] /\ newStart[i + 1] = start[i + 1]
      BY <3>1, <1>2, <1>9
    <3>4. start[i] \in Nat /\ wrote[i] \in Nat
      BY <3>1, <1>3, <1>8
    <3>5. \A b \in 1..wrote[i] : start[i] + b \in 1..writer /\ start[i] + b \in 1..Len(s)
      <4>1. start[i] + wrote[i] <= writer /\ writer <= Len(s)
        BY <3>2, <3>4, <1>1, <1>4
      <4> SUFFICES ASSUME NEW first \in Nat, NEW size \in Nat, first + size <= writer,
                          NEW b \in 1..size
                   PROVE  first + b \in 1..writer /\ first + b \in 1..Len(s)
        BY <3>4, <4>1
      <4> QED
        BY <4>1, <1>1, <1>4
    <3>6. \A b \in 1..wrote[i] : bytes'[start[i] + b] = bytes[start[i] + b]
      BY <3>5, <1>5
    <3>7. newStart[i + 1] <= writer'
      BY <3>2, <3>3, <3>4, <1>1
    <3> QED
      BY <3>2, <3>3, <3>6, <3>7
  <2> QED
    BY <2>1, <2>2
<1>11. newStart[1] = 0 /\ newStart[k + 1] = writer'
  BY <1>1, <1>8, <1>9
<1>12. \A i \in 1..k : \A b \in 1..wrote'[i] : bytes'[newStart[i] + b] = <<i, b>>
  BY <1>10
<1>13. \A i \in 1..k : newStart[i + 1] = newStart[i] + wrote'[i] /\ newStart[i + 1] <= writer'
  BY <1>10
<1>14. Layout(newStart)'
  BY <1>2, <1>9, <1>11, <1>12, <1>13 DEF Layout
<1> QED
  BY <1>7, <1>11, <1>14

LEMMA SliceProperties ==
  ASSUME NEW S, NEW s \in Seq(S), NEW m \in Nat, NEW n \in Nat, m + n <= Len(s)
  PROVE  /\ SubSeq(s, m + 1, m + n) \in Seq(S)
         /\ Len(SubSeq(s, m + 1, m + n)) = n
         /\ \A b \in 1..n : SubSeq(s, m + 1, m + n)[b] = s[m + b]
OBVIOUS

(* A value that is read where a value of its size was written is that      *)
(* value, and the reader goes on to the next one.                          *)
LEMMA ValueRead ==
  ASSUME BinaryTypeOK, NEW start, Layout(start), NEW i \in 1..Len(wrote),
         start[i] = reader
  PROVE  /\ SubSeq(bytes, reader + 1, reader + wrote[i]) = Value(i, wrote[i])
         /\ reader + wrote[i] = start[i + 1]
<1> USE DEF BinaryTypeOK
<1> DEFINE n == wrote[i]
           v == SubSeq(bytes, reader + 1, reader + n)
<1>1. n \in Nat /\ reader \in Nat /\ writer \in Nat
  <2>1. wrote[i] \in TypeSizes
    OBVIOUS
  <2> QED
    BY <2>1, BinaryAssumption
<1>2. /\ start[i + 1] = start[i] + n /\ start[i + 1] <= writer
      /\ \A b \in 1..n : bytes[start[i] + b] = <<i, b>>
  BY DEF Layout
<1> HIDE DEF n
<1>3. reader + n <= Len(bytes) /\ Len(bytes) \in Nat /\ bytes \in Seq(Bytes)
  BY <1>1, <1>2
<1>4. /\ v \in Seq(Bytes) /\ Len(v) = n
      /\ \A b \in 1..n : v[b] = bytes[reader + b]
  BY <1>1, <1>3, SliceProperties
<1> HIDE DEF v
<1>5. v = Value(i, n)
  <2>1. v = [b \in 1..n |-> v[b]]
    BY <1>4
  <2> QED
    BY <2>1, <1>2, <1>4 DEF Value
<1> QED
  BY <1>2, <1>5 DEF n, v

LEMMA BinaryInduction ==
  ASSUME BinaryInv, [BinaryNext]_binaryVars
  PROVE  BinaryInv'
<1>1. CASE UNCHANGED binaryVars
  BY <1>1 DEF binaryVars, BinaryInv, BinaryTypeOK, RoundTrip, Layout, SameTypes
<1>2. PICK start : Layout(start) /\ (SameTypes(Len(got)) => reader = start[Len(got) + 1])
  BY DEF BinaryInv
<1>3. /\ bytes \in Seq(Bytes) /\ writer \in Nat /\ writer <= Len(bytes) /\ Len(bytes) \in Nat
      /\ BinaryTypeOK /\ got \in Seq(Seq(Bytes)) /\ RoundTrip
  BY DEF BinaryInv, BinaryTypeOK
<1>4. ASSUME NEW n \in TypeSizes, NEW s \in Seq(Bytes), Len(s) >= writer + n, got = <<>>,
             \A i \in 1..writer : s[i] = bytes[i],
             bytes' = Put(s, writer, Value(Len(wrote) + 1, n)),
             writer' = writer + n, wrote' = Append(wrote, n),
             reader' = reader, got' = got
      PROVE  BinaryInv'
  <2>1. BinaryTypeOK' /\ \E newStart : Layout(newStart)' /\ newStart[1] = 0
    BY <1>2, <1>3, <1>4, LayoutExtended, Zenon
  <2>2. reader' = 0 /\ got' = <<>>
    BY <1>4 DEF BinaryInv
  <2>3. PICK newStart : Layout(newStart)' /\ newStart[1] = 0
    BY <2>1
  <2>4. got' \in Seq(Seq(Bytes)) /\ RoundTrip' /\ Len(got') = 0
    BY <2>2 DEF RoundTrip
  <2>5. reader' = newStart[Len(got') + 1]
    BY <2>2, <2>3, <2>4
  <2> QED
    BY <2>1, <2>2, <2>3, <2>4, <2>5 DEF BinaryInv
<1>5. ASSUME NEW n \in TypeSizes, Write(n)
      PROVE  BinaryInv'
  <2>1. CASE writer + n > Len(bytes)
    BY <2>1, <1>1, <1>5 DEF Write, binaryVars
  <2>2. CASE ~(writer + n > Len(bytes))
    <3>1. Len(bytes) >= writer + n
      BY <2>2, <1>3, BinaryAssumption
    <3> QED
      BY <3>1, <2>2, <1>3, <1>4, <1>5 DEF Write
  <2> QED
    BY <2>1, <2>2
<1>6. ASSUME NEW n \in TypeSizes, ExtensiveWrite(n)
      PROVE  BinaryInv'
  <2> DEFINE s == IF writer + n > Len(bytes)
                  THEN bytes \o Filled(writer + n - Len(bytes)) ELSE bytes
  <2>1. n \in Nat
    BY BinaryAssumption
  <2>2. s \in Seq(Bytes) /\ Len(s) >= writer + n /\ \A i \in 1..writer : s[i] = bytes[i]
    <3>1. CASE writer + n > Len(bytes)
      <4> DEFINE m == writer + n - Len(bytes)
      <4>1. m \in Nat /\ Len(bytes) + m = writer + n
        BY <3>1, <2>1, <1>3
      <4> HIDE DEF m
      <4>2. Filled(m) \in Seq(Bytes) /\ Len(Filled(m)) = m
        BY <4>1 DEF Filled, Bytes
      <4>3. /\ bytes \o Filled(m) \in Seq(Bytes)
            /\ Len(bytes \o Filled(m)) = Len(bytes) + m
            /\ \A i \in 1..Len(bytes) : (bytes \o Filled(m))[i] = bytes[i]
        <5> DEFINE t == Filled(m)
        <5> HIDE DEF t
        <5>1. /\ bytes \o t \in Seq(Bytes) /\ Len(bytes \o t) = Len(bytes) + Len(t)
              /\ \A i \in 1..Len(bytes) + Len(t) :
                   (bytes \o t)[i] = IF i <= Len(bytes) THEN bytes[i] ELSE t[i - Len(bytes)]
          BY <4>2, <1>3, ConcatProperties, Zenon DEF t
        <5> DEFINE c == bytes \o t
        <5> HIDE DEF c
        <5>2. \A i \in 1..Len(bytes) : i \in 1..Len(bytes) + m /\ i <= Len(bytes)
          BY <4>1, <1>3
        <5>3. c \in Seq(Bytes) /\ Len(c) = Len(bytes) + m /\ \A i \in 1..Len(bytes) : c[i] = bytes[i]
          BY <5>1, <5>2, <4>2, Zenon DEF c, t
        <5> QED
          BY <5>3 DEF c, t
      <4>4. s = bytes \o Filled(m)
        BY <3>1 DEF m
      <4> HIDE DEF s
      <4> QED
        BY <4>1, <4>3, <4>4, <1>3
    <3>2. CASE ~(writer + n > Len(bytes))
      BY <3>2, <2>1, <1>3
    <3> QED
      BY <3>1, <3>2
  <2>3. /\ got = <<>> /\ bytes' = Put(s, writer, Value(Len(wrote) + 1, n))
        /\ writer' = writer + n /\ wrote' = Append(wrote, n) /\ reader' = reader /\ got' = got
    BY <1>6 DEF ExtensiveWrite
  <2> HIDE DEF s
  <2> QED
    BY <2>2, <2>3, <1>4
<1>7. ASSUME NEW n \in TypeSizes, Read(n)
      PROVE  BinaryInv'
  <2>1. CASE reader + n > Len(bytes)
    BY <2>1, <1>1, <1>7 DEF Read, binaryVars
  <2>2. CASE ~(reader + n > Len(bytes))
    <3> DEFINE v == SubSeq(bytes, reader + 1, reader + n)
    <3>0. PICK g : g = Len(got) + 1
      OBVIOUS
    <3>1. /\ got' = Append(got, v) /\ reader' = reader + n
          /\ UNCHANGED <<bytes, writer, wrote>>
      BY <2>2, <1>7 DEF Read
    <3>2. n \in Nat /\ n # 0 /\ reader \in Nat /\ reader + n <= Len(bytes)
          /\ g \in Nat /\ g >= 1 /\ Len(got) = g - 1
      BY <2>2, <1>3, <3>0, BinaryAssumption DEF BinaryTypeOK
    <3>3. v \in Seq(Bytes) /\ Len(v) = n
      BY <3>2, <1>3
    <3> HIDE DEF v
    <3>4. /\ got' \in Seq(Seq(Bytes)) /\ Len(got') = g /\ got'[g] = v
          /\ \A i \in 1..g - 1 : got'[i] = got[i]
      BY <3>1, <3>2, <3>3, <1>3
    <3>5. BinaryTypeOK' /\ Layout(start)'
      <4>1. BinaryTypeOK'
        BY <3>1, <3>2, <1>3 DEF BinaryTypeOK
      <4> QED
        BY <4>1, <3>1, <1>2, Zenon DEF Layout
    <3>6. ASSUME SameTypes(g)'
          PROVE  v = Value(g, wrote[g]) /\ reader' = start[g + 1]
      <4>1. /\ g \in 1..Len(wrote) /\ wrote[g] = n
            /\ \A j \in 1..g - 1 : Len(got[j]) = wrote[j]
        BY <3>6, <3>1, <3>2, <3>3, <3>4, <1>3 DEF SameTypes, BinaryTypeOK
      <4>2. SameTypes(g - 1)
        BY <4>1, <3>2, <1>3 DEF SameTypes, BinaryTypeOK
      <4>3. reader = start[g]
        BY <4>2, <3>2, <1>2
      <4> QED
        <5>1. /\ SubSeq(bytes, reader + 1, reader + wrote[g]) = Value(g, wrote[g])
              /\ reader + wrote[g] = start[g + 1]
          BY <4>1, <4>3, <1>2, <1>3, ValueRead, Zenon
        <5> QED
          BY <5>1, <4>1, <3>1 DEF v
    <3>7. SameTypes(Len(got))' => reader' = start[Len(got') + 1]
      BY <3>4, <3>6
    <3>8. RoundTrip'
      <4> SUFFICES ASSUME NEW i \in DOMAIN got', i \in DOMAIN wrote,
                          \A j \in 1..i : Len(got'[j]) = wrote[j]
                   PROVE  got'[i] = Value(i, wrote[i])
        BY <3>1 DEF RoundTrip
      <4>1. i \in 1..g /\ i \in 1..Len(wrote) /\ Len(wrote) \in Nat
        BY <3>4, <1>3 DEF BinaryTypeOK
      <4>2. CASE i = g
        <5>1. SameTypes(g)'
          BY <4>1, <4>2, <3>1 DEF SameTypes
        <5> QED
          BY <5>1, <4>2, <3>4, <3>6
      <4>3. CASE i # g
        <5>1. i \in 1..g - 1 /\ i \in DOMAIN got /\ \A j \in 1..i : j \in 1..g - 1
          BY <4>1, <4>3, <3>2, <1>3
        <5>2. \A j \in 1..i : Len(got[j]) = wrote[j]
          BY <5>1, <3>4
        <5> QED
          BY <5>1, <5>2, <3>4, <1>3 DEF RoundTrip
      <4> QED
        BY <4>2, <4>3
    <3>9. got' # <<>>
      BY <3>2, <3>4
    <3> QED
      BY <3>4, <3>5, <3>7, <3>8, <3>9 DEF BinaryInv
  <2> QED
    BY <2>1, <2>2
<1> QED
  BY <1>1, <1>5, <1>6, <1>7 DEF BinaryNext

(* Whoever reads the types that were written gets the values that were     *)
(* written, with either writer: for all sets of types, lengths of the      *)
(* buffer and sequences of writes and reads, those that throw included.    *)
THEOREM RoundTripHolds == BinarySpec => []RoundTrip
<1>1. BinaryInit => BinaryInv
  <2> SUFFICES ASSUME BinaryInit PROVE BinaryInv
    OBVIOUS
  <2>1. PICK n \in 0..MaxLength : bytes = Filled(n)
    BY DEF BinaryInit
  <2>2. n \in Nat
    BY BinaryAssumption
  <2>3. bytes \in Seq(Bytes) /\ Len(bytes) = n
    BY <2>1, <2>2 DEF Filled, Bytes
  <2>4. BinaryTypeOK
    BY <2>2, <2>3 DEF BinaryInit, BinaryTypeOK
  <2>5. Layout([i \in 1..1 |-> 0]) /\ [i \in 1..1 |-> 0][Len(got) + 1] = reader
    BY DEF BinaryInit, Layout
  <2> QED
    BY <2>4, <2>5 DEF BinaryInit, BinaryInv, RoundTrip
<1>2. BinaryInv /\ [BinaryNext]_binaryVars => BinaryInv'
  BY BinaryInduction
<1>3. BinaryInv => RoundTrip
  BY DEF BinaryInv
<1> QED
  BY <1>1, <1>2, <1>3, PTL DEF BinarySpec

-----------------------------------------------------------------------------
(* SparseVec: the arrays cover the elements, and as long as nothing but    *)
(* the last id was erased, entry i of each array belongs to id i - 1.      *)
SparseEntry == [did : Nat \cup {Junk}, bit : BOOLEAN]
DenseEntry == [ind : Nat \cup {Junk}, val : Elem \cup {Junk}]

SparseTypeOK ==
  /\ sparse \in Seq(SparseEntry) /\ dense \in Seq(DenseEntry)
  /\ densize \in Nat /\ spsize = densize
  /\ densize <= Len(sparse) /\ densize <= Len(dense)

SparseAgrees ==
  /\ vec \in Seq(Elem) /\ Len(vec) = densize
  /\ \A i \in 1..densize : /\ sparse[i] = [did |-> i - 1, bit |-> TRUE]
                           /\ dense[i] = [ind |-> i - 1, val |-> vec[i]]
  /\ \A i \in densize + 1..Len(sparse) : ~sparse[i].bit

SparseInv == SparseTypeOK /\ (~holed => SparseAgrees)

(* A new block: Block times the same entry.                                *)
IsBlock(block, S) ==
  /\ block \in Seq(S) /\ Len(block) = Block
  /\ \A j \in 1..Block : block[j] = block[1]

(* An array with room for one more entry keeps those it has, and what is   *)
(* added to it are entries of the block.                                   *)
LEMMA WithBlockProperties ==
  ASSUME NEW S, NEW s \in Seq(S), NEW i \in Nat, i <= Len(s),
         NEW block, IsBlock(block, S)
  PROVE  /\ WithBlock(s, i, block) \in Seq(S)
         /\ Len(WithBlock(s, i, block)) >= i + 1
         /\ Len(WithBlock(s, i, block)) >= Len(s)
         /\ \A j \in 1..Len(WithBlock(s, i, block)) :
              /\ j <= Len(s) => WithBlock(s, i, block)[j] = s[j]
              /\ ~(j <= Len(s)) => WithBlock(s, i, block)[j] = block[1]
<1>1. Block \in Nat /\ Block >= 1 /\ Len(s) \in Nat
  BY SparseVecAssumption
<1>2. CASE Len(s) <= i
  <2>1. /\ s \o block \in Seq(S) /\ Len(s \o block) = Len(s) + Len(block)
        /\ \A j \in 1..Len(s) + Len(block) :
             (s \o block)[j] = IF j <= Len(s) THEN s[j] ELSE block[j - Len(s)]
    BY ConcatProperties, Zenon DEF IsBlock
  <2> DEFINE t == s \o block
  <2> HIDE DEF t
  <2>2. /\ t \in Seq(S) /\ Len(t) = Len(s) + Block
        /\ \A j \in 1..Len(s) + Block :
             t[j] = IF j <= Len(s) THEN s[j] ELSE block[j - Len(s)]
    BY <2>1, Zenon DEF IsBlock, t
  <2>3. Len(t) >= i + 1 /\ Len(t) >= Len(s)
    BY <2>2, <1>1, <1>2
  <2>4. \A j \in 1..Len(s) + Block : ~(j <= Len(s)) => j - Len(s) \in 1..Block
    BY <1>1
  <2>5. \A j \in 1..Len(t) : /\ j <= Len(s) => t[j] = s[j]
                             /\ ~(j <= Len(s)) => t[j] = block[1]
    BY <2>2, <2>4 DEF IsBlock
  <2>6. WithBlock(s, i, block) = t
    BY <1>2 DEF WithBlock, t
  <2> QED
    BY <2>2, <2>3, <2>5, <2>6
<1>3. CASE ~(Len(s) <= i)
  BY <1>1, <1>3 DEF WithBlock
<1> QED
  BY <1>2, <1>3

LEMMA PushBackPreserves ==
  ASSUME SparseInv, NEW v \in Elem, PushBack(v)
  PROVE  SparseInv'
<1>0. PICK n \in Nat : densize = n /\ n <= Len(sparse) /\ n <= Len(dense)
  BY DEF SparseInv, SparseTypeOK
<1>a. /\ n \in Nat /\ sparse \in Seq(SparseEntry) /\ n <= Len(sparse)
      /\ dense \in Seq(DenseEntry) /\ n <= Len(dense)
  BY <1>0 DEF SparseInv, SparseTypeOK
<1> DEFINE junkSparse == [did |-> Junk, bit |-> FALSE]
           junkDense == [ind |-> Junk, val |-> Junk]
           s == WithBlock(sparse, n, EmptySparse)
           d == WithBlock(dense, n, EmptyDense)
<1>1. /\ sparse' = [s EXCEPT ![n + 1] = [did |-> n, bit |-> TRUE]]
      /\ dense' = [d EXCEPT ![n + 1] = [ind |-> n, val |-> v]]
      /\ densize' = n + 1 /\ spsize' = n + 1
      /\ vec' = (IF holed THEN vec ELSE Append(vec, v))
      /\ holed' = holed
  BY <1>0 DEF PushBack, Emplaced, DensePushed, SparseInv, SparseTypeOK
<1>2. /\ EmptySparse[1] = junkSparse /\ IsBlock(EmptySparse, SparseEntry)
      /\ EmptyDense[1] = junkDense /\ IsBlock(EmptyDense, DenseEntry)
  <2>1. junkSparse \in SparseEntry /\ junkDense \in DenseEntry
        /\ Block \in Nat /\ Block >= 1
    BY SparseVecAssumption DEF SparseEntry, DenseEntry
  <2>2. EmptySparse = [j \in 1..Block |-> junkSparse] /\ EmptyDense = [j \in 1..Block |-> junkDense]
    BY DEF EmptySparse, EmptyDense
  <2> HIDE DEF junkSparse, junkDense
  <2> QED
    BY <2>1, <2>2 DEF IsBlock
<1> HIDE DEF junkSparse, junkDense
<1>3. /\ s \in Seq(SparseEntry) /\ Len(s) >= n + 1 /\ Len(s) >= Len(sparse)
      /\ \A j \in 1..Len(s) : /\ j <= Len(sparse) => s[j] = sparse[j]
                              /\ ~(j <= Len(sparse)) => s[j] = EmptySparse[1]
  <2>1. IsBlock(EmptySparse, SparseEntry)
    BY <1>2
  <2>2. /\ s \in Seq(SparseEntry)
        /\ Len(s) >= n + 1
        /\ Len(s) >= Len(sparse)
    BY <2>1, <1>a, WithBlockProperties
  <2>3. \A j \in 1..Len(s) : j <= Len(sparse) => s[j] = sparse[j]
    BY <2>1, <1>a, WithBlockProperties
  <2>4. \A j \in 1..Len(s) : ~(j <= Len(sparse)) => s[j] = EmptySparse[1]
    BY <2>1, <1>a, WithBlockProperties
  <2> QED
    BY <2>2, <2>3, <2>4
<1>4. /\ d \in Seq(DenseEntry) /\ Len(d) >= n + 1 /\ Len(d) >= Len(dense)
      /\ \A j \in 1..Len(d) : /\ j <= Len(dense) => d[j] = dense[j]
                              /\ ~(j <= Len(dense)) => d[j] = EmptyDense[1]
  <2>1. IsBlock(EmptyDense, DenseEntry)
    BY <1>2
  <2>2. /\ d \in Seq(DenseEntry)
        /\ Len(d) >= n + 1
        /\ Len(d) >= Len(dense)
    BY <2>1, <1>a, WithBlockProperties
  <2>3. \A j \in 1..Len(d) : j <= Len(dense) => d[j] = dense[j]
    BY <2>1, <1>a, WithBlockProperties
  <2>4. \A j \in 1..Len(d) : ~(j <= Len(dense)) => d[j] = EmptyDense[1]
    BY <2>1, <1>a, WithBlockProperties
  <2> QED
    BY <2>2, <2>3, <2>4
<1> HIDE DEF s, d
<1>5. [did |-> n, bit |-> TRUE] \in SparseEntry /\ [ind |-> n, val |-> v] \in DenseEntry
  BY DEF SparseEntry, DenseEntry
<1>6. /\ sparse' \in Seq(SparseEntry) /\ Len(sparse') = Len(s)
      /\ \A j \in 1..Len(s) : sparse'[j] = IF j = n + 1 THEN [did |-> n, bit |-> TRUE] ELSE s[j]
  BY <1>1, <1>3, <1>5
<1>7. /\ dense' \in Seq(DenseEntry) /\ Len(dense') = Len(d)
      /\ \A j \in 1..Len(d) : dense'[j] = IF j = n + 1 THEN [ind |-> n, val |-> v] ELSE d[j]
  BY <1>1, <1>4, <1>5
<1>8. SparseTypeOK'
  BY <1>1, <1>3, <1>4, <1>6, <1>7 DEF SparseTypeOK
<1>9. ASSUME ~holed'
      PROVE  SparseAgrees'
  <2>1. SparseAgrees /\ vec' = Append(vec, v)
    BY <1>1, <1>9 DEF SparseInv
  <2>2. /\ vec \in Seq(Elem) /\ Len(vec) = n
        /\ \A i \in 1..n : /\ sparse[i] = [did |-> i - 1, bit |-> TRUE]
                           /\ dense[i] = [ind |-> i - 1, val |-> vec[i]]
        /\ \A i \in n + 1..Len(sparse) : ~sparse[i].bit
    BY <2>1, <1>0 DEF SparseAgrees
  <2>3. /\ vec' \in Seq(Elem) /\ Len(vec') = n + 1
        /\ \A i \in 1..n : vec'[i] = vec[i]
        /\ vec'[n + 1] = v
    BY <2>1, <2>2
  <2>4. ASSUME NEW i \in 1..n + 1
        PROVE  /\ sparse'[i] = [did |-> i - 1, bit |-> TRUE]
               /\ dense'[i] = [ind |-> i - 1, val |-> vec'[i]]
    <3>1. i \in 1..Len(s) /\ i \in 1..Len(d)
      BY <1>3, <1>4
    <3>2. CASE i = n + 1
      <4>1. sparse'[n + 1] = [did |-> n, bit |-> TRUE] /\ dense'[n + 1] = [ind |-> n, val |-> v]
        BY <3>1, <3>2, <1>6, <1>7
      <4>2. i - 1 = n
        BY <3>2
      <4> QED
        BY <3>2, <4>1, <4>2, <2>3
    <3>3. CASE i # n + 1
      <4>1. i \in 1..n /\ i <= Len(sparse) /\ i <= Len(dense)
        BY <3>3, <1>0
      <4>2. sparse'[i] = sparse[i] /\ dense'[i] = dense[i] /\ vec'[i] = vec[i]
        BY <3>1, <3>3, <4>1, <1>3, <1>4, <1>6, <1>7, <2>3
      <4> QED
        BY <4>1, <4>2, <2>2
    <3> QED
      BY <3>2, <3>3
  <2>5. ASSUME NEW i \in n + 2..Len(s)
        PROVE  ~sparse'[i].bit
    <3>1. i \in 1..Len(s) /\ i # n + 1
      BY <1>3
    <3>2. sparse'[i] = s[i]
      BY <3>1, <1>6
    <3>3. CASE i <= Len(sparse)
      <4>1. i \in n + 1..Len(sparse)
        BY <3>3, <1>0
      <4> QED
        BY <3>1, <3>2, <3>3, <4>1, <1>3, <2>2
    <3>4. CASE ~(i <= Len(sparse))
      BY <3>1, <3>2, <3>4, <1>2, <1>3 DEF junkSparse
    <3> QED
      BY <3>3, <3>4
  <2>6. (n + 1) + 1 = n + 2
    BY <1>0
  <2> QED
    BY <2>3, <2>4, <2>5, <2>6, <1>1, <1>6 DEF SparseAgrees
<1> QED
  BY <1>8, <1>9 DEF SparseInv

LEMMA PopBackPreserves ==
  ASSUME SparseInv, PopBack
  PROVE  SparseInv'
<1>0. PICK n \in Nat : densize = n /\ n >= 1 /\ n <= Len(sparse) /\ n <= Len(dense)
  BY DEF SparseInv, SparseTypeOK, PopBack
<1> DEFINE junk == [did |-> Junk, bit |-> FALSE]
<1>1. HasSparse(n - 1) /\ (n - 1) + 1 = n /\ n \in 1..Len(sparse)
  BY <1>0 DEF HasSparse, SparseInv, SparseTypeOK
<1>2. /\ sparse' = [sparse EXCEPT ![n] = junk]
      /\ dense' = dense /\ densize' = n - 1 /\ spsize' = n - 1
      /\ vec' = (IF holed THEN vec ELSE Front(vec)) /\ holed' = holed
  BY <1>0, <1>1 DEF PopBack, Erased, SparseInv, SparseTypeOK
<1>3. junk \in SparseEntry /\ junk.bit = FALSE
  BY DEF SparseEntry
<1> HIDE DEF junk
<1>4. sparse \in Seq(SparseEntry) /\ dense \in Seq(DenseEntry)
  BY DEF SparseInv, SparseTypeOK
<1>5. /\ sparse' \in Seq(SparseEntry) /\ Len(sparse') = Len(sparse)
      /\ \A j \in 1..Len(sparse) : j # n => sparse'[j] = sparse[j]
      /\ sparse'[n] = junk
  BY <1>1, <1>2, <1>3, <1>4
<1>6. SparseTypeOK'
  BY <1>0, <1>2, <1>4, <1>5 DEF SparseTypeOK
<1>7. ASSUME ~holed'
      PROVE  SparseAgrees'
  <2>1. SparseAgrees /\ vec' = Front(vec)
    BY <1>2, <1>7 DEF SparseInv
  <2>2. /\ vec \in Seq(Elem) /\ Len(vec) = n
        /\ \A i \in 1..n : /\ sparse[i] = [did |-> i - 1, bit |-> TRUE]
                           /\ dense[i] = [ind |-> i - 1, val |-> vec[i]]
        /\ \A i \in n + 1..Len(sparse) : ~sparse[i].bit
    BY <2>1, <1>0 DEF SparseAgrees
  <2>3. /\ vec' \in Seq(Elem) /\ Len(vec') = n - 1
        /\ \A i \in 1..n - 1 : vec'[i] = vec[i]
    <3>1. vec' = SubSeq(vec, 1, n - 1)
      BY <2>1, <2>2 DEF Front
    <3> QED
      BY <3>1, <2>2, <1>0
  <2>4. ASSUME NEW i \in 1..n - 1
        PROVE  /\ sparse'[i] = [did |-> i - 1, bit |-> TRUE]
               /\ dense'[i] = [ind |-> i - 1, val |-> vec'[i]]
    <3>1. i \in 1..n /\ i \in 1..Len(sparse) /\ i # n
      BY <1>0
    <3>2. sparse'[i] = sparse[i] /\ dense'[i] = dense[i] /\ vec'[i] = vec[i]
      BY <3>1, <1>2, <1>5, <2>3
    <3> QED
      BY <3>1, <3>2, <2>2
  <2>5. ASSUME NEW i \in n..Len(sparse)
        PROVE  ~sparse'[i].bit
    <3>1. CASE i = n
      BY <3>1, <1>3, <1>5
    <3>2. CASE i # n
      <4>1. i \in n + 1..Len(sparse) /\ i \in 1..Len(sparse)
        BY <3>2, <1>0
      <4> QED
        BY <3>2, <4>1, <1>5, <2>2
    <3> QED
      BY <3>1, <3>2
  <2>6. (n - 1) + 1 = n
    BY <1>0
  <2> QED
    BY <2>3, <2>4, <2>5, <2>6, <1>2, <1>5 DEF SparseAgrees
<1> QED
  BY <1>6, <1>7 DEF SparseInv

(* Whatever an erase in the middle overwrites, the arrays keep their       *)
(* lengths, and both sizes are one less.                                   *)
LEMMA ErasePreservesTypes ==
  ASSUME SparseInv, NEW id \in 0..MaxIds, Erase(id)
  PROVE  SparseInv'
<1>1. holed'
  BY DEF Erase
<1>2. SparseTypeOK
  BY DEF SparseInv
<1> DEFINE moved == IF densize < Len(dense) THEN dense[densize + 1].ind ELSE Junk
           vain == id >= Len(dense) \/ moved = Junk \/ densize = 0
<1>3. CASE vain
  <2>1. UNCHANGED <<sparse, dense, densize, spsize>>
    BY <1>3 DEF Erase
  <2> QED
    BY <2>1, <1>1, <1>2 DEF SparseInv, SparseTypeOK
<1>4. CASE ~vain
  <2>1. /\ sparse' = [Erased(id) EXCEPT ![moved + 1].did = Junk]
        /\ dense' = [dense EXCEPT ![id + 1] = dense[densize + 1]]
        /\ densize' = densize - 1 /\ spsize' = spsize - 1
    BY <1>4 DEF Erase
  <2>2. /\ densize \in Nat /\ densize >= 1 /\ densize < Len(dense) /\ Len(dense) \in Nat
        /\ sparse \in Seq(SparseEntry) /\ dense \in Seq(DenseEntry)
        /\ spsize = densize /\ densize <= Len(sparse)
    BY <1>2, <1>4 DEF SparseTypeOK
  <2> HIDE DEF moved
  <2> DEFINE junk == [did |-> Junk, bit |-> FALSE]
             e == Erased(id)
  <2>3. e \in Seq(SparseEntry) /\ Len(e) = Len(sparse)
    <3>1. junk \in SparseEntry /\ e = [sparse EXCEPT ![id + 1] = junk]
      BY DEF SparseEntry, Erased
    <3>2. id + 1 \in 1..Len(sparse)
      BY <2>2 DEF Erase, HasSparse
    <3> HIDE DEF junk, e
    <3> QED
      BY <3>1, <3>2, <2>2
  <2> HIDE DEF e
  <2>4. sparse' \in Seq(SparseEntry) /\ Len(sparse') = Len(sparse)
    <3>1. CASE moved + 1 \in 1..Len(e)
      <4>1. e[moved + 1] \in SparseEntry
        BY <3>1, <2>3
      <4> DEFINE f == [e[moved + 1] EXCEPT !.did = Junk]
      <4>2. f \in SparseEntry
        BY <4>1 DEF SparseEntry
      <4>3. sparse' = [e EXCEPT ![moved + 1] = f]
        BY <2>1 DEF e
      <4> HIDE DEF f
      <4> QED
        BY <3>1, <4>2, <4>3, <2>3
    <3>2. CASE ~(moved + 1 \in 1..Len(e))
      <4>1. sparse' = [e EXCEPT ![moved + 1] = [e[moved + 1] EXCEPT !.did = Junk]]
        BY <2>1 DEF e
      <4>2. sparse' = e
        BY <4>1, <3>2, <2>3
      <4> QED
        BY <4>2, <2>3
    <3> QED
      BY <3>1, <3>2
  <2>5. dense' \in Seq(DenseEntry) /\ Len(dense') = Len(dense)
    <3>1. dense[densize + 1] \in DenseEntry
      BY <2>2
    <3>2. id + 1 \in 1..Len(dense)
      BY <1>4, <2>2, SparseVecAssumption
    <3> QED
      BY <3>1, <3>2, <2>1, <2>2
  <2> QED
    BY <2>1, <2>2, <2>4, <2>5, <1>1 DEF SparseInv, SparseTypeOK
<1> QED
  BY <1>3, <1>4

LEMMA SetAtPreserves ==
  ASSUME SparseInv, NEW id \in 0..MaxIds, NEW v \in Elem, SetAt(id, v)
  PROVE  SparseInv'
<1> DEFINE did == sparse[id + 1].did
<1>1. /\ id \in Nat /\ id + 1 \in 1..Len(sparse) /\ sparse[id + 1].bit
      /\ UNCHANGED <<sparse, densize, spsize, holed>>
  BY SparseVecAssumption DEF SetAt, HasSparse, SparseInv, SparseTypeOK
<1>2. /\ densize \in Nat /\ spsize = densize /\ densize <= Len(sparse) /\ densize <= Len(dense)
      /\ sparse \in Seq(SparseEntry) /\ dense \in Seq(DenseEntry)
  BY DEF SparseInv, SparseTypeOK
<1>3. ~holed => /\ vec \in Seq(Elem) /\ Len(vec) = densize
                /\ id + 1 \in 1..densize /\ did = id
                /\ \A i \in 1..densize : /\ sparse[i] = [did |-> i - 1, bit |-> TRUE]
                                         /\ dense[i] = [ind |-> i - 1, val |-> vec[i]]
                /\ \A i \in densize + 1..Len(sparse) : ~sparse[i].bit
  <2> SUFFICES ASSUME ~holed PROVE SparseAgrees /\ id + 1 \in 1..densize /\ did = id
    BY DEF SparseAgrees
  <2>1. SparseAgrees
    BY DEF SparseInv
  <2>2. id + 1 \in 1..densize
    BY <2>1, <1>1, <1>2 DEF SparseAgrees
  <2>3. sparse[id + 1] = [did |-> (id + 1) - 1, bit |-> TRUE]
    BY <2>1, <2>2 DEF SparseAgrees
  <2> QED
    BY <2>1, <2>2, <2>3, <1>1
<1>4. did \in Nat \cup {Junk}
  <2>1. sparse[id + 1] \in SparseEntry
    BY <1>1, <1>2
  <2> QED
    BY <2>1 DEF SparseEntry
<1>5. CASE did = Junk
  <2>1. UNCHANGED <<dense, vec>>
    BY <1>5 DEF SetAt
  <2> QED
    BY <2>1, <1>1 DEF SparseInv, SparseTypeOK, SparseAgrees
<1>6. CASE did # Junk
  <2>1. /\ dense' = [dense EXCEPT ![did + 1].val = v]
        /\ vec' = (IF holed THEN vec ELSE [vec EXCEPT ![id + 1] = v])
    BY <1>6 DEF SetAt
  <2>2. did \in Nat
    BY <1>4, <1>6
  <2> HIDE DEF did
  <2>3. /\ dense' \in Seq(DenseEntry) /\ Len(dense') = Len(dense)
        /\ \A i \in 1..Len(dense) : dense'[i].ind = dense[i].ind
        /\ \A i \in 1..Len(dense) : dense'[i] = IF i = did + 1 THEN [ind |-> dense[i].ind, val |-> v]
                                                               ELSE dense[i]
    <3> DEFINE e == [ind |-> dense[did + 1].ind, val |-> v]
    <3>1. dense' = [dense EXCEPT ![did + 1] = [dense[did + 1] EXCEPT !.val = v]]
      BY <2>1
    <3>2. CASE did + 1 \in 1..Len(dense)
      <4>1. dense[did + 1] \in DenseEntry
        BY <3>2, <1>2
      <4>2. e \in DenseEntry /\ e = [dense[did + 1] EXCEPT !.val = v]
        BY <4>1 DEF DenseEntry
      <4>3. e.ind = dense[did + 1].ind
        OBVIOUS
      <4>4. dense' = [dense EXCEPT ![did + 1] = e]
        BY <3>1, <4>2
      <4> HIDE DEF e
      <4>5. dense' \in Seq(DenseEntry) /\ Len(dense') = Len(dense)
            /\ \A i \in 1..Len(dense) : dense'[i] = IF i = did + 1 THEN e ELSE dense[i]
        BY <4>2, <4>4, <3>2, <1>2
      <4> QED
        BY <4>3, <4>5 DEF e
    <3>3. CASE ~(did + 1 \in 1..Len(dense))
      <4>1. dense' = dense
        BY <3>1, <3>3, <1>2
      <4> QED
        BY <4>1, <3>3, <1>2
    <3> QED
      BY <3>2, <3>3
  <2>4. SparseTypeOK'
    BY <2>3, <1>1, <1>2 DEF SparseTypeOK
  <2>5. ASSUME ~holed'
        PROVE  SparseAgrees'
    <3>1. /\ vec' = [vec EXCEPT ![id + 1] = v] /\ did = id /\ id + 1 \in 1..densize
          /\ vec \in Seq(Elem) /\ Len(vec) = densize
          /\ \A i \in 1..densize : /\ sparse[i] = [did |-> i - 1, bit |-> TRUE]
                                   /\ dense[i] = [ind |-> i - 1, val |-> vec[i]]
          /\ \A i \in densize + 1..Len(sparse) : ~sparse[i].bit
      BY <2>1, <2>5, <1>1, <1>3
    <3>2. /\ vec' \in Seq(Elem) /\ Len(vec') = densize
          /\ \A i \in 1..densize : vec'[i] = IF i = id + 1 THEN v ELSE vec[i]
      BY <3>1
    <3>3. ASSUME NEW i \in 1..densize
          PROVE  dense'[i] = [ind |-> i - 1, val |-> vec'[i]]
      <4>0. i \in 1..Len(dense)
        BY <1>2
      <4>1. i \in 1..Len(dense) /\ dense[i] = [ind |-> i - 1, val |-> vec[i]]
        BY <4>0, <3>1, Zenon
      <4>2. CASE i = id + 1
        BY <4>1, <4>2, <3>1, <3>2, <2>3
      <4>3. CASE i # id + 1
        BY <4>1, <4>3, <3>1, <3>2, <2>3
      <4> QED
        BY <4>2, <4>3
    <3> QED
      BY <3>1, <3>2, <3>3, <1>1 DEF SparseAgrees
  <2> QED
    BY <2>4, <2>5 DEF SparseInv
<1> QED
  BY <1>5, <1>6

LEMMA SparseInduction ==
  ASSUME SparseInv, [SparseNext]_sparseVars
  PROVE  SparseInv'
<1>1. CASE UNCHANGED sparseVars
  BY <1>1 DEF sparseVars, SparseInv, SparseTypeOK, SparseAgrees
<1>2. CASE SparseMove
  BY <1>2 DEF SparseMove, SparseInv, SparseTypeOK, SparseAgrees
<1>3. ASSUME NEW id \in 0..MaxIds, EraseInVain(id)
      PROVE  SparseInv'
  BY <1>1, <1>3 DEF EraseInVain
<1> QED
  BY <1>1, <1>2, <1>3, PushBackPreserves, PopBackPreserves, ErasePreservesTypes, SetAtPreserves,
     Zenon DEF SparseNext

(* The full blocks and the rest of the last one are the elements.          *)
LEMMA ForEachVisitsAll ==
  ASSUME SparseInv
  PROVE  /\ ForEach \in Seq(DenseEntry) /\ Len(ForEach) = densize
         /\ \A i \in 1..densize : ForEach[i] = dense[i]
<1>1. /\ densize \in Nat /\ dense \in Seq(DenseEntry) /\ densize <= Len(dense)
      /\ Block \in Nat /\ Block >= 1
  BY SparseVecAssumption DEF SparseInv, SparseTypeOK
<1> DEFINE m == Blocks * Block
<1>2. m \in Nat /\ m <= densize
  BY <1>1 DEF Blocks
<1>3. Rest = densize - m
  BY DEF Rest
<1> HIDE DEF m
<1>4. Rest \in Nat /\ m + Rest = densize /\ m + Rest <= Len(dense)
  BY <1>1, <1>2, <1>3
<1> DEFINE a == SubSeq(dense, 1, m)
           b == SubSeq(dense, m + 1, m + Rest)
<1>5. a \in Seq(DenseEntry) /\ Len(a) = m /\ \A i \in 1..m : a[i] = dense[i]
  BY <1>1, <1>2
<1>6. b \in Seq(DenseEntry) /\ Len(b) = Rest /\ \A i \in 1..Rest : b[i] = dense[m + i]
  BY <1>1, <1>2, <1>4, SliceProperties
<1>7. ForEach = IF Rest = 0 THEN a \o <<>> ELSE a \o b
  BY DEF ForEach, m
<1> HIDE DEF a, b
<1>8. CASE Rest = 0
  <2>1. ForEach = a
    BY <1>5, <1>7, <1>8
  <2> QED
    BY <2>1, <1>4, <1>5, <1>8, <1>2, <1>1
<1>9. CASE Rest # 0
  <2> DEFINE c == a \o b
  <2>1. /\ c \in Seq(DenseEntry) /\ Len(c) = Len(a) + Len(b)
        /\ \A i \in 1..Len(a) + Len(b) :
             c[i] = IF i <= Len(a) THEN a[i] ELSE b[i - Len(a)]
    BY <1>5, <1>6, ConcatProperties, Zenon
  <2> HIDE DEF c
  <2>2. c \in Seq(DenseEntry) /\ Len(c) = densize
        /\ \A i \in 1..densize : c[i] = IF i <= m THEN a[i] ELSE b[i - m]
    BY <2>1, <1>1, <1>2, <1>4, <1>5, <1>6
  <2>3. ASSUME NEW i \in 1..densize
        PROVE  c[i] = dense[i]
    <3>1. CASE i <= m
      BY <3>1, <2>2, <1>2, <1>5
    <3>2. CASE ~(i <= m)
      <4>1. i - m \in 1..Rest /\ m + (i - m) = i
        BY <3>2, <1>1, <1>2, <1>4
      <4> QED
        BY <3>2, <4>1, <2>2, <1>6
    <3> QED
      BY <3>1, <3>2
  <2> QED
    BY <2>2, <2>3, <1>7, <1>9 DEF c
<1> QED
  BY <1>8, <1>9

(* Sizes agree in every defined state, and as long as only the last id is  *)
(* erased a SparseVec is a vector: for all elements, sizes of blocks and   *)
(* sequences of calls.                                                     *)
THEOREM SparseIsVectorHolds == SparseSpec => []SparseIsVector
<1>1. SparseInit => SparseInv
  BY DEF SparseInit, SparseInv, SparseTypeOK, SparseAgrees
<1>2. SparseInv /\ [SparseNext]_sparseVars => SparseInv'
  BY SparseInduction
<1>3. ASSUME SparseInv
      PROVE  SparseIsVector
  <2>1. densize = spsize
    BY <1>3 DEF SparseInv, SparseTypeOK
  <2> SUFFICES ASSUME ~holed
               PROVE  /\ \A id \in 0..MaxIds : ContainsId(id) <=> id < Len(vec)
                      /\ \A id \in 0..Len(vec) - 1 : ElemAt(id) = vec[id + 1]
                      /\ ForEach = [i \in 1..Len(vec) |-> [ind |-> i - 1, val |-> vec[i]]]
    BY <2>1 DEF SparseIsVector
  <2>2. /\ vec \in Seq(Elem) /\ Len(vec) = densize /\ densize \in Nat
        /\ densize <= Len(sparse) /\ Len(sparse) \in Nat
        /\ \A i \in 1..densize : /\ sparse[i] = [did |-> i - 1, bit |-> TRUE]
                                 /\ dense[i] = [ind |-> i - 1, val |-> vec[i]]
        /\ \A i \in densize + 1..Len(sparse) : ~sparse[i].bit
    BY <1>3 DEF SparseInv, SparseTypeOK, SparseAgrees
  <2>3. ASSUME NEW id \in 0..MaxIds
        PROVE  ContainsId(id) <=> id < Len(vec)
    <3>1. id \in Nat
      BY SparseVecAssumption
    <3>2. CASE id < densize
      <4>1. id + 1 \in 1..densize /\ id \in 0..Len(sparse) - 1
        BY <3>1, <3>2, <2>2
      <4>2. sparse[id + 1] = [did |-> (id + 1) - 1, bit |-> TRUE]
        BY <4>1, <2>2, Zenon
      <4>3. sparse[id + 1].bit
        BY <4>2
      <4> QED
        BY <3>2, <4>1, <4>3, <2>2 DEF ContainsId, HasSparse
    <3>3. CASE ~(id < densize)
      <4>1. id \in 0..Len(sparse) - 1 => id + 1 \in densize + 1..Len(sparse)
        BY <3>1, <3>3, <2>2
      <4> QED
        BY <3>3, <4>1, <2>2 DEF ContainsId, HasSparse
    <3> QED
      BY <3>2, <3>3
  <2>4. ASSUME NEW id \in 0..Len(vec) - 1
        PROVE  ElemAt(id) = vec[id + 1]
    <3>1. id \in Nat /\ id + 1 \in 1..densize /\ (id + 1) - 1 = id
      BY <2>2
    <3>2. /\ sparse[id + 1] = [did |-> (id + 1) - 1, bit |-> TRUE]
          /\ dense[id + 1] = [ind |-> (id + 1) - 1, val |-> vec[id + 1]]
      BY <3>1, <2>2, Zenon
    <3>3. sparse[id + 1].did = id /\ dense[id + 1].val = vec[id + 1]
      BY <3>1, <3>2
    <3> QED
      BY <3>3 DEF ElemAt
  <2>5. ForEach = [i \in 1..Len(vec) |-> [ind |-> i - 1, val |-> vec[i]]]
    <3>1. ForEach = [i \in 1..densize |-> dense[i]]
      BY <1>3, <2>2, ForEachVisitsAll
    <3> QED
      BY <3>1, <2>2
  <2> QED
    BY <2>3, <2>4, <2>5
<1> QED
  BY <1>1, <1>2, <1>3, PTL DEF SparseSpec
=============================================================================
