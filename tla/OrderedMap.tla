----------------------------- MODULE OrderedMap -----------------------------
(***************************************************************************)
(* condense/OrderedMap.h: a map that remembers the order of insertion.     *)
(* order is the vector of pairs, unomap the hash index from a key to its   *)
(* position (counted from 1 here).  Every erase leaves one of the two      *)
(* behind: by key, unomap keeps the key and all positions; by iterator,    *)
(* unomap keeps the positions of the elements that moved.                  *)
(* insert_or_assign is not part of the model: it assigns a value to a      *)
(* pair, which does not compile.                                           *)
(***************************************************************************)
EXTENDS Integers, Sequences, SequencesExt

CONSTANTS OrderKey, OrderVal

VARIABLES
  unomap, order,
  stale,      \* history: an erase has left unomap behind order
  inserted    \* history: the pairs inserted and not erased, in order

orderVars == <<unomap, order, stale, inserted>>

KV(k, v) == [first |-> k, second |-> v]
Emplace(m, k, id) == [j \in DOMAIN m \cup {k} |-> IF j = k THEN id ELSE m[j]]
Dropped(m, k) == [j \in DOMAIN m \ {k} |-> m[j]]

(* The pairs of s, of different keys, without that of key k.               *)
NotKey(s, k) ==
  IF \E i \in DOMAIN s : s[i].first = k
  THEN RemoveAt(s, CHOOSE i \in DOMAIN s : s[i].first = k) ELSE s

OrderInit ==
  /\ unomap = [k \in {} |-> 0] /\ order = <<>>
  /\ inserted = <<>> /\ stale = FALSE

(* Faulty variant: unomap is not asked whether the key is there.           *)
InsertAlways(k, v) ==
  /\ unomap' = Emplace(unomap, k, Len(order) + 1)
  /\ order' = Append(order, KV(k, v))
  /\ inserted' = IF k \in DOMAIN unomap THEN inserted ELSE Append(inserted, KV(k, v))
  /\ UNCHANGED stale

OrderInsert(k, v) ==
  IF k \in DOMAIN unomap THEN UNCHANGED orderVars
  ELSE /\ unomap' = Emplace(unomap, k, Len(order) + 1)
       /\ order' = Append(order, KV(k, v))
       /\ inserted' = Append(inserted, KV(k, v))
       /\ UNCHANGED stale

(* at(k) = v, which ends the program for a key that is not in unomap, and  *)
(* writes the value of another key if the index is stale; m[id] = v.       *)
AssignAt(i, v) ==
  /\ i \in 1..Len(order)
  /\ order' = [order EXCEPT ![i].second = v]
  /\ inserted' = [j \in DOMAIN inserted |->
       IF inserted[j].first = order[i].first THEN KV(order[i].first, v) ELSE inserted[j]]
  /\ UNCHANGED <<unomap, stale>>

AssignKey(k, v) == k \in DOMAIN unomap /\ AssignAt(unomap[k], v)

(* erase(k): the vector only.  Beyond its end the call is undefined.       *)
EraseKey(k) ==
  /\ k \in DOMAIN unomap /\ unomap[k] <= Len(order)
  /\ order' = RemoveAt(order, unomap[k])
  /\ inserted' = NotKey(inserted, k) /\ stale' = TRUE
  /\ UNCHANGED unomap

(* The last element moves to position i, and the vector is one shorter.    *)
SwappedBack(i) == Front([order EXCEPT ![i] = Last(order)])

BackSwapEraseKey(k) ==
  /\ k \in DOMAIN unomap /\ unomap[k] <= Len(order)
  /\ order' = SwappedBack(unomap[k])
  /\ inserted' = NotKey(inserted, k) /\ stale' = TRUE
  /\ UNCHANGED unomap

(* Faulty variant: unomap forgets the last element, not the erased one.    *)
EraseIterLast(i) ==
  /\ i \in 1..Len(order)
  /\ unomap' = Dropped(unomap, Last(order).first)
  /\ order' = RemoveAt(order, i)
  /\ inserted' = NotKey(inserted, order[i].first)
  /\ stale' = (stale \/ i < Len(order))

EraseIter(i) ==
  /\ i \in 1..Len(order)
  /\ unomap' = Dropped(unomap, order[i].first)
  /\ order' = RemoveAt(order, i)
  /\ inserted' = NotKey(inserted, order[i].first)
  /\ stale' = (stale \/ i < Len(order))

BackSwapEraseIter(i) ==
  /\ i \in 1..Len(order)
  /\ unomap' = Dropped(unomap, order[i].first)
  /\ order' = SwappedBack(i)
  /\ inserted' = NotKey(inserted, order[i].first)
  /\ stale' = (stale \/ i < Len(order))

OrderNext ==
  \/ \E k \in OrderKey :
       EraseKey(k) \/ BackSwapEraseKey(k)
         \/ \E v \in OrderVal : OrderInsert(k, v) \/ AssignKey(k, v)
  \/ \E i \in 1..Len(order) :
       EraseIter(i) \/ BackSwapEraseIter(i) \/ \E v \in OrderVal : AssignAt(i, v)

OrderSpec == OrderInit /\ [][OrderNext]_orderVars

-----------------------------------------------------------------------------
(* Reading: find, at and operator[].                                       *)
HasKey(k) == k \in DOMAIN unomap
ValueOf(k) == order[unomap[k]].second

-----------------------------------------------------------------------------
(* Properties                                                              *)

(* Until an erase leaves it stale, the index finds exactly the keys in the *)
(* vector, each with the value it was inserted with or last assigned, and  *)
(* the vector is in the order of insertion.                                *)
OrderIndexed == ~stale =>
  /\ order = inserted
  /\ DOMAIN unomap = {order[i].first : i \in DOMAIN order}
  /\ \A i \in DOMAIN order : HasKey(order[i].first) /\ ValueOf(order[i].first) = order[i].second

(* However stale, the index keeps every key of the vector (those that      *)
(* were erased by key are kept on top of them, and cannot be inserted any  *)
(* more), so no key gets into the vector twice.                            *)
OrderKeysOnce ==
  /\ \A i \in DOMAIN order : order[i].first \in DOMAIN unomap
  /\ \A i, j \in DOMAIN order : order[i].first = order[j].first => i = j
=============================================================================
