----------------------------- MODULE FiniteMap -----------------------------
(***************************************************************************)
(* What the hash maps of this library promise: a finite map from keys to   *)
(* values.  map is its graph, answer what the last operation returned.     *)
(***************************************************************************)
CONSTANTS
  Key, Val,
  Default,    \* the value-initialised mapped_type
  Absent,     \* the answer of find and at for a key that is not there
  Done        \* the answer of an operation that returns nothing

VARIABLES map, answer

Put(m, k, v) == [j \in DOMAIN m \cup {k} |-> IF j = k THEN v ELSE m[j]]
Without(m, k) == [j \in DOMAIN m \ {k} |-> m[j]]

Init == map = [k \in {} |-> Default] /\ answer = Done

(* insert: the first value of a key stays.                                 *)
Insert(k, v) ==
  /\ answer' = (k \notin DOMAIN map)
  /\ map' = IF k \in DOMAIN map THEN map ELSE Put(map, k, v)

(* m[k]: a reference to the value of k, which is made if need be ...       *)
Subscript(k) ==
  /\ map' = IF k \in DOMAIN map THEN map ELSE Put(map, k, Default)
  /\ answer' = map'[k]

(* ... and m[k] = v, which assigns through it.                             *)
Assign(k, v) == map' = Put(map, k, v) /\ answer' = v

Erase(k) ==
  /\ answer' = (k \in DOMAIN map)
  /\ map' = Without(map, k)

Lookup(k) ==
  /\ answer' = IF k \in DOMAIN map THEN map[k] ELSE Absent
  /\ UNCHANGED map

Contains(k) == answer' = (k \in DOMAIN map) /\ UNCHANGED map

Clear == map' = [k \in {} |-> Default] /\ answer' = Done

(* reserve, rehash, shrink_to_fit: nothing that a caller can see.          *)
Reorganise == answer' = Done /\ UNCHANGED map

Next ==
  \/ \E k \in Key :
       Subscript(k) \/ Erase(k) \/ Lookup(k) \/ Contains(k)
         \/ \E v \in Val : Insert(k, v) \/ Assign(k, v)
  \/ Clear \/ Reorganise

Spec == Init /\ [][Next]_<<map, answer>>
=============================================================================
