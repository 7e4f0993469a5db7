----------------------------- MODULE MCFlatMap -----------------------------
(***************************************************************************)
(* FlatMap for TLC: the three keys collide in small tables and part in     *)
(* larger ones.                                                            *)
(***************************************************************************)
EXTENDS FlatMap

CONSTANTS a, b, c, zero, one

Hashes == [k \in Key |-> CASE k = a -> 0 [] k = b -> 4 [] k = c -> 7]
=============================================================================
