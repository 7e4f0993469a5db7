------------------------- MODULE MCConcurrentQueue -------------------------
(***************************************************************************)
(* Small instances of ConcurrentQueue for TLC.  The heap has as many nodes *)
(* as Node has elements: push waits for a free one, the only bound of the  *)
(* model.  Threads, nodes and values are interchangeable in the instance   *)
(* where every thread pushes and pops; the symmetry is used for safety     *)
(* properties only.                                                        *)
(***************************************************************************)
EXTENDS ConcurrentQueue, TLC

Symmetry == Permutations(Thread) \cup Permutations(Node) \cup Permutations(Value)
=============================================================================
