---------------------------- MODULE MCContainers ----------------------------
(***************************************************************************)
(* SparseVec, OrderedMap and BinaryBuffer for TLC.  They have nothing to   *)
(* do with each other: a behaviour uses one of them, and the others stay   *)
(* as they were made.                                                      *)
(***************************************************************************)
EXTENDS SparseVec, OrderedMap, BinaryBuffer

CONSTANTS x, y, k1, k2, k3

VARIABLE used

vars == <<used, sparseVars, orderVars, binaryVars>>

Init ==
  /\ used \in {"SparseVec", "OrderedMap", "BinaryBuffer"}
  /\ SparseInit /\ OrderInit
  /\ BinaryInit
  /\ used # "BinaryBuffer" => extensive /\ bytes = <<>>

Next ==
  \/ used = "SparseVec" /\ SparseNext /\ UNCHANGED <<used, orderVars, binaryVars>>
  \/ used = "OrderedMap" /\ OrderNext /\ UNCHANGED <<used, sparseVars, binaryVars>>
  \/ used = "BinaryBuffer" /\ BinaryNext /\ UNCHANGED <<used, sparseVars, orderVars>>

Spec == Init /\ [][Next]_vars
=============================================================================
