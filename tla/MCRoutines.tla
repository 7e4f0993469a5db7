----------------------------- MODULE MCRoutines -----------------------------
(***************************************************************************)
(* The sequential routines for TLC: utf8, copy_if, adjacent_difference,    *)
(* radix_sort and the test runner.  A behaviour uses one of them.          *)
(***************************************************************************)
EXTENDS Utf8, CopyIf, AdjacentDifference, RadixSort, Contest

VARIABLE used

vars == <<used, utf8Vars, copyVars, adjacentVars, radixVars, contestVars>>

(* A plain test, and one over two types and two parameters.                *)
SomeTests == <<[types |-> 0, params |-> 1], [types |-> 2, params |-> 2]>>

(* The borders of the four lengths.                                        *)
BorderCodePoints == {65, 127, 128, 2047, 2048, 65535, 65536, 1114111}

(* Whole turns of 32 elements, one more, one less, none.                   *)
SomeSizes == {0, 1, 7, 31, 32, 33, 63, 64, 65, 97}

(* At position p there is p or 0, or -p everywhere.                        *)
SomeArrays ==
  UNION {{[p \in 1..n |-> p * s[p]] : s \in [1..n -> {0, 1}]} \cup {[p \in 1..n |-> -p]}
         : n \in 0..9}

(* The routines that are not used have one input.                          *)
Init ==
  /\ used \in {"utf8", "copy", "adjacent", "radix", "contest"}
  /\ CopyInit /\ (used # "copy" => src = <<>> /\ ~aligned)
  /\ AdjacentInit /\ (used # "adjacent" => adSize = 0 /\ ~adAligned)
  /\ RadixInit /\ (used # "radix" => \A p \in 1..Length : unsorted[p] = 0)
  /\ Utf8Init /\ ContestInit

Next ==
  /\ UNCHANGED used
  /\ \/ used = "utf8" /\ Utf8Next
        /\ UNCHANGED <<copyVars, adjacentVars, radixVars, contestVars>>
     \/ used = "copy" /\ CopyNext
        /\ UNCHANGED <<utf8Vars, adjacentVars, radixVars, contestVars>>
     \/ used = "adjacent" /\ AdjacentNext
        /\ UNCHANGED <<utf8Vars, copyVars, radixVars, contestVars>>
     \/ used = "radix" /\ RadixNext
        /\ UNCHANGED <<utf8Vars, copyVars, adjacentVars, contestVars>>
     \/ used = "contest" /\ ContestNext
        /\ UNCHANGED <<utf8Vars, copyVars, adjacentVars, radixVars>>

Spec == Init /\ [][Next]_vars
=============================================================================
