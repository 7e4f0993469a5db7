------------------------- MODULE AdjacentDifference -------------------------
(***************************************************************************)
(* consimd/adjacent_difference.cpp, of floats and of ints alike: 32        *)
(* elements at a time, as four vectors of eight lanes.  Transposing them   *)
(* puts neighbours into the same lane of neighbouring vectors, so that     *)
(* three of the four differences are lane by lane; the fourth needs each   *)
(* lane's left neighbour, which a permutation of the last vector provides, *)
(* and for lane 0 the last element of the previous 32.                     *)
(*                                                                         *)
(* The element at position p is p itself (from 1), prev is 0, and the      *)
(* difference of two elements is the pair of them: the model says which    *)
(* elements are subtracted, so width and rounding do not matter.           *)
(***************************************************************************)
EXTENDS Integers, Sequences

CONSTANTS
  InputSizes,   \* the sizes of inputs
  NotYet        \* an element of out that was not written

ASSUME AdjacentAssumption == InputSizes \subseteq Nat

VARIABLES
  adSize,       \* size
  adAligned,    \* whether in and out are aligned to a vector
  out,
  done,         \* i, the elements done
  last          \* the vector of that name; after the loop prev, its lane 0

adjacentVars == <<adSize, adAligned, out, done, last>>

LaneSet == 0..7
Minus(x, y) == [l \in LaneSet |-> <<x[l], y[l]>>]

(* _MM256_TRANSPOSE4: a 4 x 4 transpose in either half of the lanes.       *)
Transpose4(v) ==
  [row \in 0..3 |-> [l \in LaneSet |-> v[l % 4][4 * (l \div 4) + row]]]

(* Faulty variant: the halves' last lanes are not exchanged.               *)
PermInHalves == [l \in LaneSet |-> <<3, 0, 1, 2, 7, 4, 5, 6>>[l + 1]]

(* perm74560123.                                                           *)
Perm == [l \in LaneSet |-> <<7, 4, 5, 6, 0, 1, 2, 3>>[l + 1]]

AdjacentInit ==
  /\ adSize \in InputSizes
  /\ adAligned \in BOOLEAN
  /\ out = [p \in 1..adSize |-> NotYet]
  /\ done = 0
  /\ last = [l \in LaneSet |-> 0]

(* One turn of the loop over 32 elements.                                  *)
Vectors ==
  /\ adAligned /\ done + 32 <= adSize
  /\ LET rgba == Transpose4([row \in 0..3 |-> [l \in LaneSet |-> done + 8 * row + l + 1]])
         next == [l \in LaneSet |-> rgba[3][Perm[l]]]
         left == [next EXCEPT ![0] = last[0]]
         xyzw == Transpose4([row \in 0..3 |->
                   Minus(rgba[row], IF row = 0 THEN left ELSE rgba[row - 1])])
     IN /\ out' = [p \in 1..adSize |->
                     IF p - done \in 1..32
                     THEN xyzw[(p - done - 1) \div 8][(p - done - 1) % 8] ELSE out[p]]
        /\ last' = next
  /\ done' = done + 32
  /\ UNCHANGED <<adSize, adAligned>>

(* The rest, and all of an input or output that is not aligned.            *)
Scalars ==
  /\ done < adSize
  /\ ~(adAligned /\ done + 32 <= adSize)
  /\ out' = [out EXCEPT ![done + 1] = <<done + 1, last[0]>>]
  /\ last' = [last EXCEPT ![0] = done + 1]
  /\ done' = done + 1
  /\ UNCHANGED <<adSize, adAligned>>

AdjacentNext == Vectors \/ Scalars

AdjacentSpec == AdjacentInit /\ [][AdjacentNext]_adjacentVars

-----------------------------------------------------------------------------
(* Property                                                                *)

(* Every element has been subtracted its left neighbour, also across lanes,*)
(* halves, vectors, turns of the loop and from the loop to the rest; the   *)
(* first one prev.                                                         *)
NeighboursSubtracted == \A p \in 1..adSize :
  out[p] = IF p <= done THEN <<p, p - 1>> ELSE NotYet
=============================================================================
