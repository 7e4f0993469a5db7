------------------------------- MODULE CopyIf -------------------------------
(***************************************************************************)
(* consimd/copy_if: the elements that satisfy a predicate, packed.         *)
(* copy_if_i32_avx takes a vector of Lanes elements at a time: a mask of   *)
(* the positive ones selects a permutation from a table, which brings the  *)
(* positive ones to the front; mask and vector are permuted alike and the  *)
(* vector is stored under the mask.  The table fills the rest of a         *)
(* permutation with lane 0, so that when lane 0 is positive the store      *)
(* writes it to the lanes behind the packed ones too.                      *)
(*                                                                         *)
(* The vector version knows neither the predicate nor its operands: it     *)
(* answers gt1 with operand 0 whatever it is asked (copy_if.cpp:61).       *)
(***************************************************************************)
EXTENDS Integers, Sequences, FiniteSets

CONSTANTS
  Lanes,
  CopyInputs,  \* the arrays callers pass
  Unset        \* an element of dst that was not written

ASSUME CopyAssumption == Lanes \in Nat \ {0} /\ CopyInputs \subseteq Seq(Int)

VARIABLES
  src, dst,
  aligned,     \* whether src is aligned to a vector
  read, kept   \* i and j: elements read, elements kept

copyVars == <<src, dst, aligned, read, kept>>

BinaryPredicate(type, value, val1, val2) ==
  CASE type = "ge1_and_le2" -> value >= val1 /\ value <= val2
    [] type = "gt1_and_lt2" -> value > val1 /\ value < val2
    [] type = "le1_or_ge2" -> value <= val1 \/ value >= val2
    [] type = "lt1_or_gt2" -> value < val1 \/ value > val2
    [] type = "le1" -> value <= val1
    [] type = "lt1" -> value < val1
    [] type = "ge1" -> value >= val1
    [] type = "gt1" -> value > val1
    [] type = "eq1" -> value = val1
    [] type = "ne1" -> value # val1

(* The loop out[j++] = in[i], for the first n elements of in.              *)
Packed(in, good, n) ==
  LET Out[i \in Nat] ==
        IF i = 0 THEN <<>>
        ELSE IF good[i] THEN Append(Out[i - 1], in[i]) ELSE Out[i - 1]
  IN Out[n]

(* The scalar version, which is the definition.                            *)
ScalarCopyIf(in, size, type, val1, val2) ==
  Packed(in, [p \in DOMAIN in |-> BinaryPredicate(type, in[p], val1, val2)], size)

-----------------------------------------------------------------------------
CopyInit ==
  /\ src \in CopyInputs
  /\ dst = [p \in DOMAIN src |-> Unset]
  /\ aligned \in BOOLEAN
  /\ read = 0 /\ kept = 0

(* Faulty variant: bits are taken from the other end.                      *)
LutReversed(mask) ==
  LET idx == Packed([p \in 1..Lanes |-> p], mask, Lanes)
  IN [p \in 1..Lanes |-> IF p <= Len(idx) THEN idx[Len(idx) + 1 - p] ELSE 1]

(* avx_lut: the lanes in the mask, in order, then lane 0 (here 1).         *)
Lut(mask) ==
  LET idx == Packed([p \in 1..Lanes |-> p], mask, Lanes)
  IN [p \in 1..Lanes |-> IF p <= Len(idx) THEN idx[p] ELSE 1]

(* _mm256_maskstore_epi32 at dst + j.                                      *)
MaskStored(x, mask) ==
  [p \in DOMAIN dst |-> IF p - kept \in 1..Lanes /\ mask[p - kept] THEN x[p - kept] ELSE dst[p]]

CopyVector ==
  /\ aligned /\ read + Lanes <= Len(src)
  /\ LET x == SubSeq(src, read + 1, read + Lanes)
         mask == [p \in 1..Lanes |-> x[p] > 0]
         idx == Lut(mask)
     IN /\ dst' = MaskStored([p \in 1..Lanes |-> x[idx[p]]], [p \in 1..Lanes |-> mask[idx[p]]])
        /\ kept' = kept + Cardinality({p \in 1..Lanes : mask[p]})
  /\ read' = read + Lanes
  /\ UNCHANGED <<src, aligned>>

(* The elements that fill no vector, or all of an unaligned input.         *)
CopyScalar ==
  /\ read < Len(src)
  /\ ~(aligned /\ read + Lanes <= Len(src))
  /\ IF src[read + 1] > 0 THEN dst' = [dst EXCEPT ![kept + 1] = src[read + 1]] /\ kept' = kept + 1
                       ELSE UNCHANGED <<dst, kept>>
  /\ read' = read + 1
  /\ UNCHANGED <<src, aligned>>

CopyNext == CopyVector \/ CopyScalar

CopySpec == CopyInit /\ [][CopyNext]_copyVars

-----------------------------------------------------------------------------
(* Property                                                                *)

(* What has been kept so far is what the scalar version keeps: the lanes a *)
(* store writes too much are never counted, and are overwritten.  And no   *)
(* store reaches beyond a dst as long as src.                              *)
CopyIfPacks ==
  /\ kept <= read /\ read <= Len(src)
  /\ (aligned /\ read + Lanes <= Len(src)) => kept + Lanes <= Len(dst)
  /\ LET out == ScalarCopyIf(src, read, "gt1", 0, 0)
     IN Len(out) = kept /\ \A k \in 1..kept : dst[k] = out[k]
=============================================================================
