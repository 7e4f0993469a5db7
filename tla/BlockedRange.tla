---------------------------- MODULE BlockedRange ----------------------------
(***************************************************************************)
(* wip/pbb/blocked_range.h: a range [m_begin, m_end) that can be split in  *)
(* two, and the ranges that recursive splitting makes of [0, N).           *)
(***************************************************************************)
EXTENDS Naturals

CONSTANTS
  N,       \* the whole range is [0, N)
  Grain

(* A grain of zero (the default) splits a range of size 1 into an empty    *)
(* one and itself, and the recursion has no end.                           *)
ASSUME GrainAssumption == N \in Nat /\ Grain \in Nat \ {0}

Whole == <<0, N>>
Size(r) == r[2] - r[1]
Splits(r) == Size(r) > Grain
Middle(r) == r[1] + Size(r) \div 2

(* The split constructor makes the right half of a range that it cuts off: *)
(* what is left of it is the left half.                                    *)
Left(r) == <<r[1], Middle(r)>>
Right(r) == <<Middle(r), r[2]>>

Indices(r) == [i \in 1..Size(r) |-> r[1] + i - 1]
=============================================================================
