----------------------------- MODULE RadixSort -----------------------------
(***************************************************************************)
(* wip/radix_sort.h on an input of at most one grain (4096 elements): then *)
(* parallel_reduce and parallel_for call their bodies once, on the whole   *)
(* range.  Larger inputs are undefined from the first pass on: the split   *)
(* constructor of ArrayReducer leaves the digit's position d unset, and    *)
(* ranges emitted in parallel increment indices without synchronisation.   *)
(*                                                                         *)
(* buffer is what the two arrays hold, input the number of the one that    *)
(* `in' points to (the array of the caller is 1); a pass goes from the one *)
(* to the other and exchanges the pointers.                                *)
(***************************************************************************)
EXTENDS Integers, Sequences, FiniteSets

CONSTANTS
  Base,       \* 1 << W
  Passes,     \* 32 / W: W is a power of two, and less than 32
  Length      \* the number of elements

ASSUME RadixAssumption ==
  Base \in Nat \ {0} /\ Passes \in Nat \ {0} /\ Passes % 2 = 0 /\ Length \in Nat

VARIABLES
  buffer, input,
  pass,       \* d / W
  counts,     \* reducer.counts, <<>> before they are counted
  indices,    \* where the next element of each bucket goes
  emitted,    \* the emitter's i
  unsorted    \* history: the caller's array at first

radixVars == <<buffer, input, pass, counts, indices, emitted, unsorted>>

(* 1 << n * W                                                              *)
Power[n \in Nat] == IF n = 0 THEN 1 ELSE Base * Power[n - 1]

Bucket == 0..Base - 1
Digit(val, d) == (val \div Power[d]) % Base
Other == 3 - input

RadixInit ==
  /\ unsorted \in [1..Length -> 0..Power[Passes] - 1]
  /\ buffer = <<unsorted, [p \in 1..Length |-> 0]>>
  /\ input = 1 /\ pass = 0
  /\ counts = <<>> /\ indices = <<>> /\ emitted = 0

(* parallel_reduce: how many elements there are in each bucket.            *)
CountBuckets ==
  /\ pass < Passes /\ counts = <<>>
  /\ counts' = [b \in Bucket |->
                  Cardinality({p \in 1..Length : Digit(buffer[input][p], pass) = b})]
  /\ UNCHANGED <<buffer, input, pass, indices, emitted, unsorted>>

(* The elements in the first n buckets.                                    *)
SumOfFirst(n) ==
  LET Sum[b \in 0..Base] == IF b = 0 THEN 0 ELSE Sum[b - 1] + counts[b - 1] IN Sum[n]

(* Faulty variant: the bucket itself is summed as well.                    *)
InclusiveSum(b) == SumOfFirst(b + 1)

ExclusiveSum(b) == SumOfFirst(b)

(* std::exclusive_scan into indices.                                       *)
ScanCounts ==
  /\ counts # <<>> /\ indices = <<>>
  /\ indices' = [b \in Bucket |-> ExclusiveSum(b)]
  /\ UNCHANGED <<buffer, input, pass, counts, emitted, unsorted>>

(* out[indices[bid]++] = val                                               *)
Emit ==
  /\ indices # <<>> /\ emitted < Length
  /\ LET val == buffer[input][emitted + 1]
         bid == Digit(val, pass)
     IN /\ buffer' = [buffer EXCEPT ![Other][indices[bid] + 1] = val]
        /\ indices' = [indices EXCEPT ![bid] = @ + 1]
  /\ emitted' = emitted + 1
  /\ UNCHANGED <<input, pass, counts, unsorted>>

SwapBuffers ==
  /\ indices # <<>> /\ emitted = Length
  /\ input' = Other /\ pass' = pass + 1
  /\ counts' = <<>> /\ indices' = <<>> /\ emitted' = 0
  /\ UNCHANGED <<buffer, unsorted>>

(* The caller of the inner radix_sort copies its second array over its     *)
(* first: an even number of passes has left the result in the first.       *)
CopyBack ==
  /\ pass = Passes
  /\ buffer' = [buffer EXCEPT ![1] = buffer[2]]
  /\ pass' = Passes + 1
  /\ UNCHANGED <<input, counts, indices, emitted, unsorted>>

RadixNext == CountBuckets \/ ScanCounts \/ Emit \/ SwapBuffers \/ CopyBack

RadixSpec == RadixInit /\ [][RadixNext]_radixVars

-----------------------------------------------------------------------------
(* Property                                                                *)

(* What belongs before t[p] when t is sorted, stably, by its n low digits. *)
Before(t, n, p) ==
  {q \in 1..Length : \/ t[q] % Power[n] < t[p] % Power[n]
                     \/ t[q] % Power[n] = t[p] % Power[n] /\ q < p}

(* s is t, so sorted.                                                      *)
StableSort(s, t, n) == \A p \in 1..Length : s[Cardinality(Before(t, n, p)) + 1] = t[p]

(* After every pass `in' is the input sorted, stably, by the digits seen   *)
(* so far, so that the inner radix_sort sorts.  Its caller gets the result *)
(* of the last pass but one: sorted without regard to the highest digit.   *)
PassesSort ==
  /\ pass <= Passes /\ emitted = 0 => StableSort(buffer[input], unsorted, pass)
  /\ pass > Passes => StableSort(buffer[1], unsorted, Passes - 1)
=============================================================================
