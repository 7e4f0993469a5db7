--------------------------- MODULE MCParallelScan ---------------------------
(***************************************************************************)
(* ParallelScan for TLC: the pool is entered once.                         *)
(***************************************************************************)
EXTENDS ParallelScan

CONSTANT caller

Whence == [c \in {caller} |-> <<Whole, 0>>]
=============================================================================
