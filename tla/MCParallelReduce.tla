-------------------------- MODULE MCParallelReduce --------------------------
(***************************************************************************)
(* ParallelReduce for TLC: the pool is entered once.                       *)
(***************************************************************************)
EXTENDS ParallelReduce

CONSTANT caller

Whence == [c \in {caller} |-> Whole]
=============================================================================
