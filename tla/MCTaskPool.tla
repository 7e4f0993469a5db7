----------------------------- MODULE MCTaskPool -----------------------------
(***************************************************************************)
(* An instance of TaskPool for TLC: r runs a, calls b and waits; a and b   *)
(* each run a function and wait.  y, which another client submits, waits   *)
(* for a function too.  x is passed to tg.run outside the pool.            *)
(***************************************************************************)
EXTENDS TaskPool, TLC

CONSTANTS r, a, b, c, d, x, y, z, k1, k2, k3

Program ==
  r :> <<Run(a), Call(b), Wait>> @@ b :> <<Run(c), Wait>> @@ c :> <<>> @@
  a :> <<Run(d), Wait>> @@ d :> <<>> @@
  y :> <<Run(z), Wait>> @@ z :> <<>> @@ x :> <<>>

Roots == k1 :> r @@ k2 :> x @@ k3 :> y
=============================================================================
