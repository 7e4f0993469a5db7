--------------------------- MODULE MCThreadPool ----------------------------
(***************************************************************************)
(* Instances of ThreadPool for TLC.                                        *)
(***************************************************************************)
EXTENDS ThreadPool, TLC

CONSTANTS r, a, b, c, s, d, e, k1, k2

Leaf == <<>>

(* r joins a and b, a joins c; s, when it is there, calls arena with d.    *)
ForkJoin == r :> <<a, b>> @@ a :> <<c>> @@ b :> Leaf @@ c :> Leaf
ForkJoinArena == ForkJoin @@ s :> <<d>> @@ d :> Leaf

(* r joins a and s, a joins c; s calls arena with d, b calls arena with e. *)
TwoArenas ==
  r :> <<a, s>> @@ a :> <<c>> @@ c :> Leaf @@
  s :> <<d>> @@ d :> Leaf @@ b :> <<e>> @@ e :> Leaf

TwoRoots == k1 :> r @@ k2 :> s
OtherRoots == k1 :> r @@ k2 :> b
=============================================================================
