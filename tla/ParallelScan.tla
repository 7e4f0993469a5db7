---------------------------- MODULE ParallelScan ----------------------------
(***************************************************************************)
(* wip/pbb/parallel_scan.h over blocked_range.h, run by TaskPool.  A range *)
(* larger than the grain is split: both halves are scanned, the right one  *)
(* on a task_group with a body object rbody that starts as a copy of the   *)
(* caller's; unless this is the final pass, both are scanned again, as a   *)
(* final pass and into the same two body objects; and rbody is joined into *)
(* the caller's.                                                           *)
(*                                                                         *)
(* A function of the pool is a call of parallel_scan, <<range, final>>:    *)
(* the final pass began `final' calls further up, or not yet if it is 0.   *)
(* A body object is the sequence of the indices it has been given, in      *)
(* either pass, as with a body that takes no notice of is_final.           *)
(***************************************************************************)
EXTENDS TaskPool, BlockedRange

IsFinal(t) == t[2] > 0

(* The calls a call makes: both halves, as a final pass or not.            *)
Halves(t, final) == [left |-> <<Left(t[1]), final>>, right |-> <<Right(t[1]), final>>]
Both(halves) == <<Run(halves.right), Call(halves.left), Wait>>

ScanBody(t) ==
  IF ~Splits(t[1]) THEN <<>>
  ELSE IF IsFinal(t) THEN Both(Halves(t, t[2] + 1))
  ELSE Both(Halves(t, 0)) \o Both(Halves(t, 1))

(* All the calls that the first one, <<Whole, 0>>, leads to.               *)
Scans ==
  LET Depth[k \in 0..N] ==
        IF k = 0 THEN {<<Whole, 0>>}
        ELSE Depth[k - 1] \cup
             {ScanBody(t)[i].fn : <<t, i>> \in
                {<<u, j>> \in Depth[k - 1] \X {1, 2, 4, 5} : j <= Len(ScanBody(u))}}
  IN Depth[N]

(* The pool's Task is Scans, its Body is this, and the clients' Root is    *)
(* <<Whole, 0>>.                                                           *)
ScanBodies == [t \in Scans |-> ScanBody(t)]

VARIABLE acc    \* acc[t]: the rbody of call t; acc[None]: the client's body

(* The body object that t scans into: its caller's rbody if it was run,    *)
(* what its caller scans into if it was called.                            *)
Owner == LET Own[t \in Scans] == IF Parent(t) \in Client THEN None
                                 ELSE IF Submitted(t) THEN Parent(t) ELSE Own[Parent(t)]
         IN Own

ScanInit == Init /\ acc = [t \in Scans \cup {None} |-> <<>>]

(* Body rbody(body, split{}), before the first of the two groups.          *)
CopyBody(w) ==
  acc' = IF Top(w).pos = 1 THEN [acc EXCEPT ![Top(w).task] = acc[Owner[Top(w).task]]]
                           ELSE acc

(* The end of a call: body(range, IsFinal), or body.join(rbody).           *)
Scan(t) ==
  acc' = [acc EXCEPT ![Owner[t]] = @ \o IF Splits(t[1]) THEN acc[t] ELSE Indices(t[1])]

ScanStep(w) ==
  \/ RunCount(w) /\ CopyBody(w)
  \/ FnReturn(w) /\ Scan(Top(w).task)
  \/ /\ RunPush(w) \/ CallFn(w) \/ CallWait(w) \/ Release(w)
        \/ Look(w) \/ LookInVain(w) \/ WaitCheck(w)
     /\ UNCHANGED acc

ScanNext ==
  \/ \E c \in Client : (BeginArena(c) \/ ArenaReturn(c)) /\ UNCHANGED acc
  \/ \E w \in Worker : ScanStep(w)

ScanSpec == ScanInit /\ [][ScanNext]_<<vars, acc>>

-----------------------------------------------------------------------------
(* Property                                                                *)

(* The comment of the disabled test of parallel_scan, test.cpp:29: what    *)
(* its body has accumulated in the end is every element once.              *)
ScanSum == \A c \in Client : client[c] = "back" =>
  \A i \in 0..N - 1 : Len(SelectSeq(acc[None], LAMBDA x : x = i)) = 1
=============================================================================
