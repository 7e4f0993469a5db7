--------------------------- MODULE ParallelReduce ---------------------------
(***************************************************************************)
(* wip/pbb/parallel_reduce.h over blocked_range.h, run by TaskPool.  A     *)
(* range larger than the grain is split: its right half is run on a        *)
(* task_group with a body object of its own, its left half is reduced in   *)
(* place with the caller's body object, and when the group is done the     *)
(* right body is joined into the caller's.  The functions of the pool are  *)
(* the ranges.  Without bodies and joins this is parallel_for as well.     *)
(*                                                                         *)
(* A body object is what it has been given so far: the blocks body was     *)
(* called on, in order, and how many init values are folded into it (a     *)
(* simple_reduce_body starts from one).                                    *)
(***************************************************************************)
EXTENDS TaskPool, BlockedRange

(* The ranges parallel_reduce is called with.                              *)
Ranges ==
  LET Depth[k \in 0..N] ==
        IF k = 0 THEN {Whole}
        ELSE LET S == {r \in Depth[k - 1] : Splits(r)} IN
               Depth[k - 1] \cup {Left(r) : r \in S} \cup {Right(r) : r \in S}
  IN Depth[N]

ReduceBody == [r \in Ranges |->
  IF Splits(r) THEN <<Run(Right(r)), Call(Left(r)), Wait>> ELSE <<>>]

ASSUME RangeAssumption ==
  /\ Task = Ranges /\ Body = ReduceBody
  /\ \A c \in Client : Root[c] = Whole

VARIABLES
  acc,     \* acc[r]: the body object made for range r
  given    \* given[r]: the object that the call for r has a reference to

reduceVars == <<vars, acc, given>>

Blank == [blocks |-> <<>>, inits |-> 1]
WithBlock(x, r) == [x EXCEPT !.blocks = Append(@, r)]
Joined(x, y) == [blocks |-> x.blocks \o y.blocks, inits |-> x.inits + y.inits]

(* A range that is run gets an object of its own, one that is called gets  *)
(* its caller's, once it is called.                                        *)
ReduceInit ==
  /\ Init
  /\ acc = [r \in Ranges |-> Blank]
  /\ given = [r \in Ranges |-> r]

(* Faulty variant: the right half gets its caller's object as well.        *)
SplitShares(w) == given' = [given EXCEPT ![Arg(w)] = given[Top(w).task]] /\ UNCHANGED acc

(* Body rbody(body, split{}): a new body that starts from init.            *)
SplitBody(w) == acc' = [acc EXCEPT ![Arg(w)] = Blank] /\ UNCHANGED given

(* parallel_reduce(range, body): the left half gets the caller's object.   *)
PassBody(w) == given' = [given EXCEPT ![Arg(w)] = given[Top(w).task]] /\ UNCHANGED acc

(* Faulty variant: the halves are joined the wrong way round.              *)
ReduceReversed(r) ==
  /\ acc' = [acc EXCEPT ![given[r]] = IF Splits(r) THEN Joined(acc[Right(r)], @) ELSE WithBlock(@, r)]
  /\ UNCHANGED given

(* The end of parallel_reduce(r, body): body(r), or body.join(rbody).      *)
Reduce(r) ==
  /\ acc' = [acc EXCEPT ![given[r]] = IF Splits(r) THEN Joined(@, acc[Right(r)]) ELSE WithBlock(@, r)]
  /\ UNCHANGED given

ReduceStep(w) ==
  \/ RunCount(w) /\ SplitBody(w)
  \/ CallFn(w) /\ PassBody(w)
  \/ FnReturn(w) /\ Reduce(Top(w).task)
  \/ /\ RunPush(w) \/ CallWait(w) \/ Release(w) \/ Look(w) \/ LookInVain(w) \/ WaitCheck(w)
     /\ UNCHANGED <<acc, given>>

ReduceNext ==
  \/ \E c \in Client : (BeginArena(c) \/ ArenaReturn(c)) /\ UNCHANGED <<acc, given>>
  \/ \E w \in Worker : ReduceStep(w)

ReduceSpec == ReduceInit /\ [][ReduceNext]_reduceVars

-----------------------------------------------------------------------------
(* Properties                                                              *)

(* The blocks s make up r, in order and with none left to split.           *)
Covers(s, r) ==
  /\ s # <<>> /\ s[1][1] = r[1] /\ s[Len(s)][2] = r[2]
  /\ \A i \in 1..Len(s) : s[i] \in Ranges /\ ~Splits(s[i])
  /\ \A i \in 1..Len(s) - 1 : s[i][2] = s[i + 1][1]

(* Whoever ran which half when, body has been called on every index once,  *)
(* in order (the join need not be commutative), and init is folded in once *)
(* for every call of body: init must be neutral.                           *)
ResultInOrder == \A c \in Client : client[c] = "back" =>
  /\ Covers(acc[Whole].blocks, Whole)
  /\ acc[Whole].inits = Len(acc[Whole].blocks)

(* The body objects that w's innermost frame is about to work on.          *)
Touches(w) ==
  IF At(w, "task", "body") /\ Top(w).pos > Len(Body[Top(w).task])
  THEN LET r == Top(w).task IN {given[r]} \cup (IF Splits(r) THEN {Right(r)} ELSE {})
  ELSE {}

(* No two threads work on one body object at a time: it has no lock.       *)
BodyPrivate == \A v, w \in Worker : v # w => Touches(v) \cap Touches(w) = {}

(* body(range) and join run on a body object that still exists: it lives   *)
(* on the frame of the parallel_reduce that split the range, and that call *)
(* has not returned.                                                       *)
BodyAlive == \A w \in Worker : \A r \in Touches(w) :
  r = Whole \/ \E v \in Worker : \E i \in 1..Len(calls[v]) :
    calls[v][i].fn = "task" /\ calls[v][i].task = Parent(r)
=============================================================================
