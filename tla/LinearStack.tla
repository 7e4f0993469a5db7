---------------------------- MODULE LinearStack ----------------------------
(***************************************************************************)
(* What conpool::ConcurrentQueue promises its users, whatever its nodes    *)
(* and its compare-and-swap loops do: push and try_pop are atomic          *)
(* operations on one shared LIFO stack.  Each operation takes effect at a  *)
(* single instant between its invocation and its response, a pop returns   *)
(* the most recent element not yet returned, and None (std::nullopt) only  *)
(* when the stack is empty at that instant.                                *)
(***************************************************************************)
EXTENDS Sequences

CONSTANTS
  Thread,   \* the threads that call the queue
  Value,    \* the elements
  None      \* std::nullopt; also "no element" in op[t].val

VARIABLES
  elems,    \* the abstract content, most recent element first
  op        \* op[t]: how far thread t's current operation has come

absVars == <<elems, op>>

Idle == [phase |-> "idle", val |-> None]

AbsInit ==
  /\ elems = <<>>
  /\ op = [t \in Thread |-> Idle]

InvokePush(t, v) ==
  /\ op[t] = Idle
  /\ op' = [op EXCEPT ![t] = [phase |-> "push", val |-> v]]
  /\ UNCHANGED elems

InvokePop(t) ==
  /\ op[t] = Idle
  /\ op' = [op EXCEPT ![t] = [phase |-> "pop", val |-> None]]
  /\ UNCHANGED elems

EffectPush(t) ==
  /\ op[t].phase = "push"
  /\ elems' = <<op[t].val>> \o elems
  /\ op' = [op EXCEPT ![t].phase = "done"]

EffectPopEmpty(t) ==
  /\ op[t].phase = "pop"
  /\ elems = <<>>
  /\ op' = [op EXCEPT ![t] = [phase |-> "done", val |-> None]]
  /\ UNCHANGED elems

EffectPop(t) ==
  /\ op[t].phase = "pop"
  /\ elems # <<>>
  /\ op' = [op EXCEPT ![t] = [phase |-> "done", val |-> Head(elems)]]
  /\ elems' = Tail(elems)

(* A push whose element constructor throws leaves the stack as it was.     *)
CancelPush(t) ==
  /\ op[t].phase = "push"
  /\ op' = [op EXCEPT ![t] = Idle]
  /\ UNCHANGED elems

Respond(t) ==
  /\ op[t].phase = "done"
  /\ op' = [op EXCEPT ![t] = Idle]
  /\ UNCHANGED elems

AbsNext ==
  \E t \in Thread :
    \/ \E v \in Value : InvokePush(t, v)
    \/ InvokePop(t)
    \/ EffectPush(t)
    \/ EffectPopEmpty(t)
    \/ EffectPop(t)
    \/ CancelPush(t)
    \/ Respond(t)

AbsSpec == AbsInit /\ [][AbsNext]_absVars
=============================================================================
