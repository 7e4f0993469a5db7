-------------------------- MODULE ConcurrentQueue --------------------------
(***************************************************************************)
(* conpool/ConcurrentQueue.h: an unbounded container shared by many        *)
(* threads, built from heap nodes linked by atomic pointers.  Despite its  *)
(* name it is a LIFO stack.  push publishes its node with one              *)
(* compare-and-swap of head and only afterwards stores the node's next     *)
(* pointer; until then next holds the sentinel -1 (Pending here), and a    *)
(* thread that wants to pop the node spins on it.  try_pop moves head to   *)
(* the next node with a compare-and-swap and deletes the old head at once. *)
(*                                                                         *)
(* One action is one access to shared memory together with the thread-     *)
(* local work around it.  The accesses are acquire loads and release       *)
(* stores of two kinds of atomics; every plain read of a node's value is   *)
(* ordered after its construction by the release CAS that published it, so *)
(* an interleaving of sequentially consistent steps loses no behaviour     *)
(* that the properties tell apart.                                         *)
(***************************************************************************)
EXTENDS Naturals, Sequences, FiniteSets

CONSTANTS
  Thread,     \* the threads that use the queue
  Producer,   \* those that call push
  Consumer,   \* those that call try_pop
  Node,       \* the addresses operator new can return (bounds the heap)
  Value,      \* the elements
  Null,       \* nullptr
  Pending,    \* reinterpret_cast<Node *>(-1)
  None,       \* std::nullopt, and the union's value before construct_at
  Recycle     \* may operator new return an address that a popper still holds?

ASSUME ThreadAssumption ==
  /\ Producer \subseteq Thread
  /\ Consumer \subseteq Thread

ASSUME DistinctAssumption ==
  /\ Null \notin Node
  /\ Pending \notin Node
  /\ Null # Pending
  /\ None \notin Value
  /\ Recycle \in BOOLEAN

VARIABLES
  head,    \* the queue's only field
  alloc,   \* the nodes allocated and not yet deleted
  next,    \* next[n]: the node's link
  value,   \* value[n]: the node's union
  pc,      \* where each thread is
  node,    \* push's local node
  hptr,    \* the local hptr of either operation
  nxt,     \* try_pop's local next
  val,     \* the element an operation carries: push's argument, pop's result
  stack    \* history: the nodes in the order the CASes left them, top first

heapVars == <<head, alloc, next, value>>
localVars == <<pc, node, hptr, nxt, val>>
vars == <<heapVars, localVars, stack>>

-----------------------------------------------------------------------------
Link == Node \cup {Null, Pending}

Pushing == {"construct", "pushCas"}         \* push, before its node is public
Popping == {"spin", "popCas"}               \* try_pop, holding a head it read
PC == {"idle", "link", "popLoad", "take", "ret"} \cup Pushing \cup Popping

InStack(n) == \E i \in 1..Len(stack) : stack[i] = n

(* The node below position i of the stack.                                 *)
Below(i) == IF i = Len(stack) THEN Null ELSE stack[i + 1]

(* Faulty variant: an allocator with no quarantine at all.                 *)
FreshAnyUnused(n) == n \notin alloc

(* The addresses new may return.  The default allocator may hand out any   *)
(* address that is not in use; without Recycle it keeps back those that    *)
(* some thread in try_pop has read from head and may still compare with.   *)
Fresh(n) ==
  /\ n \notin alloc
  /\ Recycle \/ \A t \in Thread : pc[t] \in Popping => hptr[t] # n

Init ==
  /\ head = Null
  /\ alloc = {}
  /\ next = [n \in Node |-> Pending]
  /\ value = [n \in Node |-> None]
  /\ pc = [t \in Thread |-> "idle"]
  /\ node = [t \in Thread |-> Null]
  /\ hptr = [t \in Thread |-> Null]
  /\ nxt = [t \in Thread |-> Null]
  /\ val = [t \in Thread |-> None]
  /\ stack = <<>>

-----------------------------------------------------------------------------
(* push(args...)                                                           *)

(* new Node: the link starts as the sentinel, the value unconstructed.     *)
PushNew(t, v) ==
  /\ t \in Producer
  /\ pc[t] = "idle"
  /\ \E n \in Node :
       /\ Fresh(n)
       /\ alloc' = alloc \cup {n}
       /\ next' = [next EXCEPT ![n] = Pending]
       /\ value' = [value EXCEPT ![n] = None]
       /\ node' = [node EXCEPT ![t] = n]
  /\ val' = [val EXCEPT ![t] = v]
  /\ pc' = [pc EXCEPT ![t] = "construct"]
  /\ UNCHANGED <<head, hptr, nxt, stack>>

(* construct_at succeeds, the exception guard is disarmed, head is loaded. *)
PushConstruct(t) ==
  /\ pc[t] = "construct"
  /\ value' = [value EXCEPT ![node[t]] = val[t]]
  /\ hptr' = [hptr EXCEPT ![t] = head]
  /\ pc' = [pc EXCEPT ![t] = "pushCas"]
  /\ UNCHANGED <<head, alloc, next, node, nxt, val, stack>>

(* Faulty variant: no exception_guard.                                     *)
PushThrowLeaks(t) ==
  /\ pc[t] = "construct"
  /\ node' = [node EXCEPT ![t] = Null]
  /\ val' = [val EXCEPT ![t] = None]
  /\ pc' = [pc EXCEPT ![t] = "idle"]
  /\ UNCHANGED <<heapVars, hptr, nxt, stack>>

(* The element's constructor throws: exception_guard deletes the node.     *)
PushThrow(t) ==
  /\ pc[t] = "construct"
  /\ alloc' = alloc \ {node[t]}
  /\ node' = [node EXCEPT ![t] = Null]
  /\ val' = [val EXCEPT ![t] = None]
  /\ pc' = [pc EXCEPT ![t] = "idle"]
  /\ UNCHANGED <<head, next, value, hptr, nxt, stack>>

(* Faulty variant: a plain store of head in place of the CAS.              *)
PushCasUncompared(t) ==
  /\ pc[t] = "pushCas"
  /\ head' = node[t]
  /\ stack' = <<node[t]>> \o stack
  /\ pc' = [pc EXCEPT ![t] = "link"]
  /\ UNCHANGED <<alloc, next, value, node, hptr, nxt, val>>

(* compare_exchange_weak succeeds: the node is public, its next is not set.*)
PushCas(t) ==
  /\ pc[t] = "pushCas"
  /\ head = hptr[t]
  /\ head' = node[t]
  /\ stack' = <<node[t]>> \o stack
  /\ pc' = [pc EXCEPT ![t] = "link"]
  /\ UNCHANGED <<alloc, next, value, node, hptr, nxt, val>>

(* Faulty variant: expected is passed by value and never reloaded.         *)
PushCasFailNoReload(t) == pc[t] = "pushCas" /\ UNCHANGED vars

(* It fails and reloads hptr; a spurious failure changes nothing.          *)
PushCasFail(t) ==
  /\ pc[t] = "pushCas"
  /\ hptr' = [hptr EXCEPT ![t] = head]
  /\ UNCHANGED <<heapVars, pc, node, nxt, val, stack>>

(* Faulty variant: the store is forgotten.                                 *)
PushLinkForgotten(t) ==
  /\ pc[t] = "link"
  /\ node' = [node EXCEPT ![t] = Null]
  /\ hptr' = [hptr EXCEPT ![t] = Null]
  /\ val' = [val EXCEPT ![t] = None]
  /\ pc' = [pc EXCEPT ![t] = "idle"]
  /\ UNCHANGED <<heapVars, nxt, stack>>

(* node->next.store(hptr), and push returns.                               *)
PushLink(t) ==
  /\ pc[t] = "link"
  /\ next' = [next EXCEPT ![node[t]] = hptr[t]]
  /\ node' = [node EXCEPT ![t] = Null]
  /\ hptr' = [hptr EXCEPT ![t] = Null]
  /\ val' = [val EXCEPT ![t] = None]
  /\ pc' = [pc EXCEPT ![t] = "idle"]
  /\ UNCHANGED <<head, alloc, value, nxt, stack>>

-----------------------------------------------------------------------------
(* try_pop()                                                               *)

(* Faulty variant: every thread pops.                                      *)
PopCallAnyone(t) ==
  /\ pc[t] = "idle"
  /\ pc' = [pc EXCEPT ![t] = "popLoad"]
  /\ UNCHANGED <<heapVars, node, hptr, nxt, val, stack>>

PopCall(t) ==
  /\ t \in Consumer
  /\ pc[t] = "idle"
  /\ pc' = [pc EXCEPT ![t] = "popLoad"]
  /\ UNCHANGED <<heapVars, node, hptr, nxt, val, stack>>

(* hptr is (re)loaded from head; a null head makes try_pop return nullopt, *)
(* any other goes on to read the link of the node.                         *)
ReadHead(t) ==
  /\ hptr' = [hptr EXCEPT ![t] = head]
  /\ pc' = [pc EXCEPT ![t] = IF head = Null THEN "ret" ELSE "spin"]
  /\ UNCHANGED <<heapVars, node, nxt, val, stack>>

PopLoad(t) == pc[t] = "popLoad" /\ ReadHead(t)

(* Faulty variant: the sentinel is taken for a link.                       *)
PopSpinOnce(t) ==
  /\ pc[t] = "spin"
  /\ \E l \in IF hptr[t] \in alloc THEN {next[hptr[t]]} ELSE Link :
       nxt' = [nxt EXCEPT ![t] = l]
  /\ pc' = [pc EXCEPT ![t] = "popCas"]
  /\ UNCHANGED <<heapVars, node, hptr, val, stack>>

(* hptr->next.load(), repeated while it gives the sentinel.  Once another  *)
(* thread has deleted the node its memory is not ours any more and the     *)
(* load may give anything.                                                 *)
PopSpin(t) ==
  /\ pc[t] = "spin"
  /\ \E l \in IF hptr[t] \in alloc THEN {next[hptr[t]]} ELSE Link :
       /\ l # Pending
       /\ nxt' = [nxt EXCEPT ![t] = l]
  /\ pc' = [pc EXCEPT ![t] = "popCas"]
  /\ UNCHANGED <<heapVars, node, hptr, val, stack>>

(* Faulty variant: a plain store of head in place of the CAS.              *)
PopCasUncompared(t) ==
  /\ pc[t] = "popCas"
  /\ head' = nxt[t]
  /\ stack' = SubSeq(stack, 2, Len(stack))
  /\ nxt' = [nxt EXCEPT ![t] = Null]
  /\ pc' = [pc EXCEPT ![t] = "take"]
  /\ UNCHANGED <<alloc, next, value, node, hptr, val>>

(* The CAS succeeds: the node now belongs to this thread alone.            *)
PopCas(t) ==
  /\ pc[t] = "popCas"
  /\ head = hptr[t]
  /\ head' = nxt[t]
  /\ stack' = SubSeq(stack, 2, Len(stack))
  /\ nxt' = [nxt EXCEPT ![t] = Null]
  /\ pc' = [pc EXCEPT ![t] = "take"]
  /\ UNCHANGED <<alloc, next, value, node, hptr, val>>

(* It fails, truly or spuriously, and reloads hptr.                        *)
PopCasFail(t) == pc[t] = "popCas" /\ ReadHead(t)

(* The value is moved out and destroyed, the node deleted.                 *)
PopTake(t) ==
  /\ pc[t] = "take"
  /\ val' = [val EXCEPT ![t] = value[hptr[t]]]
  /\ value' = [value EXCEPT ![hptr[t]] = None]
  /\ alloc' = alloc \ {hptr[t]}
  /\ hptr' = [hptr EXCEPT ![t] = Null]
  /\ pc' = [pc EXCEPT ![t] = "ret"]
  /\ UNCHANGED <<head, next, node, nxt, stack>>

PopReturn(t) ==
  /\ pc[t] = "ret"
  /\ val' = [val EXCEPT ![t] = None]
  /\ nxt' = [nxt EXCEPT ![t] = Null]
  /\ pc' = [pc EXCEPT ![t] = "idle"]
  /\ UNCHANGED <<heapVars, node, hptr, stack>>

-----------------------------------------------------------------------------
Push(t) ==
  \/ PushConstruct(t) \/ PushThrow(t)
  \/ PushCas(t) \/ PushCasFail(t) \/ PushLink(t)

Pop(t) ==
  \/ PopLoad(t) \/ PopSpin(t)
  \/ PopCas(t) \/ PopCasFail(t) \/ PopTake(t) \/ PopReturn(t)

Next ==
  \E t \in Thread :
    \/ \E v \in Value : PushNew(t, v)
    \/ PopCall(t)
    \/ Push(t)
    \/ Pop(t)

Spec == Init /\ [][Next]_vars

(* A thread inside an operation is eventually scheduled again, and         *)
(* compare_exchange_weak does not fail spuriously for ever: if some thread *)
(* finds head equal to its hptr again and again, some CAS succeeds.        *)
(* Nothing obliges a thread to start an operation, and nothing says which  *)
(* thread wins.                                                            *)
Fairness ==
  /\ \A t \in Thread : WF_vars(Push(t) \/ Pop(t))
  /\ SF_vars(\E t \in Thread : PushCas(t) \/ PopCas(t))

FairSpec == Spec /\ Fairness

-----------------------------------------------------------------------------
(* What makes it safe to pop from the queue: either one thread at most     *)
(* calls try_pop, or no address is reused while a popper still compares    *)
(* with it.  The code ensures neither.                                     *)
SingleConsumer == \A c, d \in Consumer : c = d
SafeReclamation == ~ Recycle \/ SingleConsumer

(* What goes wrong without it: the CAS of a try_pop finds the head it read *)
(* and installs the link that the node at that address had then and has no *)
(* more.                                                                   *)
StalePop == \E t \in Thread : PopCas(t) /\ nxt[t] # next[hptr[t]]

-----------------------------------------------------------------------------
(* Properties                                                              *)

(* The shape of the state: in particular head never becomes the sentinel,  *)
(* and try_pop compares and dereferences only pointers to nodes.           *)
TypeOK ==
  /\ head \in Node \cup {Null}
  /\ alloc \subseteq Node
  /\ next \in [Node -> Link]
  /\ value \in [Node -> Value \cup {None}]
  /\ pc \in [Thread -> PC]
  /\ node \in [Thread -> Node \cup {Null}]
  /\ hptr \in [Thread -> Node \cup {Null}]
  /\ nxt \in [Thread -> Node \cup {Null}]
  /\ val \in [Thread -> Value \cup {None}]
  /\ stack \in Seq(Node)
  /\ \A t \in Thread : pc[t] \in Pushing \cup {"link"} => node[t] \in Node
  /\ \A t \in Thread : pc[t] \in Popping \cup {"take"} => hptr[t] \in Node

(* t has published n on top of m and has still to store its next.          *)
Linking(t, n, m) == pc[t] = "link" /\ node[t] = n /\ hptr[t] = m

(* The list that head and the next pointers spell is the history of the    *)
(* CASes: head is the last node pushed and not popped, and every node's    *)
(* next is the one pushed before it or, while it is still the sentinel,    *)
(* some thread in push is about to store just that pointer.                *)
ListIntact ==
  /\ head = IF stack = <<>> THEN Null ELSE stack[1]
  /\ \A i \in 1..Len(stack) :
       \/ next[stack[i]] = Below(i)
       \/ /\ next[stack[i]] = Pending
          /\ \E t \in Thread : Linking(t, stack[i], Below(i))

(* A thread owns the node it builds in push and the one it has unlinked in *)
(* try_pop, until it deletes it.                                           *)
Owns(t, n) ==
  \/ pc[t] \in Pushing /\ node[t] = n
  \/ pc[t] = "take" /\ hptr[t] = n

(* Every node on the heap is in the list, once, or has one owner: nothing  *)
(* leaks (when the element's constructor throws, for one), nothing is      *)
(* deleted twice, and nobody moves a value out of a node still listed.     *)
NodesOwned ==
  /\ \A n \in Node : n \in alloc <=> InStack(n) \/ \E t \in Thread : Owns(t, n)
  /\ \A i, j \in 1..Len(stack) : stack[i] = stack[j] => i = j
  /\ \A t \in Thread, n \in Node :
       Owns(t, n) => ~ InStack(n) /\ \A u \in Thread : Owns(u, n) => u = t

(* push stores next into a node that is already public: no try_pop has     *)
(* unlinked and deleted it in between.                                     *)
LinkTargetAlive == \A t \in Thread : pc[t] = "link" => InStack(node[t])

(* No thread reads or writes a node that has been deleted: neither push's  *)
(* late store of next nor try_pop's load of hptr->next.                    *)
NoUseAfterFree ==
  \A t \in Thread :
    /\ pc[t] \in Pushing \cup {"link"} => node[t] \in alloc
    /\ pc[t] \in {"spin", "take"} => hptr[t] \in alloc

(* The operations are those of an atomic LIFO stack: push takes effect at  *)
(* its CAS, try_pop at its CAS or where it reads a null head.              *)
AbsOp(t) ==
  CASE pc[t] = "idle"                -> [phase |-> "idle", val |-> None]
    [] pc[t] \in Pushing             -> [phase |-> "push", val |-> val[t]]
    [] pc[t] = "popLoad"             -> [phase |-> "pop", val |-> None]
    [] pc[t] \in Popping             -> [phase |-> "pop", val |-> None]
    [] pc[t] \in {"link", "ret"}     -> [phase |-> "done", val |-> val[t]]
    [] pc[t] = "take"                -> [phase |-> "done", val |-> value[hptr[t]]]

Elems == [i \in 1..Len(stack) |-> value[stack[i]]]
Op == [t \in Thread |-> AbsOp(t)]

Abs == INSTANCE LinearStack WITH elems <- Elems, op <- Op

(* ConcurrentQueue implements LinearStack: no element is lost, returned    *)
(* twice or invented, and nullopt means the queue was empty.               *)
Linearizable == Abs!AbsSpec

(* A thread that waits for the sentinel to go away does not wait for ever. *)
SpinEnds == \A t \in Thread : (pc[t] = "spin") ~> (pc[t] # "spin")

(* Lock freedom, given that no thread stops inside push: while operations  *)
(* are in progress, operations complete.                                   *)
Completes == \E t \in Thread : pc[t] # "idle" /\ pc'[t] = "idle"
LockFree == <>[](\A t \in Thread : pc[t] = "idle") \/ []<><<Completes>>_vars
=============================================================================
