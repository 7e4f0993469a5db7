----------------------- MODULE ConcurrentQueue_proof -----------------------
(***************************************************************************)
(* ConcurrentQueue, for any number of threads, nodes and values: the list, *)
(* its nodes and the atomicity of the operations are broken by a StalePop  *)
(* and by nothing else.  SafeReclamation (a single consumer, or an         *)
(* allocator that does not reuse an address a popper still holds) rules    *)
(* that step out.                                                          *)
(***************************************************************************)
EXTENDS ConcurrentQueue, SequenceTheorems, TLAPS

(* The node a thread builds is not linked yet.                             *)
BuildersPending == \A t \in Thread : pc[t] \in Pushing => next[node[t]] = Pending

(* A thread about to store next is the only one to do so for its node,     *)
(* which is in the list just above the head the thread's CAS replaced.     *)
LinkersListed ==
  \A t \in Thread : pc[t] = "link" =>
    /\ \E i \in 1..Len(stack) :
         stack[i] = node[t] /\ next[node[t]] = Pending /\ hptr[t] = Below(i)
    /\ \A u \in Thread : pc[u] = "link" /\ node[u] = node[t] => u = t

(* What every step but a StalePop preserves.                               *)
CoreInv == TypeOK /\ ListIntact /\ NodesOwned /\ BuildersPending /\ LinkersListed

(* Nobody in try_pop has the address of a node under construction: it      *)
(* cannot be mistaken for an old head.                                     *)
BuildersHidden ==
  \A t, u \in Thread : pc[t] \in Pushing /\ pc[u] \in Popping => hptr[u] # node[t]

(* What a popper's CAS would install is still the link of its node, unless *)
(* the node has left the list, and then the CAS fails.                     *)
PopperFresh ==
  \A t \in Thread : pc[t] = "popCas" /\ InStack(hptr[t]) =>
    nxt[t] = next[hptr[t]] /\ nxt[t] # Pending

ConsumersPop ==
  \A t \in Thread : pc[t] \in {"popLoad", "take"} \cup Popping => t \in Consumer

(* Only a consumer unlinks nodes, so a single one finds its node listed.   *)
SoleConsumerListed ==
  SingleConsumer => \A t \in Thread : pc[t] \in Popping => InStack(hptr[t])

(* What SafeReclamation preserves as well.                                 *)
Apart == BuildersHidden /\ PopperFresh /\ ConsumersPop /\ SoleConsumerListed

-----------------------------------------------------------------------------
(* What push's CAS and try_pop's CAS do to the history.                    *)

LEMMA Pushed ==
  ASSUME NEW S, NEW s \in Seq(S), NEW x \in S
  PROVE  LET r == <<x>> \o s IN
         /\ r \in Seq(S)
         /\ Len(r) = Len(s) + 1
         /\ r[1] = x
         /\ \A i \in 1..Len(s) : r[i + 1] = s[i]
  OBVIOUS

LEMMA Popped ==
  ASSUME NEW S, NEW s \in Seq(S), s # <<>>
  PROVE  LET r == SubSeq(s, 2, Len(s)) IN
         /\ r \in Seq(S)
         /\ Len(r) = Len(s) - 1
         /\ \A i \in 1..Len(r) : r[i] = s[i + 1]
<1> DEFINE r == SubSeq(s, 2, Len(s))
           n == Len(s)
<1>1. n \in Nat /\ n # 0
  BY EmptySeq, LenProperties
<1>2. \A i \in 2..n : s[i] \in S
  BY <1>1, ElementOfSeq
<1>3. /\ r \in Seq(S)
      /\ Len(r) = IF 2 <= n THEN n - 2 + 1 ELSE 0
      /\ \A i \in 1..n - 2 + 1 : r[i] = s[2 + i - 1]
  <2>1. 2 \in Int /\ n \in Int
    BY <1>1
  <2> QED
    BY <1>2, <2>1, SubSeqProperties
<1> HIDE DEF r, n
<1>4. Len(r) = n - 1
  BY <1>1, <1>3
<1>5. \A i \in 1..n - 1 : i \in 1..n - 2 + 1 /\ 2 + i - 1 = i + 1
  BY <1>1
<1> QED
  BY <1>3, <1>4, <1>5 DEF r, n

-----------------------------------------------------------------------------
(* The type invariant is inductive by itself.                              *)

LEMMA TypeInit == Init => TypeOK
  BY DistinctAssumption DEF Init, TypeOK, Link, PC, Pushing, Popping

LEMMA TypeStep == TypeOK /\ [Next]_vars => TypeOK'
<1> SUFFICES ASSUME TypeOK, [Next]_vars PROVE TypeOK'
  OBVIOUS
<1> USE DistinctAssumption DEF TypeOK, Link, PC, Pushing, Popping
<1>1. ASSUME NEW t \in Thread, NEW v \in Value, PushNew(t, v) PROVE TypeOK'
  BY <1>1 DEF PushNew
<1>2. ASSUME NEW t \in Thread, PushConstruct(t) PROVE TypeOK'
  BY <1>2 DEF PushConstruct
<1>3. ASSUME NEW t \in Thread, PushThrow(t) PROVE TypeOK'
  BY <1>3 DEF PushThrow
<1>4. ASSUME NEW t \in Thread, PushCas(t) PROVE TypeOK'
  BY <1>4 DEF PushCas
<1>5. ASSUME NEW t \in Thread, PushCasFail(t) PROVE TypeOK'
  BY <1>5 DEF PushCasFail, heapVars
<1>6. ASSUME NEW t \in Thread, PushLink(t) PROVE TypeOK'
  BY <1>6 DEF PushLink
<1>7. ASSUME NEW t \in Thread, PopCall(t) PROVE TypeOK'
  BY <1>7 DEF PopCall, heapVars
<1>8. ASSUME NEW t \in Thread, ReadHead(t) PROVE TypeOK'
  BY <1>8 DEF ReadHead, heapVars
<1>9. ASSUME NEW t \in Thread, PopSpin(t) PROVE TypeOK'
  BY <1>9 DEF PopSpin, heapVars
<1>10. ASSUME NEW t \in Thread, PopCas(t) PROVE TypeOK'
  BY <1>10 DEF PopCas
<1>11. ASSUME NEW t \in Thread, PopTake(t) PROVE TypeOK'
  BY <1>11 DEF PopTake
<1>12. ASSUME NEW t \in Thread, PopReturn(t) PROVE TypeOK'
  BY <1>12 DEF PopReturn, heapVars
<1>13. CASE UNCHANGED vars
  BY <1>13 DEF vars, heapVars, localVars
<1> QED
  BY <1>1, <1>2, <1>3, <1>4, <1>5, <1>6, <1>7, <1>8, <1>9, <1>10, <1>11,
     <1>12, <1>13 DEF Next, Push, Pop, PopLoad, PopCasFail


-----------------------------------------------------------------------------
(* Adding the node t has built on top of the list.                         *)

LEMMA PushCasStep ==
  ASSUME CoreInv, TypeOK', NEW t \in Thread, PushCas(t)
  PROVE  CoreInv' /\ (Apart => Apart')
<1> USE DistinctAssumption
<1> DEFINE n == node[t]
           top == Len(stack)
<1>0. /\ n \in Node /\ stack \in Seq(Node) /\ top \in Nat
      /\ next[n] = Pending /\ ~ InStack(n)
      /\ head = hptr[t] /\ head' = n
      /\ alloc' = alloc /\ next' = next /\ value' = value
      /\ node' = node /\ hptr' = hptr /\ nxt' = nxt /\ val' = val
      /\ pc[t] = "pushCas" /\ pc' = [pc EXCEPT ![t] = "link"]
      /\ pc \in [Thread -> PC]
      /\ \A u \in Thread : Owns(u, n) => u = t
  BY LenProperties
     DEF CoreInv, TypeOK, PushCas, Pushing, BuildersPending, NodesOwned, Owns
<1>1. /\ stack' \in Seq(Node) /\ Len(stack') = top + 1
      /\ stack'[1] = n /\ \A i \in 1..top : stack'[i + 1] = stack[i]
  BY <1>0, Pushed DEF PushCas
<1>2. /\ \A j \in 1..Len(stack') : j = 1 \/ (j - 1 \in 1..top /\ stack'[j] = stack[j - 1])
      /\ \A m \in Node : InStack(m)' <=> InStack(m) \/ m = n
  <2>1. ASSUME NEW j \in 1..Len(stack'), j # 1
        PROVE  j - 1 \in 1..top /\ stack'[j] = stack[j - 1]
    <3>1. j - 1 \in 1..top /\ (j - 1) + 1 = j
      BY <2>1, <1>0, <1>1
    <3> QED
      BY <3>1, <1>1
  <2>2. ASSUME NEW m \in Node PROVE InStack(m)' <=> InStack(m) \/ m = n
    <3>1. InStack(m)' => InStack(m) \/ m = n
      BY <2>1, <1>1 DEF InStack
    <3>2. ASSUME NEW i \in 1..top, stack[i] = m PROVE InStack(m)'
      <4>1. i + 1 \in 1..Len(stack') /\ stack'[i + 1] = m
        BY <3>2, <1>0, <1>1
      <4> QED
        BY <4>1 DEF InStack
    <3>3. m = n => InStack(m)'
      BY <1>0, <1>1 DEF InStack
    <3> QED
      BY <3>1, <3>2, <3>3 DEF InStack
  <2> QED
    BY <2>1, <2>2
<1>3. Below(1)' = hptr[t] /\ \A i \in 1..top : Below(i + 1)' = Below(i)
  <2>1. Below(1)' = hptr[t]
    BY <1>0, <1>1, EmptySeq, LenProperties DEF Below, CoreInv, ListIntact
  <2>2. ASSUME NEW i \in 1..top PROVE Below(i + 1)' = Below(i)
    BY <1>0, <1>1 DEF Below
  <2> QED
    BY <2>1, <2>2
<1>5. ListIntact'
  <2>1. head' = stack'[1] /\ stack' # <<>>
    BY <1>0, <1>1
  <2>2. next'[stack'[1]] = Pending /\ Linking(t, stack[1], Below(1))'
    BY <1>0, <1>1, <1>3 DEF Linking
  <2>3. ASSUME NEW i \in 1..top
        PROVE  \/ next'[stack'[i + 1]] = Below(i + 1)'
               \/ /\ next'[stack'[i + 1]] = Pending
                  /\ \E u \in Thread : Linking(u, stack[i + 1], Below(i + 1))'
    BY <1>0, <1>1, <1>3 DEF Linking, CoreInv, ListIntact
  <2>4. ASSUME NEW j \in 1..Len(stack'), j # 1
        PROVE  \/ next'[stack'[j]] = Below(j)'
               \/ /\ next'[stack'[j]] = Pending
                  /\ \E u \in Thread : Linking(u, stack[j], Below(j))'
    <3>1. j - 1 \in 1..top /\ (j - 1) + 1 = j
      BY <2>4, <1>0, <1>1
    <3> QED
      BY <3>1, <2>3
  <2> QED
    BY <2>1, <2>2, <2>4 DEF ListIntact
<1>6. NodesOwned'
  <2>1. \A u \in Thread, m \in Node :
          Owns(u, m)' <=> Owns(u, m) /\ ~ (u = t /\ m = n)
    BY <1>0 DEF Owns, Pushing, PC
  <2>2. Owns(t, n)
    BY <1>0 DEF Owns, Pushing
  <2>3. \A i, j \in 1..Len(stack') : stack'[i] = stack'[j] => i = j
    <3>1. \A i \in 1..top : stack[i] # n
      BY <1>0 DEF InStack
    <3>2. \A i, j \in 1..top : stack[i] = stack[j] => i = j
      BY DEF CoreInv, NodesOwned
    <3>3. SUFFICES ASSUME NEW i \in 1..Len(stack'), NEW j \in 1..Len(stack'),
                          stack'[i] = stack'[j]
                   PROVE  i = j
      OBVIOUS
    <3>4. CASE i = 1 \/ j = 1
      BY <3>1, <3>3, <3>4, <1>1, <1>2
    <3>5. CASE i # 1 /\ j # 1
      <4>1. i - 1 = j - 1
        BY <3>2, <3>3, <3>5, <1>2
      <4> QED
        BY <4>1, <1>0, <1>1
    <3> QED
      BY <3>4, <3>5
  <2>4. /\ \A m \in Node : m \in alloc <=> InStack(m) \/ \E u \in Thread : Owns(u, m)
        /\ \A u \in Thread, m \in Node :
             Owns(u, m) => ~ InStack(m) /\ \A w \in Thread : Owns(w, m) => w = u
    BY DEF CoreInv, NodesOwned
  <2>5. \A m \in Node : m \in alloc' <=> InStack(m)' \/ \E u \in Thread : Owns(u, m)'
    BY ONLY <2>1, <2>2, <2>4, <1>0, <1>2
  <2>6. \A u \in Thread, m \in Node :
          Owns(u, m)' => ~ InStack(m)' /\ \A w \in Thread : Owns(w, m)' => w = u
    BY ONLY <2>1, <2>2, <2>4, <1>0, <1>2
  <2> QED
    BY ONLY <2>3, <2>5, <2>6 DEF NodesOwned
<1>7. BuildersPending'
  BY <1>0 DEF CoreInv, BuildersPending, Pushing, PC
<1>8. LinkersListed'
  <2>1. ASSUME NEW u \in Thread, pc'[u] = "link"
        PROVE  \E i \in 1..Len(stack') : /\ stack'[i] = node'[u]
                                         /\ next'[node'[u]] = Pending
                                         /\ hptr'[u] = Below(i)'
    <3>1. CASE u = t
      BY <3>1, <1>0, <1>1, <1>3
    <3>2. CASE u # t
      <4>1. PICK i \in 1..top : /\ stack[i] = node[u]
                                /\ next[node[u]] = Pending
                                /\ hptr[u] = Below(i)
        BY <3>2, <2>1, <1>0 DEF CoreInv, LinkersListed
      <4> QED
        BY <4>1, <1>0, <1>1, <1>3
    <3> QED
      BY <3>1, <3>2
  <2>2. ASSUME NEW u \in Thread, pc'[u] = "link", u # t
        PROVE  pc[u] = "link" /\ node[u] # n
    BY <2>2, <1>0 DEF CoreInv, LinkersListed, InStack
  <2> QED
    BY <2>1, <2>2, <1>0 DEF CoreInv, LinkersListed
<1>9. ASSUME Apart PROVE Apart'
  <2>1. BuildersHidden'
    BY <1>9, <1>0 DEF Apart, BuildersHidden, Pushing, Popping, PC
  <2>2. PopperFresh'
    BY <1>9, <1>0, <1>2
       DEF CoreInv, TypeOK, Apart, PopperFresh, BuildersHidden, InStack, Pushing, Popping, PC
  <2>3. ConsumersPop'
    BY <1>9, <1>0 DEF Apart, ConsumersPop, Popping, PC
  <2>4. SoleConsumerListed'
    <3> SUFFICES ASSUME SingleConsumer, NEW u \in Thread, pc'[u] \in Popping
                 PROVE  InStack(hptr[u])'
      BY <1>0 DEF SoleConsumerListed
    <3>1. u # t /\ pc[u] \in Popping
      BY <1>0 DEF Popping, PC
    <3>2. PICK i \in 1..top : stack[i] = hptr[u]
      BY <1>9, <3>1 DEF Apart, SoleConsumerListed, InStack
    <3>3. i + 1 \in 1..Len(stack') /\ stack'[i + 1] = stack[i]
      BY <1>0, <1>1
    <3> QED
      BY <3>2, <3>3, <1>0 DEF InStack
  <2> QED
    BY <2>1, <2>2, <2>3, <2>4 DEF Apart
<1> QED
  BY <1>5, <1>6, <1>7, <1>8, <1>9 DEF CoreInv

-----------------------------------------------------------------------------
(* Removing the node on top of the list, by its own link.                  *)

LEMMA PopCasStep ==
  ASSUME CoreInv, TypeOK', NEW t \in Thread, PopCas(t), nxt[t] = next[hptr[t]]
  PROVE  CoreInv' /\ (Apart => Apart')
<1> USE DistinctAssumption
<1> DEFINE h == hptr[t]
           top == Len(stack)
<1>0. /\ h \in Node /\ stack \in Seq(Node) /\ top \in Nat /\ top # 0
      /\ head = h /\ head' = nxt[t] /\ stack[1] = h
      /\ alloc' = alloc /\ next' = next /\ value' = value
      /\ node' = node /\ hptr' = hptr /\ val' = val
      /\ pc[t] = "popCas" /\ pc' = [pc EXCEPT ![t] = "take"]
      /\ pc \in [Thread -> PC] /\ nxt' = [nxt EXCEPT ![t] = Null] /\ nxt[t] # Pending
  BY EmptySeq, LenProperties
     DEF CoreInv, TypeOK, PopCas, Popping, ListIntact
<1>1. /\ stack' \in Seq(Node) /\ Len(stack') = top - 1
      /\ \A i \in 1..top - 1 : stack'[i] = stack[i + 1]
  BY <1>0, Popped, EmptySeq DEF PopCas
<1>2. /\ \A i \in 1..top - 1 : i + 1 \in 1..top
      /\ \A i \in 1..top : i = 1 \/ (i - 1 \in 1..top - 1 /\ (i - 1) + 1 = i)
  BY <1>0
<1>3. \A i \in 1..top - 1 : stack[i + 1] # h
  BY <1>0, <1>2 DEF CoreInv, NodesOwned
<1>4. \A m \in Node : InStack(m)' <=> InStack(m) /\ m # h
  <2>1. ASSUME NEW m \in Node, InStack(m)' PROVE InStack(m) /\ m # h
    BY <2>1, <1>1, <1>2, <1>3 DEF InStack
  <2>2. ASSUME NEW m \in Node, InStack(m), m # h PROVE InStack(m)'
    <3>1. PICK i \in 1..top : stack[i] = m
      BY <2>2 DEF InStack
    <3>2. i - 1 \in 1..Len(stack') /\ stack'[i - 1] = m
      BY <3>1, <2>2, <1>0, <1>1, <1>2
    <3> QED
      BY <3>2 DEF InStack
  <2> QED
    BY <2>1, <2>2 DEF InStack
<1>5. \A i \in 1..top - 1 : Below(i)' = Below(i + 1)
  <2> SUFFICES ASSUME NEW i \in 1..top - 1 PROVE Below(i)' = Below(i + 1)
    OBVIOUS
  <2>1. CASE i = top - 1
    BY <2>1, <1>0, <1>1 DEF Below
  <2>2. CASE i # top - 1
    <3>1. i + 1 \in 1..top - 1 /\ i + 1 # top
      BY <2>2, <1>0
    <3> QED
      BY <2>2, <3>1, <1>0, <1>1 DEF Below
  <2> QED
    BY <2>1, <2>2
<1>6. InStack(h) /\ next[h] # Pending /\ nxt[t] = Below(1)
  <2>1. InStack(h)
    BY <1>0 DEF InStack
  <2>2. nxt[t] = next[h] /\ next[h] # Pending
    BY <1>0
  <2>3. next[h] = Below(1)
    BY <2>2, <1>0 DEF CoreInv, ListIntact
  <2> QED
    BY <2>1, <2>2, <2>3
<1>7. ListIntact'
  <2>1. head' = IF stack' = <<>> THEN Null ELSE stack'[1]
    <3>1. CASE top = 1
      BY <3>1, <1>0, <1>1, <1>6, EmptySeq DEF Below
    <3>2. CASE top # 1
      <4>1. 1 \in 1..top - 1 /\ stack' # <<>>
        BY <3>2, <1>0, <1>1, EmptySeq
      <4> QED
        BY <4>1, <3>2, <1>0, <1>1, <1>6 DEF Below
    <3> QED
      BY <3>1, <3>2
  <2>2. ASSUME NEW i \in 1..top - 1
        PROVE  \/ next'[stack'[i]] = Below(i)'
               \/ /\ next'[stack'[i]] = Pending
                  /\ \E u \in Thread : Linking(u, stack[i], Below(i))'
    <3>1. \/ next[stack[i + 1]] = Below(i + 1)
          \/ /\ next[stack[i + 1]] = Pending
             /\ \E u \in Thread : Linking(u, stack[i + 1], Below(i + 1))
      BY <1>2 DEF CoreInv, ListIntact
    <3> QED
      BY <3>1, <1>0, <1>1, <1>5 DEF Linking
  <2> QED
    BY <2>1, <2>2, <1>1 DEF ListIntact
<1>8. NodesOwned'
  <2>1. \A u \in Thread, m \in Node :
          Owns(u, m)' <=> Owns(u, m) \/ (u = t /\ m = h)
    BY <1>0 DEF Owns, Pushing, PC
  <2>2. \A u \in Thread : ~ Owns(u, h)
    BY <1>0, <1>6 DEF CoreInv, NodesOwned
  <2>3. \A i, j \in 1..Len(stack') : stack'[i] = stack'[j] => i = j
    <3> SUFFICES ASSUME NEW i \in 1..top - 1, NEW j \in 1..top - 1,
                        stack'[i] = stack'[j]
                 PROVE  i = j
      BY <1>1
    <3>1. i + 1 = j + 1
      BY <1>1, <1>2 DEF CoreInv, NodesOwned
    <3> QED
      BY <3>1, <1>0
  <2> QED
    BY <2>1, <2>2, <2>3, <1>0, <1>4, <1>6 DEF CoreInv, NodesOwned
<1>9. BuildersPending'
  BY <1>0 DEF CoreInv, BuildersPending, Pushing, PC
<1>10. LinkersListed'
  <2>1. ASSUME NEW u \in Thread, pc'[u] = "link"
        PROVE  \E i \in 1..Len(stack') : /\ stack'[i] = node'[u]
                                         /\ next'[node'[u]] = Pending
                                         /\ hptr'[u] = Below(i)'
    <3>1. PICK i \in 1..top : /\ stack[i] = node[u]
                              /\ next[node[u]] = Pending
                              /\ hptr[u] = Below(i)
      BY <2>1, <1>0 DEF CoreInv, LinkersListed
    <3>2. i # 1
      BY <3>1, <1>0, <1>6
    <3>3. i - 1 \in 1..Len(stack') /\ stack'[i - 1] = stack[i] /\ Below(i - 1)' = Below(i)
      BY <3>2, <1>1, <1>2, <1>5
    <3> QED
      BY <3>1, <3>3, <1>0
  <2> QED
    BY <2>1, <1>0 DEF CoreInv, LinkersListed
<1>11. ASSUME Apart PROVE Apart'
  <2>1. BuildersHidden'
    BY <1>11, <1>0 DEF Apart, BuildersHidden, Pushing, Popping, PC
  <2>2. PopperFresh'
    BY <1>11, <1>0, <1>4 DEF CoreInv, TypeOK, Apart, PopperFresh, InStack, Popping, PC
  <2>3. ConsumersPop'
    BY <1>11, <1>0 DEF Apart, ConsumersPop, Popping, PC
  <2>4. SoleConsumerListed'
    <3> SUFFICES ASSUME SingleConsumer, NEW u \in Thread, pc'[u] \in Popping
                 PROVE  FALSE
      BY DEF SoleConsumerListed
    <3>1. u # t /\ pc[u] \in Popping
      BY <1>0 DEF Popping, PC
    <3>2. u \in Consumer /\ t \in Consumer
      BY <1>11, <3>1, <1>0 DEF Apart, ConsumersPop, Popping
    <3> QED
      BY <3>1, <3>2 DEF SingleConsumer
  <2> QED
    BY <2>1, <2>2, <2>3, <2>4 DEF Apart
<1> QED
  BY <1>7, <1>8, <1>9, <1>10, <1>11 DEF CoreInv

-----------------------------------------------------------------------------
(* The steps that leave the list's membership as it is.                    *)

(* The late store: the node's next stops being the sentinel.               *)
LEMMA PushLinkStep ==
  ASSUME CoreInv, TypeOK', NEW t \in Thread, PushLink(t)
  PROVE  CoreInv' /\ (Apart => Apart')
<1> USE DistinctAssumption
<1> DEFINE n == node[t]
<1>0. /\ n \in Node /\ stack \in Seq(Node) /\ next \in [Node -> Link]
      /\ pc \in [Thread -> PC] /\ pc[t] = "link"
      /\ head' = head /\ alloc' = alloc /\ value' = value /\ stack' = stack
      /\ next' = [next EXCEPT ![n] = hptr[t]]
      /\ node' = [node EXCEPT ![t] = Null] /\ hptr' = [hptr EXCEPT ![t] = Null]
      /\ nxt' = nxt /\ pc' = [pc EXCEPT ![t] = "idle"]
      /\ node \in [Thread -> Node \cup {Null}]
      /\ hptr \in [Thread -> Node \cup {Null}]
      /\ \A u \in Thread : pc[u] \in Popping \cup {"take"} => hptr[u] \in Node
      /\ \A u \in Thread : pc[u] \in Pushing \cup {"link"} => node[u] \in Node
  BY DEF CoreInv, TypeOK, PushLink
<1>1. PICK k \in 1..Len(stack) :
        stack[k] = n /\ next[n] = Pending /\ hptr[t] = Below(k)
  BY <1>0 DEF CoreInv, LinkersListed
<1>2. InStack(n) /\ \A u \in Thread : ~ Owns(u, n)
  BY <1>0, <1>1 DEF CoreInv, NodesOwned, InStack
<1>3. \A u \in Thread \ {t} : pc[u] = "link" => node[u] # n
  BY <1>0 DEF CoreInv, LinkersListed
<1>4. ListIntact'
  <2>1. ASSUME NEW i \in 1..Len(stack)
        PROVE  \/ next'[stack[i]] = Below(i)
               \/ /\ next'[stack[i]] = Pending
                  /\ \E u \in Thread : Linking(u, stack[i], Below(i))'
    <3>1. CASE stack[i] = n
      <4>1. i = k
        BY <3>1, <1>1 DEF CoreInv, NodesOwned
      <4> QED
        BY <4>1, <1>0, <1>1
    <3>2. CASE stack[i] # n
      <4>1. next'[stack[i]] = next[stack[i]]
        BY <3>2, <1>0
      <4>2. \A u \in Thread : Linking(u, stack[i], Below(i)) => u # t
        BY <3>2 DEF Linking
      <4> QED
        BY <4>1, <4>2, <1>0 DEF CoreInv, ListIntact, Linking, Below
    <3> QED
      BY <3>1, <3>2
  <2> QED
    BY <2>1, <1>0 DEF CoreInv, ListIntact, Below
<1>5. NodesOwned'
  BY <1>0 DEF CoreInv, NodesOwned, Owns, InStack, Pushing, PC
<1>6. BuildersPending'
  <2> SUFFICES ASSUME NEW u \in Thread, pc'[u] \in Pushing
               PROVE  next'[node'[u]] = Pending
    BY DEF BuildersPending
  <2>1. u # t /\ pc[u] \in Pushing
    BY <1>0 DEF Pushing, PC
  <2>2. node[u] # n /\ node[u] \in Node
    BY <2>1, <1>0, <1>2 DEF Owns
  <2> QED
    BY <2>1, <2>2, <1>0 DEF CoreInv, BuildersPending
<1>7. LinkersListed'
  BY <1>0, <1>3 DEF CoreInv, LinkersListed, Below
<1>8. ASSUME Apart PROVE Apart'
  <2>1. BuildersHidden'
    BY <1>8, <1>0 DEF Apart, BuildersHidden, Pushing, Popping, PC
  <2>2. PopperFresh'
    BY <1>8, <1>0, <1>1 DEF Apart, PopperFresh, InStack, Popping
  <2>3. ConsumersPop'
    BY <1>8, <1>0 DEF Apart, ConsumersPop, Popping, PC
  <2>4. SoleConsumerListed'
    BY <1>8, <1>0 DEF Apart, SoleConsumerListed, InStack, Popping, PC
  <2> QED
    BY <2>1, <2>2, <2>3, <2>4 DEF Apart
<1> QED
  BY <1>4, <1>5, <1>6, <1>7, <1>8 DEF CoreInv

(* A new node is neither listed nor owned; SafeReclamation keeps its       *)
(* address apart from those that poppers hold, too.                        *)
LEMMA PushNewStep ==
  ASSUME CoreInv, TypeOK', NEW t \in Thread, NEW v \in Value, PushNew(t, v)
  PROVE  CoreInv' /\ (Apart /\ SafeReclamation => Apart')
<1> USE DistinctAssumption
<1>0. PICK n \in Node :
        /\ Fresh(n) /\ alloc' = alloc \cup {n}
        /\ next' = [next EXCEPT ![n] = Pending]
        /\ node' = [node EXCEPT ![t] = n]
  BY DEF PushNew
<1>1. /\ stack \in Seq(Node) /\ next \in [Node -> Link]
      /\ pc \in [Thread -> PC] /\ pc[t] = "idle"
      /\ head' = head /\ stack' = stack /\ hptr' = hptr /\ nxt' = nxt
      /\ pc' = [pc EXCEPT ![t] = "construct"]
      /\ node \in [Thread -> Node \cup {Null}]
      /\ \A u \in Thread : pc[u] \in Popping \cup {"take"} => hptr[u] \in Node
      /\ \A u \in Thread : pc[u] \in Pushing \cup {"link"} => node[u] \in Node
  BY DEF CoreInv, TypeOK, PushNew
<1>2. ~ InStack(n) /\ \A u \in Thread : ~ Owns(u, n)
  BY <1>0 DEF Fresh, CoreInv, NodesOwned
<1>4. \A u \in Thread : pc[u] \in Pushing => node[u] # n
  BY <1>2 DEF Owns
<1>5. \A i \in 1..Len(stack) : next'[stack[i]] = next[stack[i]]
  BY <1>0, <1>1, <1>2, ElementOfSeq DEF InStack
<1>6. ListIntact'
  BY <1>0, <1>1, <1>5 DEF CoreInv, ListIntact, Linking, Below
<1>7. NodesOwned'
  <2>1. \A u \in Thread, m \in Node :
          Owns(u, m)' <=> Owns(u, m) \/ (u = t /\ m = n)
    BY <1>0, <1>1 DEF Owns, Pushing, PC
  <2> QED
    BY <2>1, <1>0, <1>1, <1>2 DEF CoreInv, NodesOwned, InStack
<1>8. BuildersPending'
  BY <1>0, <1>1, <1>4 DEF CoreInv, BuildersPending, Pushing, PC
<1>9. LinkersListed'
  BY <1>0, <1>1, <1>2, <1>5 DEF CoreInv, LinkersListed, Below, InStack
<1>10. ASSUME Apart, SafeReclamation PROVE Apart'
  <2>1. \A u \in Thread : pc[u] \in Popping => hptr[u] # n
    BY <1>10, <1>0, <1>2 DEF Fresh, SafeReclamation, Apart, SoleConsumerListed
  <2>2. BuildersHidden'
    BY <1>10, <1>0, <1>1, <2>1 DEF Apart, BuildersHidden, Pushing, Popping, PC
  <2>3. PopperFresh'
    BY <1>10, <1>0, <1>1, <2>1 DEF Apart, PopperFresh, InStack, Popping
  <2>4. ConsumersPop'
    BY <1>10, <1>1 DEF Apart, ConsumersPop, Popping, PC
  <2>5. SoleConsumerListed'
    BY <1>10, <1>1 DEF Apart, SoleConsumerListed, InStack, Popping, PC
  <2> QED
    BY <2>2, <2>3, <2>4, <2>5 DEF Apart
<1> QED
  BY <1>6, <1>7, <1>8, <1>9, <1>10 DEF CoreInv

(* Any other step: the list is not touched, nor are the threads that link. *)
LEMMA ListUntouched ==
  ASSUME CoreInv, UNCHANGED <<head, next, stack>>,
         \A u \in Thread : pc'[u] = "link" <=> pc[u] = "link",
         \A u \in Thread : pc[u] = "link" => node'[u] = node[u] /\ hptr'[u] = hptr[u]
  PROVE  ListIntact' /\ LinkersListed'
<1>1. ListIntact'
  BY DEF CoreInv, ListIntact, Linking, Below
<1>2. LinkersListed'
  BY DEF CoreInv, LinkersListed, Below
<1> QED
  BY <1>1, <1>2

LEMMA PushLocalStep ==
  ASSUME CoreInv, TypeOK', NEW t \in Thread,
         PushConstruct(t) \/ PushThrow(t) \/ PushCasFail(t)
  PROVE  CoreInv' /\ (Apart => Apart')
<1> USE DistinctAssumption
<1>0. /\ pc \in [Thread -> PC] /\ pc[t] \in Pushing /\ pc'[t] \in Pushing \cup {"idle"}
      /\ pc' = [pc EXCEPT ![t] = pc'[t]]
      /\ UNCHANGED <<head, next, stack, nxt>>
      /\ \A u \in Thread \ {t} : hptr'[u] = hptr[u] /\ node'[u] = node[u]
      /\ pc'[t] \in Pushing => node'[t] = node[t] /\ alloc' = alloc
      /\ pc'[t] = "idle" => alloc' = alloc \ {node[t]}
      /\ \A u \in Thread : pc[u] \in Popping \cup {"take"} => hptr[u] \in Node
      /\ node[t] \in Node
  BY DEF CoreInv, TypeOK, PushConstruct, PushThrow, PushCasFail, heapVars, Pushing
<1>1. ListIntact' /\ LinkersListed'
  BY <1>0, ListUntouched DEF Pushing
<1>2. NodesOwned'
  <2>1. CASE pc'[t] \in Pushing
    <3>1. \A u \in Thread, m \in Node : Owns(u, m)' <=> Owns(u, m)
      BY <2>1, <1>0 DEF Owns, Pushing, PC
    <3> QED
      BY <3>1, <2>1, <1>0 DEF CoreInv, NodesOwned, InStack
  <2>2. CASE pc'[t] = "idle"
    <3>1. \A u \in Thread, m \in Node : Owns(u, m)' <=> Owns(u, m) /\ u # t
      BY <2>2, <1>0 DEF Owns, Pushing, PC
    <3>2. Owns(t, node[t]) /\ \A m \in Node : Owns(t, m) => m = node[t]
      BY <1>0 DEF Owns, Pushing
    <3> QED
      BY <3>1, <3>2, <2>2, <1>0 DEF CoreInv, NodesOwned, InStack
  <2> QED
    BY <2>1, <2>2, <1>0
<1>3. BuildersPending'
  BY <1>0 DEF CoreInv, BuildersPending, Pushing, PC
<1>4. ASSUME Apart PROVE Apart'
  <2>1. BuildersHidden'
    BY <1>4, <1>0 DEF Apart, BuildersHidden, Pushing, Popping, PC
  <2>2. PopperFresh'
    BY <1>4, <1>0 DEF Apart, PopperFresh, InStack, Pushing, Popping, PC
  <2>3. ConsumersPop'
    BY <1>4, <1>0 DEF Apart, ConsumersPop, Pushing, Popping, PC
  <2>4. SoleConsumerListed'
    BY <1>4, <1>0 DEF Apart, SoleConsumerListed, InStack, Pushing, Popping, PC
  <2> QED
    BY <2>1, <2>2, <2>3, <2>4 DEF Apart
<1> QED
  BY <1>1, <1>2, <1>3, <1>4 DEF CoreInv

LEMMA PopLocalStep ==
  ASSUME CoreInv, TypeOK', NEW t \in Thread,
         PopCall(t) \/ PopReturn(t)
  PROVE  CoreInv' /\ (Apart => Apart')
<1>0. /\ pc \in [Thread -> PC] /\ pc[t] \in {"idle", "ret"}
      /\ pc'[t] \in {"idle", "popLoad"} /\ (pc'[t] = "popLoad" => t \in Consumer)
      /\ pc' = [pc EXCEPT ![t] = pc'[t]]
      /\ UNCHANGED <<head, next, stack, alloc, node, hptr>>
      /\ \A u \in Thread \ {t} : nxt'[u] = nxt[u]
  BY DEF CoreInv, TypeOK, PopCall, PopReturn, heapVars
<1>1. ListIntact' /\ LinkersListed'
  BY <1>0, ListUntouched
<1>2. NodesOwned'
  BY <1>0 DEF CoreInv, NodesOwned, Owns, InStack, Pushing
<1>3. BuildersPending'
  BY <1>0 DEF CoreInv, BuildersPending, Pushing
<1>4. ASSUME Apart PROVE Apart'
  <2>1. BuildersHidden'
    BY <1>4, <1>0 DEF Apart, BuildersHidden, Pushing, Popping
  <2>2. PopperFresh'
    BY <1>4, <1>0 DEF Apart, PopperFresh, InStack, Pushing, Popping
  <2>3. ConsumersPop'
    BY <1>4, <1>0 DEF Apart, ConsumersPop, Pushing, Popping
  <2>4. SoleConsumerListed'
    BY <1>4, <1>0 DEF Apart, SoleConsumerListed, InStack, Pushing, Popping
  <2> QED
    BY <2>1, <2>2, <2>3, <2>4 DEF Apart
<1> QED
  BY <1>1, <1>2, <1>3, <1>4 DEF CoreInv

(* A head just read is the top of the list, so it is listed and is not a   *)
(* node somebody builds.                                                   *)
LEMMA ReadHeadStep ==
  ASSUME CoreInv, TypeOK', NEW t \in Thread,
         pc[t] \in {"popLoad", "popCas"}, ReadHead(t)
  PROVE  CoreInv' /\ (Apart => Apart')
<1> USE DistinctAssumption
<1>0. /\ pc \in [Thread -> PC] /\ stack \in Seq(Node)
      /\ pc' = [pc EXCEPT ![t] = IF head = Null THEN "ret" ELSE "spin"]
      /\ UNCHANGED <<head, next, stack, alloc, node, nxt>>
      /\ hptr' = [hptr EXCEPT ![t] = head] /\ head \in Node \cup {Null}
      /\ hptr \in [Thread -> Node \cup {Null}]
      /\ \A u \in Thread : pc[u] \in Pushing \cup {"link"} => node[u] \in Node
  BY DEF CoreInv, TypeOK, ReadHead, heapVars
<1>1. head # Null => InStack(head)
  BY <1>0, EmptySeq, LenProperties DEF CoreInv, ListIntact, InStack
<1>2. ListIntact' /\ LinkersListed'
  BY <1>0, ListUntouched
<1>3. NodesOwned'
  BY <1>0 DEF CoreInv, NodesOwned, Owns, InStack, Pushing, PC
<1>4. BuildersPending'
  BY <1>0 DEF CoreInv, BuildersPending, Pushing
<1>5. ASSUME Apart PROVE Apart'
  <2>1. BuildersHidden'
    <3>1. \A u \in Thread : pc[u] \in Pushing => ~ InStack(node[u])
      BY <1>0 DEF CoreInv, NodesOwned, Owns
    <3> QED
      BY <1>5, <3>1, <1>0, <1>1 DEF Apart, BuildersHidden, Pushing, Popping
  <2>2. PopperFresh'
    BY <1>5, <1>0 DEF Apart, PopperFresh, InStack, Popping
  <2>3. ConsumersPop'
    BY <1>5, <1>0 DEF Apart, ConsumersPop, Popping
  <2>4. SoleConsumerListed'
    BY <1>5, <1>0, <1>1 DEF Apart, SoleConsumerListed, InStack, Popping
  <2> QED
    BY <2>1, <2>2, <2>3, <2>4 DEF Apart
<1> QED
  BY <1>2, <1>3, <1>4, <1>5 DEF CoreInv

(* The link read is the node's own while the node is listed; otherwise it  *)
(* may be anything.                                                        *)
LEMMA PopSpinStep ==
  ASSUME CoreInv, TypeOK', NEW t \in Thread, PopSpin(t)
  PROVE  CoreInv' /\ (Apart => Apart')
<1>0. /\ pc \in [Thread -> PC] /\ pc[t] = "spin"
      /\ pc' = [pc EXCEPT ![t] = "popCas"]
      /\ UNCHANGED <<head, next, stack, alloc, node, hptr>>
      /\ \A u \in Thread \ {t} : nxt'[u] = nxt[u]
      /\ hptr[t] \in alloc => nxt'[t] = next[hptr[t]]
      /\ nxt'[t] # Pending /\ hptr[t] \in Node
  BY DEF CoreInv, TypeOK, PopSpin, Popping, heapVars
<1>1. ListIntact' /\ LinkersListed'
  BY <1>0, ListUntouched
<1>2. NodesOwned'
  BY <1>0 DEF CoreInv, NodesOwned, Owns, InStack, Pushing
<1>3. BuildersPending'
  BY <1>0 DEF CoreInv, BuildersPending, Pushing
<1>4. ASSUME Apart PROVE Apart'
  <2>1. BuildersHidden'
    BY <1>4, <1>0 DEF Apart, BuildersHidden, Pushing, Popping
  <2>2. PopperFresh'
    <3>1. InStack(hptr[t]) => hptr[t] \in alloc
      BY <1>0 DEF CoreInv, NodesOwned
    <3> QED
      BY <3>1, <1>4, <1>0 DEF Apart, PopperFresh, InStack, Popping
  <2>3. ConsumersPop'
    BY <1>4, <1>0 DEF Apart, ConsumersPop, Pushing, Popping
  <2>4. SoleConsumerListed'
    BY <1>4, <1>0 DEF Apart, SoleConsumerListed, InStack, Pushing, Popping
  <2> QED
    BY <2>1, <2>2, <2>3, <2>4 DEF Apart
<1> QED
  BY <1>1, <1>2, <1>3, <1>4 DEF CoreInv

(* The node deleted was the popper's alone.                                *)
LEMMA PopTakeStep ==
  ASSUME CoreInv, TypeOK', NEW t \in Thread, PopTake(t)
  PROVE  CoreInv' /\ (Apart => Apart')
<1>0. /\ pc \in [Thread -> PC] /\ pc[t] = "take" /\ pc' = [pc EXCEPT ![t] = "ret"]
      /\ UNCHANGED <<head, next, stack, node, nxt>>
      /\ alloc' = alloc \ {hptr[t]} /\ hptr[t] \in Node
      /\ \A u \in Thread \ {t} : hptr'[u] = hptr[u]
  BY DEF CoreInv, TypeOK, PopTake
<1>1. ListIntact' /\ LinkersListed'
  BY <1>0, ListUntouched
<1>2. NodesOwned'
  <2>1. \A u \in Thread, m \in Node : Owns(u, m)' <=> Owns(u, m) /\ u # t
    BY <1>0 DEF Owns, Pushing
  <2>2. Owns(t, hptr[t]) /\ \A m \in Node : Owns(t, m) => m = hptr[t]
    BY <1>0 DEF Owns, Pushing
  <2> QED
    BY <2>1, <2>2, <1>0 DEF CoreInv, NodesOwned, InStack
<1>3. BuildersPending'
  BY <1>0 DEF CoreInv, BuildersPending, Pushing
<1>4. ASSUME Apart PROVE Apart'
  <2>1. BuildersHidden'
    BY <1>4, <1>0 DEF Apart, BuildersHidden, Pushing, Popping
  <2>2. PopperFresh'
    BY <1>4, <1>0 DEF Apart, PopperFresh, InStack, Pushing, Popping
  <2>3. ConsumersPop'
    BY <1>4, <1>0 DEF Apart, ConsumersPop, Pushing, Popping
  <2>4. SoleConsumerListed'
    BY <1>4, <1>0 DEF Apart, SoleConsumerListed, InStack, Pushing, Popping
  <2> QED
    BY <2>1, <2>2, <2>3, <2>4 DEF Apart
<1> QED
  BY <1>1, <1>2, <1>3, <1>4 DEF CoreInv

-----------------------------------------------------------------------------
(* The invariant and what follows from it.                                 *)

LEMMA CoreInit == Init => CoreInv /\ Apart
<1> SUFFICES ASSUME Init PROVE CoreInv /\ Apart
  OBVIOUS
<1>0. /\ stack = <<>> /\ Len(stack) = 0 /\ alloc = {} /\ head = Null
      /\ \A t \in Thread : pc[t] = "idle"
  BY EmptySeq DEF Init
<1>1. ListIntact
  BY <1>0 DEF ListIntact
<1>2. NodesOwned
  BY <1>0 DEF NodesOwned, Owns, InStack, Pushing
<1>3. CoreInv
  BY <1>0, <1>1, <1>2, TypeInit DEF CoreInv, BuildersPending, LinkersListed, Pushing
<1>4. Apart
  BY <1>0 DEF Apart, BuildersHidden, PopperFresh, ConsumersPop, SoleConsumerListed, Pushing, Popping
<1> QED
  BY <1>3, <1>4

(* A popper that is apart from the pushers installs no stale link.         *)
LEMMA ApartNotStale ==
  ASSUME CoreInv, Apart
  PROVE  ~ StalePop
<1> SUFFICES ASSUME NEW t \in Thread, PopCas(t)
             PROVE  nxt[t] = next[hptr[t]]
  BY DEF StalePop
<1>1. pc[t] = "popCas" /\ head = hptr[t] /\ head \in Node /\ stack \in Seq(Node)
  BY DEF PopCas, CoreInv, TypeOK, Popping
<1>2. InStack(hptr[t])
  BY <1>1, DistinctAssumption, EmptySeq, LenProperties DEF CoreInv, ListIntact, InStack
<1> QED
  BY <1>1, <1>2 DEF Apart, PopperFresh

LEMMA CoreStep ==
  ASSUME CoreInv, [Next]_vars, ~ StalePop
  PROVE  CoreInv' /\ (Apart /\ SafeReclamation => Apart')
<1>1. TypeOK'
  BY TypeStep DEF CoreInv
<1> DEFINE Kept == CoreInv' /\ (Apart /\ SafeReclamation => Apart')
<1>2. ASSUME NEW t \in Thread, NEW v \in Value, PushNew(t, v) PROVE Kept
  BY <1>1, <1>2, PushNewStep
<1>3. ASSUME NEW t \in Thread, Push(t) PROVE Kept
  BY <1>1, <1>3, PushLocalStep, PushCasStep, PushLinkStep DEF Push
<1>4. ASSUME NEW t \in Thread, PopCall(t) PROVE Kept
  BY <1>1, <1>4, PopLocalStep
<1>5. ASSUME NEW t \in Thread, Pop(t) PROVE Kept
  <2>1. CASE PopLoad(t) \/ PopCasFail(t)
    BY <2>1, <1>1, ReadHeadStep DEF PopLoad, PopCasFail
  <2>2. CASE PopSpin(t)
    BY <2>2, <1>1, PopSpinStep
  <2>3. CASE PopCas(t)
    BY <2>3, <1>1, PopCasStep DEF StalePop
  <2>4. CASE PopTake(t)
    BY <2>4, <1>1, PopTakeStep
  <2>5. CASE PopReturn(t)
    BY <2>5, <1>1, PopLocalStep
  <2> QED
    BY <1>5, <2>1, <2>2, <2>3, <2>4, <2>5 DEF Pop
<1>6. CASE UNCHANGED vars
  <2>1. CoreInv'
    BY <1>1, <1>6
       DEF CoreInv, ListIntact, NodesOwned, BuildersPending, LinkersListed, Linking, Below, Owns,
           InStack, vars, heapVars, localVars
  <2>2. Apart => Apart'
    BY <1>6
       DEF Apart, BuildersHidden, PopperFresh, ConsumersPop, SoleConsumerListed, InStack,
           vars, heapVars, localVars
  <2> QED
    BY <2>1, <2>2
<1> QED
  BY <1>2, <1>3, <1>4, <1>5, <1>6 DEF Next

(* The state always has the shape its type invariant says, whatever the    *)
(* allocator and the threads do.                                           *)
THEOREM TypeCorrect == Spec => []TypeOK
<1>1. Init => TypeOK
  BY TypeInit
<1>2. TypeOK /\ [Next]_vars => TypeOK'
  BY TypeStep
<1> QED
  BY <1>1, <1>2, PTL DEF Spec

(* Whatever addresses the allocator hands out and however many threads pop: *)
(* the invariant holds until a StalePop.                                   *)
THEOREM Invariance == Spec /\ [][~ StalePop]_vars => []CoreInv
<1>1. Init => CoreInv
  BY CoreInit
<1>2. CoreInv /\ [Next]_vars /\ [~ StalePop]_vars => CoreInv'
  <2>1. CoreInv /\ UNCHANGED vars => ~ StalePop
    BY DEF CoreInv, TypeOK, StalePop, PopCas, vars, localVars
  <2> QED
    BY <2>1, CoreStep
<1> QED
  BY <1>1, <1>2, PTL DEF Spec

(* head and the next pointers spell the elements pushed and not popped, up *)
(* to the links that pushers have yet to store, as long as no try_pop      *)
(* installs a stale link.                                                  *)
THEOREM ListCorrect == Spec /\ [][~ StalePop]_vars => []ListIntact
<1>1. CoreInv => ListIntact
  BY DEF CoreInv
<1> QED
  BY <1>1, Invariance, PTL

(* So long every node on the heap is listed once or has one owner: it is   *)
(* deleted once, and none leaks.                                           *)
THEOREM NodesCorrect == Spec /\ [][~ StalePop]_vars => []NodesOwned
<1>1. CoreInv => NodesOwned
  BY DEF CoreInv
<1> QED
  BY <1>1, Invariance, PTL

(* So long the late store of push finds its node still in the list.        *)
THEOREM LinkTargetCorrect == Spec /\ [][~ StalePop]_vars => []LinkTargetAlive
<1>1. CoreInv => LinkTargetAlive
  BY DEF CoreInv, LinkersListed, LinkTargetAlive, InStack
<1> QED
  BY <1>1, Invariance, PTL

LEMMA ApartAlways == ASSUME SafeReclamation PROVE Spec => [](CoreInv /\ Apart)
<1>1. Init => CoreInv /\ Apart
  BY CoreInit
<1>2. (CoreInv /\ Apart) /\ [Next]_vars => (CoreInv /\ Apart)'
  BY CoreStep, ApartNotStale
<1> QED
  BY <1>1, <1>2, PTL DEF Spec

(* With a single consumer, or an allocator that does not reuse an address  *)
(* a popper holds, no try_pop installs a stale link.                       *)
THEOREM NeverStale == ASSUME SafeReclamation PROVE Spec => [][~ StalePop]_vars
<1>1. CoreInv /\ Apart => ~ StalePop
  BY ApartNotStale
<1> QED
  BY <1>1, ApartAlways, PTL

(* With a single consumer no thread ever touches freed memory, however     *)
(* soon the allocator reuses it.                                           *)
THEOREM MemorySafe == ASSUME SingleConsumer PROVE Spec => []NoUseAfterFree
<1>1. CoreInv /\ Apart => NoUseAfterFree
  BY DEF CoreInv, Apart, TypeOK, NodesOwned, Owns, LinkersListed, InStack,
         SoleConsumerListed, NoUseAfterFree, Pushing, Popping
<1>2. SafeReclamation
  BY DEF SafeReclamation
<1> QED
  BY <1>1, <1>2, ApartAlways, PTL

(***************************************************************************)
(* ConcurrentQueue implements the atomic stack LinearStack: the steps that *)
(* its invariant allows are those of LinearStack, or leave the abstract    *)
(* state as it is.                                                         *)
(***************************************************************************)

(* The element push carries is the one it built into its node; a try_pop   *)
(* has none until its CAS.                                                 *)
CarriesValue ==
  /\ \A t \in Thread : pc[t] = "pushCas" => value[node[t]] = val[t]
  /\ \A t \in Thread : pc[t] \in {"idle", "popLoad"} \cup Popping => val[t] = None

LEMMA CarriesInit == Init => CarriesValue
  BY DEF Init, CarriesValue

LEMMA CarriesStep ==
  ASSUME CoreInv, CarriesValue, [Next]_vars
  PROVE  CarriesValue'
<1> USE DEF CarriesValue, Popping
<1>0. /\ TypeOK /\ \A t, u \in Thread : \A n \in Node :
           Owns(t, n) /\ Owns(u, n) => u = t
  BY DEF CoreInv, NodesOwned
<1>1. ASSUME NEW t \in Thread, NEW v \in Value, PushNew(t, v) PROVE CarriesValue'
  <2>1. PICK n \in Node : /\ Fresh(n)
                          /\ value' = [value EXCEPT ![n] = None]
                          /\ node' = [node EXCEPT ![t] = n]
    BY <1>1 DEF PushNew
  <2>2. \A u \in Thread : pc[u] = "pushCas" => node[u] # n /\ node[u] \in Node
    BY <2>1, <1>0 DEF Fresh, CoreInv, NodesOwned, Owns, TypeOK, Pushing
  <2> QED
    BY <1>1, <1>0, <2>1, <2>2 DEF PushNew, TypeOK
<1>2. ASSUME NEW t \in Thread, PushConstruct(t) PROVE CarriesValue'
  <2>1. \A u \in Thread : pc[u] = "pushCas" => node[u] # node[t] /\ node[u] \in Node
    BY <1>2, <1>0 DEF PushConstruct, Owns, TypeOK, Pushing
  <2> QED
    BY <1>2, <1>0, <2>1 DEF PushConstruct, TypeOK, Pushing
<1>3. ASSUME NEW t \in Thread, PushThrow(t) PROVE CarriesValue'
  BY <1>3, <1>0 DEF PushThrow, TypeOK
<1>4. ASSUME NEW t \in Thread, PushCas(t) PROVE CarriesValue'
  BY <1>4, <1>0 DEF PushCas, TypeOK
<1>5. ASSUME NEW t \in Thread, PushCasFail(t) PROVE CarriesValue'
  BY <1>5, <1>0 DEF PushCasFail, heapVars
<1>6. ASSUME NEW t \in Thread, PushLink(t) PROVE CarriesValue'
  BY <1>6, <1>0 DEF PushLink, TypeOK
<1>7. ASSUME NEW t \in Thread, PopCall(t) PROVE CarriesValue'
  BY <1>7, <1>0 DEF PopCall, TypeOK, heapVars
<1>8. ASSUME NEW t \in Thread, ReadHead(t), pc[t] \in {"popLoad", "popCas"}
      PROVE  CarriesValue'
  BY <1>8, <1>0 DEF ReadHead, TypeOK, heapVars
<1>9. ASSUME NEW t \in Thread, PopSpin(t) PROVE CarriesValue'
  BY <1>9, <1>0 DEF PopSpin, TypeOK, heapVars
<1>10. ASSUME NEW t \in Thread, PopCas(t) PROVE CarriesValue'
  BY <1>10, <1>0 DEF PopCas, TypeOK
<1>11. ASSUME NEW t \in Thread, PopTake(t) PROVE CarriesValue'
  <2>1. \A u \in Thread : pc[u] = "pushCas" => node[u] # hptr[t] /\ node[u] \in Node
    BY <1>11, <1>0 DEF PopTake, Owns, TypeOK, Pushing
  <2> QED
    BY <1>11, <1>0, <2>1 DEF PopTake, TypeOK
<1>12. ASSUME NEW t \in Thread, PopReturn(t) PROVE CarriesValue'
  BY <1>12, <1>0 DEF PopReturn, TypeOK, heapVars
<1>13. CASE UNCHANGED vars
  BY <1>13 DEF vars, heapVars, localVars
<1> QED
  BY <1>1, <1>2, <1>3, <1>4, <1>5, <1>6, <1>7, <1>8, <1>9, <1>10, <1>11,
     <1>12, <1>13 DEF Next, Push, Pop, PopLoad, PopCasFail

-----------------------------------------------------------------------------
(* The abstract stack and how the two CASes change it.                     *)

Element == Value \cup {None}

(* The elements of the nodes s, by the nodes' values v.                    *)
Mapped(s, v) == [i \in 1..Len(s) |-> v[s[i]]]

LEMMA MapSeq ==
  ASSUME NEW s \in Seq(Node), NEW v \in [Node -> Element]
  PROVE  /\ Mapped(s, v) \in Seq(Element) /\ Len(Mapped(s, v)) = Len(s)
         /\ \A i \in 1..Len(s) : Mapped(s, v)[i] = v[s[i]]
<1>1. Len(s) \in Nat /\ \A i \in 1..Len(s) : v[s[i]] \in Element
  BY LenProperties, ElementOfSeq
<1> QED
  BY <1>1 DEF Mapped

(* Mapping a sequence and adding an element in front commute.              *)
LEMMA MapPushed ==
  ASSUME NEW s \in Seq(Node), NEW n \in Node, NEW v \in [Node -> Element]
  PROVE  Mapped(<<n>> \o s, v) = <<v[n]>> \o Mapped(s, v)
<1> DEFINE r == <<n>> \o s
           e == Mapped(s, v)
           m == Mapped(r, v)
           q == <<v[n]>> \o e
<1>1. Len(s) \in Nat /\ v[n] \in Element
  BY LenProperties
<1>2. r \in Seq(Node) /\ Len(r) = Len(s) + 1 /\ r[1] = n /\ \A i \in 1..Len(s) : r[i + 1] = s[i]
  BY <1>1, Pushed
<1>3. e \in Seq(Element) /\ Len(e) = Len(s) /\ \A i \in 1..Len(s) : e[i] = v[s[i]]
  BY MapSeq
<1> HIDE DEF r, e
<1>4. m \in Seq(Element) /\ Len(m) = Len(r) /\ \A i \in 1..Len(r) : m[i] = v[r[i]]
  BY <1>2, MapSeq
<1>5. /\ q \in Seq(Element) /\ Len(q) = Len(s) + 1 /\ q[1] = v[n]
      /\ \A i \in 1..Len(s) : q[i + 1] = e[i]
  BY <1>1, <1>3, Pushed
<1> HIDE DEF q, m
<1>6. ASSUME NEW j \in 1..Len(s) PROVE m[j + 1] = q[j + 1]
  <2>1. j + 1 \in 1..Len(r)
    BY <1>1, <1>2
  <2>2. m[j + 1] = v[r[j + 1]]
    BY <2>1, <1>4
  <2> QED
    BY <2>2, <1>2, <1>3, <1>5
<1>7. m[1] = q[1]
  BY <1>1, <1>2, <1>4, <1>5
<1>8. ASSUME NEW i \in 1..Len(m) PROVE m[i] = q[i]
  <2>1. i = 1 \/ (i - 1 \in 1..Len(s) /\ (i - 1) + 1 = i)
    BY <1>1, <1>2, <1>4
  <2> QED
    BY <2>1, <1>6, <1>7
<1>9. m = q
  BY <1>2, <1>4, <1>5, <1>8, SeqEqual
<1> QED
  BY <1>9 DEF q, m, r, e

(* And so do mapping and taking the tail.                                  *)
LEMMA MapPopped ==
  ASSUME NEW s \in Seq(Node), NEW v \in [Node -> Element], s # <<>>
  PROVE  /\ Mapped(s, v) # <<>> /\ Head(Mapped(s, v)) = v[s[1]]
         /\ Mapped(SubSeq(s, 2, Len(s)), v) = Tail(Mapped(s, v))
<1> DEFINE r == SubSeq(s, 2, Len(s))
           e == Mapped(s, v)
           m == Mapped(r, v)
           q == Tail(e)
<1>1. Len(s) \in Nat /\ Len(s) # 0
  BY LenProperties, EmptySeq
<1>2. /\ r \in Seq(Node) /\ Len(r) = Len(s) - 1
      /\ \A i \in 1..Len(s) - 1 : r[i] = s[i + 1]
  BY <1>1, Popped
<1>3. e \in Seq(Element) /\ Len(e) = Len(s) /\ \A i \in 1..Len(s) : e[i] = v[s[i]]
  BY MapSeq
<1> HIDE DEF r, e
<1>4. e # <<>> /\ Head(e) = v[s[1]]
  BY <1>1, <1>3, EmptySeq
<1>5. m \in Seq(Element) /\ Len(m) = Len(r) /\ \A i \in 1..Len(r) : m[i] = v[r[i]]
  BY <1>2, MapSeq
<1>6. /\ q \in Seq(Element) /\ Len(q) = Len(s) - 1
      /\ \A i \in 1..Len(s) - 1 : q[i] = e[i + 1]
  BY <1>1, <1>3, <1>4, HeadTailProperties
<1> HIDE DEF q, m
<1>7. ASSUME NEW i \in 1..Len(m) PROVE m[i] = q[i]
  <2>1. i \in 1..Len(s) - 1 /\ i + 1 \in 1..Len(s) /\ i \in 1..Len(r)
    BY <1>1, <1>2, <1>5
  <2>2. m[i] = v[r[i]] /\ r[i] = s[i + 1]
    BY <2>1, <1>2, <1>5
  <2>3. q[i] = e[i + 1] /\ e[i + 1] = v[s[i + 1]]
    BY <2>1, <1>3, <1>6
  <2> QED
    BY <2>2, <2>3
<1>8. m = q
  BY <1>2, <1>5, <1>6, <1>7, SeqEqual
<1> QED
  BY <1>4, <1>8 DEF q, m, r, e

LEMMA ElemsSeq ==
  ASSUME TypeOK
  PROVE  Elems \in Seq(Element) /\ Len(Elems) = Len(stack)
  BY MapSeq DEF Elems, Mapped, TypeOK, Element

LEMMA ElemsMapped ==
  /\ Elems = Mapped(stack, value)
  /\ Elems' = Mapped(stack', value')
  BY DEF Elems, Mapped

LEMMA ElemsSame ==
  ASSUME stack' = stack, \A i \in 1..Len(stack) : value'[stack[i]] = value[stack[i]]
  PROVE  Elems' = Elems
  BY DEF Elems

LEMMA ElemsPushed ==
  ASSUME TypeOK, NEW n \in Node, stack' = <<n>> \o stack, value' = value
  PROVE  Elems' = <<value[n]>> \o Elems
<1>1. stack \in Seq(Node) /\ value \in [Node -> Element]
  BY DEF TypeOK, Element
<1>2. Mapped(<<n>> \o stack, value) = <<value[n]>> \o Mapped(stack, value)
  BY <1>1, MapPushed
<1> QED
  BY <1>2, ElemsMapped

LEMMA ElemsPopped ==
  ASSUME TypeOK, stack # <<>>,
         stack' = SubSeq(stack, 2, Len(stack)), value' = value
  PROVE  Elems # <<>> /\ Head(Elems) = value[stack[1]] /\ Elems' = Tail(Elems)
<1>1. stack \in Seq(Node) /\ value \in [Node -> Element]
  BY DEF TypeOK, Element
<1>2. /\ Mapped(stack, value) # <<>> /\ Head(Mapped(stack, value)) = value[stack[1]]
      /\ Mapped(SubSeq(stack, 2, Len(stack)), value) = Tail(Mapped(stack, value))
  BY <1>1, MapPopped
<1> QED
  BY <1>2, ElemsMapped

-----------------------------------------------------------------------------
(* A step of t changes only t's operation.                                 *)

LEMMA OpStep ==
  ASSUME NEW t \in Thread, TypeOK,
         \A u \in Thread \ {t} :
           /\ pc'[u] = pc[u] /\ val'[u] = val[u]
           /\ pc[u] = "take" => value'[hptr'[u]] = value[hptr[u]]
  PROVE  Op' = [Op EXCEPT ![t] = AbsOp(t)']
<1>1. ASSUME NEW u \in Thread \ {t} PROVE AbsOp(u)' = AbsOp(u)
  BY DEF AbsOp, TypeOK, PC, Pushing, Popping
<1> QED
  BY <1>1 DEF Op

LEMMA OpSame ==
  ASSUME NEW t \in Thread, Op' = [Op EXCEPT ![t] = AbsOp(t)'], AbsOp(t)' = AbsOp(t)
  PROVE  Op' = Op
  BY DEF Op

(* An element another thread is about to take is in a node of its own.     *)
LEMMA TakenApart ==
  ASSUME CoreInv, NEW n \in Node, value' = [value EXCEPT ![n] = value'[n]],
         NEW t \in Thread, \A u \in Thread \ {t} : ~ Owns(u, n)
  PROVE  \A u \in Thread \ {t} : pc[u] = "take" => value'[hptr[u]] = value[hptr[u]]
  BY DEF CoreInv, TypeOK, Owns

(* A node that is not in the list may change without the list noticing.    *)
LEMMA UnlistedChange ==
  ASSUME CoreInv, NEW n \in Node, value' = [value EXCEPT ![n] = value'[n]],
         stack' = stack, ~ InStack(n)
  PROVE  Elems' = Elems
<1>1. \A i \in 1..Len(stack) : stack[i] \in Node /\ stack[i] # n
  BY ElementOfSeq DEF CoreInv, TypeOK, InStack
<1>2. \A i \in 1..Len(stack) : value'[stack[i]] = value[stack[i]]
  BY <1>1 DEF CoreInv, TypeOK
<1> QED
  BY <1>2, ElemsSame

-----------------------------------------------------------------------------
(* push is InvokePush, then CancelPush or EffectPush, then Respond.        *)

LEMMA PushNewImplements ==
  ASSUME CoreInv, CarriesValue, NEW t \in Thread, NEW v \in Value, PushNew(t, v)
  PROVE  Abs!InvokePush(t, v)
<1>1. PICK n \in Node : Fresh(n) /\ value' = [value EXCEPT ![n] = None]
  BY DEF PushNew
<1>2. n \notin alloc /\ ~ InStack(n) /\ \A u \in Thread : ~ Owns(u, n)
  BY <1>1 DEF Fresh, CoreInv, NodesOwned
<1>3. value' = [value EXCEPT ![n] = value'[n]]
  BY <1>1 DEF CoreInv, TypeOK
<1>4. Elems' = Elems
  BY <1>2, <1>3, UnlistedChange DEF PushNew
<1>5. /\ \A u \in Thread \ {t} : pc'[u] = pc[u] /\ val'[u] = val[u]
      /\ hptr' = hptr /\ pc[t] = "idle" /\ pc'[t] = "construct" /\ val'[t] = v
  BY DEF PushNew, CoreInv, TypeOK
<1>6. Op' = [Op EXCEPT ![t] = AbsOp(t)']
  BY <1>2, <1>3, <1>5, TakenApart, OpStep DEF CoreInv
<1>7. AbsOp(t) = Abs!Idle /\ AbsOp(t)' = [phase |-> "push", val |-> v]
  BY <1>5 DEF AbsOp, Abs!Idle, Pushing, Popping
<1> QED
  BY <1>4, <1>6, <1>7 DEF Abs!InvokePush, Op

LEMMA PushConstructImplements ==
  ASSUME CoreInv, NEW t \in Thread, PushConstruct(t)
  PROVE  UNCHANGED <<Elems, Op>>
<1>1. /\ node[t] \in Node /\ value' = [value EXCEPT ![node[t]] = value'[node[t]]]
      /\ Owns(t, node[t]) /\ pc[t] = "construct" /\ pc'[t] = "pushCas"
      /\ val' = val /\ stack' = stack
      /\ \A u \in Thread \ {t} : pc'[u] = pc[u] /\ hptr'[u] = hptr[u]
  BY DEF PushConstruct, CoreInv, TypeOK, Owns, Pushing
<1>2. ~ InStack(node[t]) /\ \A u \in Thread \ {t} : ~ Owns(u, node[t])
  BY <1>1 DEF CoreInv, NodesOwned
<1>3. Elems' = Elems
  BY <1>1, <1>2, UnlistedChange
<1>4. Op' = [Op EXCEPT ![t] = AbsOp(t)']
  BY <1>1, <1>2, TakenApart, OpStep DEF CoreInv
<1>5. AbsOp(t)' = AbsOp(t)
  BY <1>1 DEF AbsOp, Pushing
<1> QED
  BY <1>3, <1>4, <1>5, OpSame

LEMMA PushThrowImplements ==
  ASSUME CoreInv, NEW t \in Thread, PushThrow(t)
  PROVE  Abs!CancelPush(t)
<1>1. /\ pc[t] = "construct" /\ pc'[t] = "idle" /\ value' = value /\ stack' = stack
      /\ hptr' = hptr /\ \A u \in Thread \ {t} : pc'[u] = pc[u] /\ val'[u] = val[u]
  BY DEF PushThrow, CoreInv, TypeOK
<1>2. Elems' = Elems
  BY <1>1 DEF Elems
<1>3. Op' = [Op EXCEPT ![t] = AbsOp(t)']
  BY <1>1, OpStep DEF CoreInv
<1>4. AbsOp(t).phase = "push" /\ AbsOp(t)' = Abs!Idle
  BY <1>1 DEF AbsOp, Abs!Idle, Pushing, Popping
<1> QED
  BY <1>2, <1>3, <1>4 DEF Abs!CancelPush, Op

LEMMA PushCasImplements ==
  ASSUME CoreInv, CarriesValue, NEW t \in Thread, PushCas(t)
  PROVE  Abs!EffectPush(t)
<1>1. /\ pc[t] = "pushCas" /\ pc'[t] = "link" /\ value' = value /\ node[t] \in Node
      /\ stack' = <<node[t]>> \o stack /\ hptr' = hptr /\ val' = val
      /\ \A u \in Thread \ {t} : pc'[u] = pc[u]
      /\ value[node[t]] = val[t]
  BY DEF PushCas, CoreInv, TypeOK, CarriesValue, Pushing
<1>2. Elems' = <<val[t]>> \o Elems
  BY <1>1, ElemsPushed DEF CoreInv
<1>3. Op' = [Op EXCEPT ![t] = AbsOp(t)']
  BY <1>1, OpStep DEF CoreInv
<1>4. /\ AbsOp(t) = [phase |-> "push", val |-> val[t]]
      /\ AbsOp(t)' = [phase |-> "done", val |-> val[t]]
  BY <1>1 DEF AbsOp, Pushing, Popping
<1>5. Op[t] = [phase |-> "push", val |-> val[t]]
  BY <1>4 DEF Op
<1>6. [Op[t] EXCEPT !.phase = "done"] = [phase |-> "done", val |-> val[t]]
  BY <1>5
<1>7. Op' = [Op EXCEPT ![t].phase = "done"]
  BY <1>3, <1>4, <1>6
<1> QED
  BY <1>2, <1>5, <1>7 DEF Abs!EffectPush

LEMMA RespondImplements ==
  ASSUME CoreInv, NEW t \in Thread, PushLink(t) \/ PopReturn(t)
  PROVE  Abs!Respond(t)
<1>1. /\ pc[t] \in {"link", "ret"} /\ pc'[t] = "idle"
      /\ value' = value /\ stack' = stack
      /\ \A u \in Thread \ {t} : pc'[u] = pc[u] /\ val'[u] = val[u] /\ hptr'[u] = hptr[u]
  BY DEF PushLink, PopReturn, heapVars, CoreInv, TypeOK
<1>2. Elems' = Elems
  BY <1>1 DEF Elems
<1>3. Op' = [Op EXCEPT ![t] = AbsOp(t)']
  BY <1>1, OpStep DEF CoreInv
<1>4. AbsOp(t).phase = "done" /\ AbsOp(t)' = Abs!Idle
  BY <1>1 DEF AbsOp, Abs!Idle, Pushing, Popping
<1> QED
  BY <1>2, <1>3, <1>4 DEF Abs!Respond, Op

-----------------------------------------------------------------------------
(* try_pop is InvokePop, then EffectPop or EffectPopEmpty, then Respond.   *)

LEMMA PopCallImplements ==
  ASSUME CoreInv, NEW t \in Thread, PopCall(t)
  PROVE  Abs!InvokePop(t)
<1>1. /\ pc[t] = "idle" /\ pc'[t] = "popLoad" /\ UNCHANGED <<value, stack, hptr, val>>
      /\ \A u \in Thread \ {t} : pc'[u] = pc[u]
  BY DEF PopCall, heapVars, CoreInv, TypeOK
<1>2. Elems' = Elems
  BY <1>1 DEF Elems
<1>3. Op' = [Op EXCEPT ![t] = AbsOp(t)']
  BY <1>1, OpStep DEF CoreInv
<1>4. AbsOp(t) = Abs!Idle /\ AbsOp(t)' = [phase |-> "pop", val |-> None]
  BY <1>1 DEF AbsOp, Abs!Idle, Pushing, Popping
<1> QED
  BY <1>2, <1>3, <1>4 DEF Abs!InvokePop, Op

LEMMA ReadHeadImplements ==
  ASSUME CoreInv, CarriesValue, NEW t \in Thread,
         pc[t] \in {"popLoad", "popCas"}, ReadHead(t)
  PROVE  Abs!EffectPopEmpty(t) \/ UNCHANGED <<Elems, Op>>
<1>1. /\ UNCHANGED <<value, stack, val>> /\ val[t] = None
      /\ pc'[t] = IF head = Null THEN "ret" ELSE "spin"
      /\ \A u \in Thread \ {t} : pc'[u] = pc[u] /\ hptr'[u] = hptr[u]
  BY DEF ReadHead, heapVars, CoreInv, TypeOK, CarriesValue, Popping
<1>2. Elems' = Elems
  BY <1>1 DEF Elems
<1>3. Op' = [Op EXCEPT ![t] = AbsOp(t)']
  BY <1>1, OpStep DEF CoreInv
<1>4. AbsOp(t) = [phase |-> "pop", val |-> None]
  BY DEF AbsOp, Pushing, Popping
<1>5. CASE head = Null
  <2>1. stack = <<>>
    BY <1>5, DistinctAssumption, EmptySeq, LenProperties, ElementOfSeq
       DEF CoreInv, TypeOK, ListIntact
  <2>2. Elems = <<>>
    BY <2>1, EmptySeq, ElemsSeq DEF CoreInv
  <2>3. AbsOp(t)' = [phase |-> "done", val |-> None]
    BY <1>1, <1>5 DEF AbsOp, Pushing, Popping
  <2> QED
    BY <1>2, <1>3, <1>4, <2>2, <2>3 DEF Abs!EffectPopEmpty, Op
<1>6. CASE head # Null
  <2>1. AbsOp(t)' = AbsOp(t)
    BY <1>1, <1>4, <1>6 DEF AbsOp, Pushing, Popping
  <2> QED
    BY <1>2, <1>3, <2>1, OpSame
<1> QED
  BY <1>5, <1>6

LEMMA PopSpinImplements ==
  ASSUME CoreInv, NEW t \in Thread, PopSpin(t)
  PROVE  UNCHANGED <<Elems, Op>>
<1>1. /\ pc[t] = "spin" /\ pc'[t] = "popCas" /\ UNCHANGED <<value, stack, hptr, val>>
      /\ \A u \in Thread \ {t} : pc'[u] = pc[u]
  BY DEF PopSpin, heapVars, CoreInv, TypeOK
<1>2. Elems' = Elems
  BY <1>1 DEF Elems
<1>3. Op' = [Op EXCEPT ![t] = AbsOp(t)']
  BY <1>1, OpStep DEF CoreInv
<1>4. AbsOp(t)' = AbsOp(t)
  BY <1>1 DEF AbsOp, Pushing, Popping
<1> QED
  BY <1>2, <1>3, <1>4, OpSame

LEMMA PopCasImplements ==
  ASSUME CoreInv, NEW t \in Thread, PopCas(t)
  PROVE  Abs!EffectPop(t)
<1>1. /\ pc[t] = "popCas" /\ pc'[t] = "take" /\ UNCHANGED <<value, hptr, val>>
      /\ stack' = SubSeq(stack, 2, Len(stack))
      /\ \A u \in Thread \ {t} : pc'[u] = pc[u]
      /\ head = hptr[t] /\ hptr[t] \in Node
  BY DEF PopCas, CoreInv, TypeOK, Popping
<1>2. stack # <<>> /\ stack[1] = hptr[t]
  BY <1>1, DistinctAssumption DEF CoreInv, ListIntact
<1>3. Elems # <<>> /\ Head(Elems) = value[hptr[t]] /\ Elems' = Tail(Elems)
  BY <1>1, <1>2, ElemsPopped DEF CoreInv
<1>4. Op' = [Op EXCEPT ![t] = AbsOp(t)']
  BY <1>1, OpStep DEF CoreInv
<1>5. /\ AbsOp(t) = [phase |-> "pop", val |-> None]
      /\ AbsOp(t)' = [phase |-> "done", val |-> value[hptr[t]]]
  BY <1>1 DEF AbsOp, Pushing, Popping
<1>6. Op[t].phase = "pop"
  BY <1>5 DEF Op
<1>7. Op' = [Op EXCEPT ![t] = [phase |-> "done", val |-> Head(Elems)]]
  BY <1>3, <1>4, <1>5
<1> QED
  BY <1>3, <1>6, <1>7 DEF Abs!EffectPop

LEMMA PopTakeImplements ==
  ASSUME CoreInv, NEW t \in Thread, PopTake(t)
  PROVE  UNCHANGED <<Elems, Op>>
<1>1. /\ pc[t] = "take" /\ pc'[t] = "ret" /\ val'[t] = value[hptr[t]]
      /\ hptr[t] \in Node /\ value' = [value EXCEPT ![hptr[t]] = value'[hptr[t]]]
      /\ Owns(t, hptr[t]) /\ stack' = stack
      /\ \A u \in Thread \ {t} : pc'[u] = pc[u] /\ val'[u] = val[u] /\ hptr'[u] = hptr[u]
  BY DEF PopTake, CoreInv, TypeOK, Owns, Pushing, Popping
<1>2. ~ InStack(hptr[t]) /\ \A u \in Thread \ {t} : ~ Owns(u, hptr[t])
  BY <1>1 DEF CoreInv, NodesOwned
<1>3. Elems' = Elems
  BY <1>1, <1>2, UnlistedChange
<1>4. Op' = [Op EXCEPT ![t] = AbsOp(t)']
  BY <1>1, <1>2, TakenApart, OpStep DEF CoreInv
<1>5. AbsOp(t)' = AbsOp(t)
  BY <1>1 DEF AbsOp, Pushing, Popping
<1> QED
  BY <1>3, <1>4, <1>5, OpSame

-----------------------------------------------------------------------------
LEMMA InitImplements == Init => Abs!AbsInit
<1> SUFFICES ASSUME Init PROVE Abs!AbsInit
  OBVIOUS
<1>1. Elems = <<>>
  BY TypeInit, ElemsSeq, EmptySeq DEF Init
<1>2. Op = [t \in Thread |-> Abs!Idle]
  BY DEF Init, Op, AbsOp, Abs!Idle, Pushing, Popping
<1> QED
  BY <1>1, <1>2 DEF Abs!AbsInit

LEMMA StepImplements ==
  ASSUME CoreInv, CarriesValue, [Next]_vars
  PROVE  [Abs!AbsNext]_(Abs!absVars)
<1>1. ASSUME NEW t \in Thread, NEW v \in Value, PushNew(t, v) PROVE Abs!AbsNext
  BY <1>1, PushNewImplements DEF Abs!AbsNext
<1>2. ASSUME NEW t \in Thread, PopCall(t) PROVE Abs!AbsNext
  BY <1>2, PopCallImplements DEF Abs!AbsNext
<1>3. ASSUME NEW t \in Thread, Push(t)
      PROVE  Abs!AbsNext \/ UNCHANGED Abs!absVars
  <2>1. CASE PushConstruct(t)
    BY <2>1, PushConstructImplements DEF Abs!absVars
  <2>2. CASE PushThrow(t)
    BY <2>2, PushThrowImplements DEF Abs!AbsNext
  <2>3. CASE PushCas(t)
    BY <2>3, PushCasImplements DEF Abs!AbsNext
  <2>4. CASE PushCasFail(t)
    <3>1. /\ UNCHANGED <<value, stack, pc, val>>
          /\ \A u \in Thread : pc[u] = "take" => hptr'[u] = hptr[u]
      BY <2>4 DEF PushCasFail, heapVars, CoreInv, TypeOK
    <3>2. \A u \in Thread : AbsOp(u)' = AbsOp(u)
      BY <3>1 DEF AbsOp, CoreInv, TypeOK, PC, Pushing, Popping
    <3> QED
      BY <3>1, <3>2 DEF Elems, Op, Abs!absVars
  <2>5. CASE PushLink(t)
    BY <2>5, RespondImplements DEF Abs!AbsNext
  <2> QED
    BY <1>3, <2>1, <2>2, <2>3, <2>4, <2>5 DEF Push
<1>4. ASSUME NEW t \in Thread, Pop(t)
      PROVE  Abs!AbsNext \/ UNCHANGED Abs!absVars
  <2>1. CASE PopLoad(t) \/ PopCasFail(t)
    BY <2>1, ReadHeadImplements DEF PopLoad, PopCasFail, Abs!AbsNext, Abs!absVars
  <2>2. CASE PopSpin(t)
    BY <2>2, PopSpinImplements DEF Abs!absVars
  <2>3. CASE PopCas(t)
    BY <2>3, PopCasImplements DEF Abs!AbsNext
  <2>4. CASE PopTake(t)
    BY <2>4, PopTakeImplements DEF Abs!absVars
  <2>5. CASE PopReturn(t)
    BY <2>5, RespondImplements DEF Abs!AbsNext
  <2> QED
    BY <1>4, <2>1, <2>2, <2>3, <2>4, <2>5 DEF Pop
<1>5. ASSUME UNCHANGED vars PROVE UNCHANGED Abs!absVars
  BY <1>5 DEF vars, heapVars, localVars, Elems, Op, AbsOp, Abs!absVars
<1> QED
  BY <1>1, <1>2, <1>3, <1>4, <1>5 DEF Next

(* push and try_pop are atomic operations on one LIFO stack, for any       *)
(* number of threads, nodes and values, as long as no try_pop installs a   *)
(* stale link: until then no element is lost, returned twice or invented,  *)
(* and nullopt means an empty stack.                                       *)
THEOREM ImplementsUntilStale == Spec /\ [][~ StalePop]_vars => Linearizable
<1>1. Init => Abs!AbsInit /\ CarriesValue
  BY InitImplements, CarriesInit
<1>2. CoreInv /\ CarriesValue /\ [Next]_vars => CarriesValue'
  BY CarriesStep
<1>3. CoreInv /\ CarriesValue /\ [Next]_vars => [Abs!AbsNext]_(Abs!absVars)
  BY StepImplements
<1> QED
  BY <1>1, <1>2, <1>3, Invariance, PTL DEF Spec, Linearizable, Abs!AbsSpec

(* With a single consumer, or an allocator that does not reuse an address  *)
(* a popper holds, they are so in every behaviour.                         *)
THEOREM Implements == ASSUME SafeReclamation PROVE Spec => Linearizable
BY NeverStale, ImplementsUntilStale, PTL
=============================================================================
