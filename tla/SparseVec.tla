----------------------------- MODULE SparseVec -----------------------------
(***************************************************************************)
(* condense/SparseVec.h: a sparse set.  m_sparse maps an id to a place in  *)
(* m_dense, which holds the elements side by side; both are vectors of     *)
(* blocks, here the sequences of the blocks' entries, so that their        *)
(* lengths are multiples of the block size.  Elements are trivially        *)
(* copyable: a DenseBlock cannot be moved by its vector otherwise, and     *)
(* destroying one does nothing.                                            *)
(*                                                                         *)
(* What the code leaves uninitialised is Junk.  Using Junk as an index, or *)
(* an index beyond a vector, is undefined: the model sets wild and stops.  *)
(***************************************************************************)
EXTENDS Integers, Sequences, SequencesExt

CONSTANTS
  Elem,
  Block,     \* 1 << N, the entries of a block
  Junk,
  MaxIds     \* bound: push_back is called while m_spsize is less

ASSUME SparseVecAssumption ==
  Block \in Nat \ {0} /\ MaxIds \in Nat /\ Junk \notin Elem \cup Nat

VARIABLES
  sparse,    \* m_sparse: [did, bit] at id + 1
  dense,     \* m_dense: [ind, val] at index + 1
  densize,   \* m_densize
  spsize,    \* m_spsize
  wild,      \* history: something undefined has happened, or a size has
             \* wrapped below zero
  holed,     \* history: erase was called with an id other than the last
  vec        \* history: until then, the elements pushed and not popped, in order

sparseVars == <<sparse, dense, densize, spsize, wild, holed, vec>>

EmptySparse == [i \in 1..Block |-> [did |-> Junk, bit |-> FALSE]]
EmptyDense == [i \in 1..Block |-> [ind |-> Junk, val |-> Junk]]

(* resize(blknr + 1) where there is no block for index i yet.              *)
WithBlock(s, i, block) == IF Len(s) <= i THEN s \o block ELSE s

SparseInit ==
  /\ sparse = <<>> /\ dense = <<>>
  /\ densize = 0 /\ spsize = 0
  /\ wild = FALSE /\ vec = <<>> /\ holed = FALSE

-----------------------------------------------------------------------------
(* _sparse_emplace, _sparse_erase and _sparse_update on m_sparse;          *)
(* _sparse_erase writes the did its caller never set.                      *)
Emplaced(id, did) ==
  [WithBlock(sparse, id, EmptySparse) EXCEPT ![id + 1] = [did |-> did, bit |-> TRUE]]
HasSparse(id) == id \in 0..Len(sparse) - 1
Erased(id) == [sparse EXCEPT ![id + 1] = [did |-> Junk, bit |-> FALSE]]

DensePushed(id, v) ==
  [WithBlock(dense, densize, EmptyDense) EXCEPT ![densize + 1] = [ind |-> id, val |-> v]]

(* push_back returns m_spsize, as it was, for an id.                       *)
PushBack(v) ==
  /\ spsize < MaxIds
  /\ sparse' = Emplaced(spsize, densize)
  /\ dense' = DensePushed(spsize, v)
  /\ densize' = densize + 1 /\ spsize' = spsize + 1
  /\ vec' = IF holed THEN vec ELSE Append(vec, v)
  /\ UNCHANGED <<wild, holed>>

(* Faulty variant: the id erased is the one after the last.                *)
PopBackNext ==
  /\ densize > 0
  /\ IF HasSparse(densize) THEN sparse' = Erased(densize) /\ spsize' = spsize - 1
                           ELSE UNCHANGED <<sparse, spsize>>
  /\ densize' = densize - 1
  /\ vec' = IF holed THEN vec ELSE Front(vec)
  /\ UNCHANGED <<dense, wild, holed>>

(* pop_back, and erase of the last id.  The element destroyed is the one   *)
(* at m_densize, one past the last; when the last block is full this forms *)
(* a reference beyond m_dense, through which nothing is read or written.   *)
PopBack ==
  /\ densize > 0
  /\ IF HasSparse(densize - 1) THEN sparse' = Erased(densize - 1) /\ spsize' = spsize - 1
                               ELSE UNCHANGED <<sparse, spsize>>
  /\ densize' = densize - 1
  /\ vec' = IF holed THEN vec ELSE Front(vec)
  /\ UNCHANGED <<dense, wild, holed>>

(* erase(id) for any other id, erased or never given out included.  The    *)
(* dense entry at the id (not at its did) is overwritten by the entry at   *)
(* m_densize, one past the last; the did of that entry's id is then set to *)
(* a variable that was never assigned.                                     *)
Erase(id) ==
  /\ id + 1 # densize
  /\ HasSparse(id)
  /\ holed' = TRUE /\ vec' = <<>>
  /\ LET moved == IF densize < Len(dense) THEN dense[densize + 1].ind ELSE Junk IN
       IF id >= Len(dense) \/ moved = Junk \/ densize = 0
       THEN wild' = TRUE /\ UNCHANGED <<sparse, dense, densize, spsize>>
       ELSE /\ sparse' = [Erased(id) EXCEPT ![moved + 1].did = Junk]
            /\ dense' = [dense EXCEPT ![id + 1] = dense[densize + 1]]
            /\ densize' = densize - 1 /\ spsize' = spsize - 1
            /\ UNCHANGED wild

(* *at(id) = v                                                             *)
SetAt(id, v) ==
  /\ HasSparse(id) /\ sparse[id + 1].bit
  /\ LET did == sparse[id + 1].did IN
       IF did = Junk
       THEN wild' = TRUE /\ UNCHANGED <<dense, vec>>
       ELSE /\ dense' = [dense EXCEPT ![did + 1].val = v]
            /\ vec' = IF holed THEN vec ELSE [vec EXCEPT ![id + 1] = v]
            /\ UNCHANGED wild
  /\ UNCHANGED <<sparse, densize, spsize, holed>>

EraseInVain(id) == id + 1 # densize /\ ~HasSparse(id) /\ UNCHANGED sparseVars

(* The vector is moved from (swapped with an empty one).                   *)
SparseMove ==
  /\ sparse' = <<>> /\ dense' = <<>> /\ densize' = 0 /\ spsize' = 0
  /\ vec' = <<>> /\ holed' = FALSE
  /\ UNCHANGED wild

SparseNext ==
  /\ ~wild
  /\ \/ \E v \in Elem : PushBack(v)
     \/ PopBack \/ SparseMove
     \/ \E id \in 0..MaxIds :
          Erase(id) \/ EraseInVain(id) \/ \E v \in Elem : SetAt(id, v)

SparseSpec == SparseInit /\ [][SparseNext]_sparseVars

-----------------------------------------------------------------------------
(* Reading.                                                                *)
ContainsId(id) == HasSparse(id) /\ sparse[id + 1].bit
ElemAt(id) == dense[sparse[id + 1].did + 1].val

(* foreach: the full blocks, then the rest of the last one.                *)
Blocks == densize \div Block
Rest == densize - Blocks * Block
ForEach == SubSeq(dense, 1, Blocks * Block) \o
           IF Rest = 0 THEN <<>> ELSE SubSeq(dense, Blocks * Block + 1, Blocks * Block + Rest)

-----------------------------------------------------------------------------
(* Properties                                                              *)

(* Ids and elements agree in size in every defined state.  And as long as  *)
(* only the last id is erased the two arrays are a vector: an id is a      *)
(* position in it, at(id) its element, and foreach visits the elements in  *)
(* order and no leftover of a popped one, in blocks that are filled,       *)
(* emptied and filled again.                                               *)
SparseIsVector ==
  /\ densize = spsize
  /\ ~holed =>
       /\ \A id \in 0..MaxIds : ContainsId(id) <=> id < Len(vec)
       /\ \A id \in 0..Len(vec) - 1 : ElemAt(id) = vec[id + 1]
       /\ ForEach = [i \in 1..Len(vec) |-> [ind |-> i - 1, val |-> vec[i]]]
=============================================================================
