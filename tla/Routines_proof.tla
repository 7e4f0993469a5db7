--------------------------- MODULE Routines_proof ---------------------------
(***************************************************************************)
(* What the sequential routines compute, for every input.                  *)
(*                                                                         *)
(* adjacent_difference: after a transpose lane l of vector r holds element *)
(* 8 * (l % 4) + 4 * (l \div 4) + r of the 32, so that the left neighbour  *)
(* of an element is in the same lane of the vector before, or, for the     *)
(* first vector, where Perm takes it from in the last; transposing the     *)
(* differences puts every element back.                                    *)
(*                                                                         *)
(* copy_if: both loops and the table are made by Packed, which appends     *)
(* what is kept; packing a vector by the table's lanes is as many turns of *)
(* the scalar loop (PackedFurther).                                        *)
(*                                                                         *)
(* utf8: a code point is read off the bytes that encode it, and off no     *)
(* fewer; the count loop and the decode loop stop at the same place, the   *)
(* last place in the stream where a code point begins and whose bytes have *)
(* all arrived.                                                            *)
(*                                                                         *)
(* radix_sort: a stable sort gives each position a place (Place), and the  *)
(* sort by a digit of what is sorted by the lower digits gives the places  *)
(* of the sort by both (PlacesCompose).  The scan of the counts is where   *)
(* the buckets begin (ScanIsLowerCount).                                   *)
(***************************************************************************)
EXTENDS AdjacentDifference, Contest, CopyIf, Utf8, RadixSort, SequenceTheorems,
        FunctionTheorems, ProofLibrary

Elements == {NotYet} \cup (Nat \X Nat)

AdjacentInv ==
  /\ adSize \in Nat /\ done \in 0..adSize
  /\ out \in [1..adSize -> Elements]
  /\ last \in [LaneSet -> Nat] /\ last[0] = done
  /\ NeighboursSubtracted

LEMMA LaneNumbers ==
  /\ \A h \in 0..1, c \in 0..3 : 4 * h + c \in LaneSet
  /\ \A l \in LaneSet : \E h \in 0..1, c \in 0..3 : l = 4 * h + c
<1>1. \A h \in 0..1, c \in 0..3 : 4 * h + c \in LaneSet
  BY DEF LaneSet
<1>2. ASSUME NEW l \in LaneSet
      PROVE  \E h \in 0..1, c \in 0..3 : l = 4 * h + c
  <2>1. CASE l <= 3
    <3>1. l = 4 * 0 + l /\ l \in 0..3
      BY <2>1 DEF LaneSet
    <3> QED
      BY <3>1
  <2>2. CASE ~(l <= 3)
    <3>1. l = 4 * 1 + (l - 4) /\ l - 4 \in 0..3
      BY <2>2 DEF LaneSet
    <3> QED
      BY <3>1
  <2> QED
    BY <2>1, <2>2
<1> QED
  BY <1>1, <1>2

LEMMA TransposedLane ==
  ASSUME NEW v, NEW row \in 0..3, NEW h \in 0..1, NEW c \in 0..3
  PROVE  Transpose4(v)[row][4 * h + c] = v[c][4 * h + row]
<1>1. (4 * h + c) % 4 = c /\ (4 * h + c) \div 4 = h /\ 4 * h + c \in LaneSet
  BY DEF LaneSet
<1>2. Transpose4(v)[row][4 * h + c] = v[(4 * h + c) % 4][4 * ((4 * h + c) \div 4) + row]
  BY <1>1 DEF Transpose4
<1> QED
  BY <1>1, <1>2

(* Elements with their neighbours, transposed back.                        *)
LEMMA VectorsSubtract ==
  ASSUME AdjacentInv, Vectors
  PROVE  /\ \A p \in done + 1..done + 32 : out'[p] = <<p, p - 1>>
         /\ \A p \in 1..adSize : ~(p \in done + 1..done + 32) => out'[p] = out[p]
         /\ out' \in [1..adSize -> Elements]
         /\ last' \in [LaneSet -> Nat] /\ last'[0] = done + 32
<1>0. PICK n \in Nat : done = n
  BY DEF AdjacentInv
<1> DEFINE first == [row \in 0..3 |-> [l \in LaneSet |-> done + 8 * row + l + 1]]
           rgba == Transpose4(first)
           next == [l \in LaneSet |-> rgba[3][Perm[l]]]
           left == [next EXCEPT ![0] = last[0]]
           diff == [row \in 0..3 |-> Minus(rgba[row], IF row = 0 THEN left ELSE rgba[row - 1])]
           xyzw == Transpose4(diff)
<1>1. /\ out' = [p \in 1..adSize |->
                   IF p - done \in 1..32
                   THEN xyzw[(p - done - 1) \div 8][(p - done - 1) % 8] ELSE out[p]]
      /\ last' = next
  BY DEF Vectors
<1>2. ASSUME NEW row \in 0..3, NEW h \in 0..1, NEW c \in 0..3
      PROVE  rgba[row][4 * h + c] = n + 8 * c + 4 * h + row + 1
  <2>1. rgba[row][4 * h + c] = first[c][4 * h + row]
    BY TransposedLane
  <2>2. first[c][4 * h + row] = n + 8 * c + (4 * h + row) + 1
    BY <1>0, LaneNumbers
  <2> QED
    BY <2>1, <2>2
<1> HIDE DEF first, rgba
<1>3. /\ next[0] = n + 32 /\ next[1] = n + 8 /\ next[2] = n + 16 /\ next[3] = n + 24
      /\ next[4] = n + 4 /\ next[5] = n + 12 /\ next[6] = n + 20 /\ next[7] = n + 28
  <2>1. /\ next[0] = rgba[3][4 * 1 + 3] /\ next[1] = rgba[3][4 * 1 + 0]
        /\ next[2] = rgba[3][4 * 1 + 1] /\ next[3] = rgba[3][4 * 1 + 2]
        /\ next[4] = rgba[3][4 * 0 + 0] /\ next[5] = rgba[3][4 * 0 + 1]
        /\ next[6] = rgba[3][4 * 0 + 2] /\ next[7] = rgba[3][4 * 0 + 3]
    BY DEF LaneSet, Perm
  <2> HIDE DEF next
  <2>2. \A h \in 0..1, c \in 0..3 : rgba[3][4 * h + c] = n + 8 * c + 4 * h + 3 + 1
    BY <1>2
  <2> QED
    BY <2>1, <2>2
<1>4. next \in [LaneSet -> Nat]
  <2>1. \A l \in LaneSet : next[l] \in Nat
    BY <1>3 DEF LaneSet
  <2> QED
    BY <2>1
<1>5. ASSUME NEW h \in 0..1, NEW c \in 0..3
      PROVE  left[4 * h + c] = n + 8 * c + 4 * h
  <2>1. last[0] = n
    BY <1>0 DEF AdjacentInv
  <2>2. left[0] = n /\ \A l \in LaneSet : l # 0 => left[l] = next[l]
    BY <2>1 DEF LaneSet
  <2>3. /\ left[0] = n /\ left[1] = n + 8 /\ left[2] = n + 16 /\ left[3] = n + 24
        /\ left[4] = n + 4 /\ left[5] = n + 12 /\ left[6] = n + 20 /\ left[7] = n + 28
    BY <2>2, <1>3 DEF LaneSet
  <2> HIDE DEF left
  <2>4. (h = 0 \/ h = 1) /\ (c = 0 \/ c = 1 \/ c = 2 \/ c = 3)
    OBVIOUS
  <2> QED
    BY <2>3, <2>4
<1> HIDE DEF next, left
<1>6. ASSUME NEW row \in 0..3, NEW h \in 0..1, NEW c \in 0..3
      PROVE  diff[row][4 * h + c] = <<n + 8 * c + 4 * h + row + 1, n + 8 * c + 4 * h + row>>
  <2>1. diff[row][4 * h + c] =
          <<rgba[row][4 * h + c], IF row = 0 THEN left[4 * h + c] ELSE rgba[row - 1][4 * h + c]>>
    BY LaneNumbers DEF Minus
  <2>2. CASE row = 0
    BY <2>1, <2>2, <1>2, <1>5
  <2>3. CASE row # 0
    <3>1. row - 1 \in 0..3 /\ (row - 1) + 1 = row
      BY <2>3
    <3>2. rgba[row - 1][4 * h + c] = n + 8 * c + 4 * h + row
      BY <3>1, <1>2
    <3> QED
      BY <2>1, <2>3, <3>2, <1>2
  <2> QED
    BY <2>2, <2>3
<1> HIDE DEF diff
<1>7. ASSUME NEW row \in 0..3, NEW h \in 0..1, NEW c \in 0..3
      PROVE  xyzw[row][4 * h + c] = <<n + 8 * row + (4 * h + c) + 1, n + 8 * row + (4 * h + c)>>
  <2>1. xyzw[row][4 * h + c] = diff[c][4 * h + row]
    BY TransposedLane
  <2>2. diff[c][4 * h + row] = <<n + 8 * row + 4 * h + c + 1, n + 8 * row + 4 * h + c>>
    BY <1>6
  <2> QED
    BY <2>1, <2>2
<1> HIDE DEF xyzw
<1>8. ASSUME NEW row \in 0..3, NEW l \in LaneSet
      PROVE  xyzw[row][l] = <<n + 8 * row + l + 1, n + 8 * row + l>>
  BY <1>7, LaneNumbers
<1>9. ASSUME NEW p \in n + 1..n + 32
      PROVE  xyzw[(p - n - 1) \div 8][(p - n - 1) % 8] = <<p, p - 1>>
  <2> DEFINE row == (p - n - 1) \div 8
             l == (p - n - 1) % 8
  <2>1. row \in 0..3 /\ l \in LaneSet /\ n + 8 * row + l + 1 = p /\ n + 8 * row + l = p - 1
    BY <1>0 DEF LaneSet
  <2> HIDE DEF row, l
  <2>2. xyzw[row][l] = <<p, p - 1>>
    BY <2>1, <1>8
  <2> QED
    BY <2>2 DEF row, l
<1>10. adSize \in Nat /\ n + 32 <= adSize
  BY <1>0 DEF AdjacentInv, Vectors
<1>11. ASSUME NEW p \in n + 1..n + 32
       PROVE  out'[p] = <<p, p - 1>>
  <2>1. p \in 1..adSize /\ p - n \in 1..32
    BY <1>0, <1>10
  <2> QED
    BY <2>1, <1>0, <1>1, <1>9
<1>12. ASSUME NEW p \in 1..adSize, ~(p \in n + 1..n + 32)
       PROVE  out'[p] = out[p]
  <2>1. ~(p - n \in 1..32)
    BY <1>0, <1>10, <1>12
  <2> QED
    BY <2>1, <1>0, <1>1
<1>13. out' \in [1..adSize -> Elements]
  <2>1. ASSUME NEW p \in 1..adSize
        PROVE  out'[p] \in Elements
    <3>1. CASE p \in n + 1..n + 32
      <4>1. p \in Nat /\ p - 1 \in Nat
        BY <1>0, <1>10
      <4> QED
        <5>1. out'[p] = <<p, p - 1>>
          BY <3>1, <1>11
        <5>2. <<p, p - 1>> \in Elements
          BY <4>1 DEF Elements
        <5> QED
          BY <5>1, <5>2
    <3>2. CASE ~(p \in n + 1..n + 32)
      BY <3>2, <1>12 DEF AdjacentInv
    <3> QED
      BY <3>1, <3>2
  <2> DEFINE f == out'
  <2>2. f = [p \in 1..adSize |-> f[p]]
    BY <1>1
  <2> HIDE DEF f
  <2>3. \A p \in 1..adSize : f[p] \in Elements
    BY <2>1 DEF f
  <2>4. f \in [1..adSize -> Elements]
    BY <2>2, <2>3
  <2> QED
    BY <2>4 DEF f
<1> QED
  BY <1>0, <1>1, <1>3, <1>4, <1>11, <1>12, <1>13

LEMMA AdjacentInduction ==
  ASSUME AdjacentInv, [AdjacentNext]_adjacentVars
  PROVE  AdjacentInv'
<1>0. /\ adSize \in Nat /\ done \in Nat /\ done <= adSize
      /\ out \in [1..adSize -> Elements]
      /\ last \in [LaneSet -> Nat] /\ last[0] = done
      /\ \A p \in 1..adSize : out[p] = IF p <= done THEN <<p, p - 1>> ELSE NotYet
  BY DEF AdjacentInv, NeighboursSubtracted
<1>1. CASE UNCHANGED adjacentVars
  BY <1>1 DEF adjacentVars, AdjacentInv, NeighboursSubtracted
<1>2. ASSUME adSize' = adSize, done' \in Nat, done' <= adSize, done <= done',
             out' \in [1..adSize -> Elements],
             \A p \in done + 1..done' : out'[p] = <<p, p - 1>>,
             \A p \in 1..adSize : ~(p \in done + 1..done') => out'[p] = out[p],
             last' \in [LaneSet -> Nat], last'[0] = done'
      PROVE  AdjacentInv'
  <2>1. ASSUME NEW p \in 1..adSize
        PROVE  out'[p] = IF p <= done' THEN <<p, p - 1>> ELSE NotYet
    <3>1. CASE p <= done
      <4>1. p <= done' /\ ~(p \in done + 1..done')
        BY <3>1, <1>0, <1>2
      <4> QED
        BY <3>1, <4>1, <1>0, <1>2
    <3>2. CASE ~(p <= done) /\ p <= done'
      <4>1. p \in done + 1..done'
        BY <3>2, <1>0, <1>2
      <4> QED
        BY <3>2, <4>1, <1>2
    <3>3. CASE ~(p <= done')
      <4>1. ~(p <= done) /\ ~(p \in done + 1..done')
        BY <3>3, <1>0, <1>2
      <4> QED
        BY <3>3, <4>1, <1>0, <1>2
    <3> QED
      BY <3>1, <3>2, <3>3
  <2> QED
    BY <2>1, <1>0, <1>2 DEF AdjacentInv, NeighboursSubtracted
<1>3. CASE Vectors
  <2>1. adSize' = adSize /\ done' = done + 32 /\ done + 32 <= adSize
    BY <1>3 DEF Vectors
  <2>2. /\ \A p \in done + 1..done + 32 : out'[p] = <<p, p - 1>>
        /\ \A p \in 1..adSize : ~(p \in done + 1..done + 32) => out'[p] = out[p]
        /\ out' \in [1..adSize -> Elements]
        /\ last' \in [LaneSet -> Nat] /\ last'[0] = done + 32
    BY <1>3, VectorsSubtract, Zenon
  <2> QED
    BY <2>1, <2>2, <1>0, <1>2
<1>4. CASE Scalars
  <2>1. /\ adSize' = adSize /\ done' = done + 1 /\ done + 1 <= adSize
        /\ out' = [out EXCEPT ![done + 1] = <<done + 1, done>>]
        /\ last' = [last EXCEPT ![0] = done + 1]
    BY <1>4, <1>0 DEF Scalars
  <2>2. last' \in [LaneSet -> Nat] /\ last'[0] = done + 1
    <3>1. 0 \in LaneSet
      BY DEF LaneSet
    <3> QED
      BY <3>1, <2>1, <1>0
  <2>3. out' \in [1..adSize -> Elements]
    <3>1. <<done + 1, done>> \in Elements
      BY <1>0 DEF Elements
    <3> QED
      BY <3>1, <2>1, <1>0
  <2>4. \A p \in 1..adSize : out'[p] = IF p = done + 1 THEN <<done + 1, done>> ELSE out[p]
    BY <2>1, <1>0
  <2>5. \A p \in done + 1..done + 1 : p = done + 1 /\ p - 1 = done /\ p \in 1..adSize
    BY <2>1, <1>0
  <2>6. \A p \in done + 1..done + 1 : out'[p] = <<p, p - 1>>
    BY <2>4, <2>5
  <2>7. \A p \in 1..adSize : ~(p \in done + 1..done + 1) => out'[p] = out[p]
    BY <2>4, <1>0
  <2> QED
    BY <2>1, <2>2, <2>3, <2>6, <2>7, <1>0, <1>2
<1> QED
  BY <1>1, <1>3, <1>4 DEF AdjacentNext

(* Every element has been subtracted its left neighbour, wherever vectors, *)
(* their halves and turns of the loop meet: for inputs of every size, with *)
(* or without the vectors.                                                 *)
THEOREM NeighboursSubtractedHolds == AdjacentSpec => []NeighboursSubtracted
<1>1. AdjacentInit => AdjacentInv
  BY AdjacentAssumption DEF AdjacentInit, AdjacentInv, NeighboursSubtracted, LaneSet, Elements
<1>2. AdjacentInv /\ [AdjacentNext]_adjacentVars => AdjacentInv'
  BY AdjacentInduction
<1>3. AdjacentInv => NeighboursSubtracted
  BY DEF AdjacentInv
<1> QED
  BY <1>1, <1>2, <1>3, PTL DEF AdjacentSpec

-----------------------------------------------------------------------------
(* Contest: a case is numbered through the types and, for each, through    *)
(* the parameters.                                                         *)
TypesOf(t) == IF Tests[t].types = 0 THEN 1 ELSE Tests[t].types
ParamsOf(t) == Tests[t].params

(* A product of places: less than q rows of d are less than rows * d.      *)
LEMMA InRows ==
  ASSUME NEW d \in Nat \ {0}, NEW rows \in Nat, NEW q \in Nat, NEW r \in 0..d - 1
  PROVE  q < rows <=> d * q + r < rows * d
<1>1. CASE q < rows
  <2>1. (q + 1) * d <= rows * d
    BY <1>1
  <2> QED
    BY <2>1, <1>1
<1>2. CASE ~(q < rows)
  <2>1. rows * d <= q * d
    BY <1>2
  <2> QED
    BY <2>1, <1>2
<1> QED
  BY <1>1, <1>2

(* The cases of a test: each combination of a type and a parameter once.   *)
LEMMA CasesOfProperties ==
  ASSUME NEW t \in 1..Len(Tests)
  PROVE  /\ CasesOf(t) \in Seq(Nat \X Nat \X Nat)
         /\ \A c \in 1..Len(CasesOf(t)) : CasesOf(t)[c][1] = t
         /\ \A c, d \in 1..Len(CasesOf(t)) : CasesOf(t)[c] = CasesOf(t)[d] => c = d
         /\ \A type \in 1..TypesOf(t), param \in 1..ParamsOf(t) :
              \E c \in 1..Len(CasesOf(t)) : CasesOf(t)[c] = <<t, type, param>>
<1>1. t \in Nat /\ Tests[t] \in [types : Nat, params : Nat]
  <2>1. Tests \in Seq([types : Nat, params : Nat])
    BY ContestAssumption
  <2>2. t \in Nat
    BY <2>1
  <2> QED
    BY <2>1, <2>2, ElementOfSeq, Zenon
<1>2. TypesOf(t) \in Nat /\ ParamsOf(t) \in Nat
  BY <1>1 DEF TypesOf, ParamsOf
<1>3. PICK types \in Nat, P \in Nat : types = TypesOf(t) /\ P = ParamsOf(t)
  BY <1>2
<1>4. PICK n \in Nat : n = types * P
  BY <1>3
<1>5. CasesOf(t) = [c \in 1..n |-> <<t, ((c - 1) \div P) + 1, ((c - 1) % P) + 1>>]
  BY <1>3, <1>4 DEF CasesOf, TypesOf, ParamsOf
<1> DEFINE s == CasesOf(t)
<1>6. ASSUME NEW c \in 1..n
      PROVE  \E q \in Nat, r \in Nat :
               q = (c - 1) \div P /\ r = (c - 1) % P /\ c - 1 = P * q + r
  <2>1. P \in Nat \ {0} /\ c - 1 \in Nat
    BY <1>4
  <2>2. \E q \in Nat, r \in 0..P - 1 :
          q = (c - 1) \div P /\ r = (c - 1) % P /\ c - 1 = P * q + r
    BY <2>1, Division
  <2>3. 0..P - 1 \subseteq Nat
    BY <2>1
  <2> QED
    BY <2>2, <2>3
<1>7. \A c \in 1..n : <<t, ((c - 1) \div P) + 1, ((c - 1) % P) + 1>> \in Nat \X Nat \X Nat
  <2> SUFFICES ASSUME NEW c \in 1..n
               PROVE  <<t, ((c - 1) \div P) + 1, ((c - 1) % P) + 1>> \in Nat \X Nat \X Nat
    OBVIOUS
  <2>1. (c - 1) \div P \in Nat /\ (c - 1) % P \in Nat
    BY <1>6
  <2>2. ((c - 1) \div P) + 1 \in Nat /\ ((c - 1) % P) + 1 \in Nat
    BY <2>1
  <2> QED
    BY <2>2, <1>1, Zenon
<1>8. s \in Seq(Nat \X Nat \X Nat) /\ Len(s) = n
  BY <1>5, <1>7
<1>9. \A c \in 1..n : s[c] = <<t, ((c - 1) \div P) + 1, ((c - 1) % P) + 1>>
  BY <1>5
<1> HIDE DEF s
<1>10. ASSUME NEW c \in 1..n, NEW d \in 1..n, s[c] = s[d]
       PROVE  c = d
  <2>1. PICK q \in Nat, r \in Nat : q = (c - 1) \div P /\ r = (c - 1) % P /\ c - 1 = P * q + r
    BY <1>6
  <2>2. PICK u \in Nat, v \in Nat : u = (d - 1) \div P /\ v = (d - 1) % P /\ d - 1 = P * u + v
    BY <1>6
  <2>3. s[c] = <<t, q + 1, r + 1>> /\ s[d] = <<t, u + 1, v + 1>>
    BY <1>9, <2>1, <2>2
  <2>4. q = u /\ r = v
    BY <2>3, <1>10
  <2> QED
    BY <2>1, <2>2, <2>4
<1>11. ASSUME NEW type \in 1..types, NEW param \in 1..P
       PROVE  \E c \in 1..n : s[c] = <<t, type, param>>
  <2>1. /\ P \in Nat \ {0} /\ type - 1 \in Nat /\ param - 1 \in 0..P - 1 /\ type - 1 < types
    BY <1>3
  <2>2. PICK k \in Nat : k = P * (type - 1) + (param - 1)
    BY <2>1
  <2>3. k < n /\ k \div P = type - 1 /\ k % P = param - 1
    BY <2>1, <2>2, <1>4, InRows, DivisionUnique
  <2>4. k + 1 \in 1..n /\ (k + 1) - 1 = k
    BY <2>3
  <2>5. s[k + 1] = <<t, (k \div P) + 1, (k % P) + 1>>
    BY <2>4, <1>9
  <2>6. s[k + 1] = <<t, type, param>>
    BY <2>3, <2>5
  <2> QED
    BY <2>4, <2>6
<1>12. \A c \in 1..Len(s) : s[c][1] = t
  <2> SUFFICES ASSUME NEW c \in 1..Len(s)
               PROVE  s[c][1] = t
    OBVIOUS
  <2>1. c \in 1..n
    BY <1>8
  <2>2. s[c] = <<t, ((c - 1) \div P) + 1, ((c - 1) % P) + 1>>
    BY <1>9, <2>1
  <2> QED
    BY ONLY <2>2
<1>13. \A c, d \in 1..Len(s) : s[c] = s[d] => c = d
  BY <1>8, <1>10
<1>14. \A type \in 1..TypesOf(t), param \in 1..ParamsOf(t) :
         \E c \in 1..Len(s) : s[c] = <<t, type, param>>
  BY <1>3, <1>8, <1>11
<1> QED
  BY <1>8, <1>12, <1>13, <1>14, Zenon DEF s

(* Every combination of the tests registered so far is a case, and one     *)
(* only.                                                                   *)
CasesKnown ==
  /\ cases \in Seq(Nat \X Nat \X Nat)
  /\ registering \in 0..Len(Tests)
  /\ \A c \in 1..Len(cases) : cases[c][1] \in 1..registering
  /\ \A c, d \in 1..Len(cases) : cases[c] = cases[d] => c = d
  /\ \A t \in 1..registering : \A type \in 1..TypesOf(t), param \in 1..ParamsOf(t) :
       \E c \in 1..Len(cases) : cases[c] = <<t, type, param>>

Failed(c) == \E e \in DOMAIN outcomes[c] : ~outcomes[c][e]

(* The tally is that of the cases that ended, the report that of the case  *)
(* that runs.                                                              *)
Tallied ==
  /\ outcomes \in Seq(Seq(BOOLEAN))
  /\ tally \in [total : Nat, passed : Nat, failed : Nat]
  /\ report \in [fail_count : Nat, pass_count : Nat]
  /\ tally.passed + tally.failed = tally.total /\ tally.total <= Len(cases)
  /\ tally.failed = Cardinality({c \in 1..tally.total : Failed(c)})
  /\ current # 0 => /\ current = tally.total + 1 /\ registering = Len(Tests)
                    /\ current <= Len(cases)
                    /\ report.fail_count > 0 <=> Failed(current)
  /\ Len(outcomes) = IF current = 0 THEN tally.total ELSE current

ContestInv == CasesKnown /\ Tallied

LEMMA ConcatPlaces ==
  ASSUME NEW S, NEW s \in Seq(S), NEW t \in Seq(S)
  PROVE  /\ \A c \in 1..Len(s) : (s \o t)[c] = s[c]
         /\ \A c \in Len(s) + 1..Len(s) + Len(t) :
              c - Len(s) \in 1..Len(t) /\ (s \o t)[c] = t[c - Len(s)]
         /\ \A c \in 1..Len(t) :
              /\ Len(s) + c \in Len(s) + 1..Len(s) + Len(t)
              /\ (s \o t)[Len(s) + c] = t[c]
OBVIOUS

LEMMA RegisterKnown ==
  ASSUME CasesKnown, Register
  PROVE  CasesKnown' /\ Len(cases') >= Len(cases)
<1>0. PICK t \in 1..Len(Tests) : t = registering + 1
  BY DEF CasesKnown, Register
<1> DEFINE new == CasesOf(t)
<1>1. registering' = t /\ cases' = cases \o new
  BY <1>0 DEF Register
<1>2. /\ new \in Seq(Nat \X Nat \X Nat)
      /\ \A c \in 1..Len(new) : new[c][1] = t
      /\ \A c, d \in 1..Len(new) : new[c] = new[d] => c = d
      /\ \A type \in 1..TypesOf(t), param \in 1..ParamsOf(t) :
           \E c \in 1..Len(new) : new[c] = <<t, type, param>>
  BY CasesOfProperties, Zenon
<1> HIDE DEF new
<1>3. /\ cases \in Seq(Nat \X Nat \X Nat) /\ registering \in Nat /\ t \in Nat
      /\ \A c \in 1..Len(cases) : cases[c][1] \in 1..registering
  <2>1. registering \in Nat /\ t \in Nat
    BY DEF CasesKnown
  <2>2. cases \in Seq(Nat \X Nat \X Nat)
    BY DEF CasesKnown
  <2>3. \A c \in 1..Len(cases) : cases[c][1] \in 1..registering
    BY DEF CasesKnown
  <2> QED
    BY <2>1, <2>2, <2>3
<1>4. PICK n \in Nat, m \in Nat : n = Len(cases) /\ m = Len(new)
  <2> DEFINE X == Nat \X Nat \X Nat
  <2>1. cases \in Seq(X) /\ new \in Seq(X)
    BY <1>2, <1>3
  <2> HIDE DEF X
  <2>2. Len(cases) \in Nat /\ Len(new) \in Nat
    BY <2>1, LenProperties
  <2> QED
    BY <2>2
<1>5. /\ cases' \in Seq(Nat \X Nat \X Nat) /\ Len(cases') = n + m
      /\ \A c \in 1..n : cases'[c] = cases[c]
      /\ \A c \in n + 1..n + m : c - n \in 1..m /\ cases'[c] = new[c - n]
      /\ \A c \in 1..m : n + c \in n + 1..n + m /\ cases'[n + c] = new[c]
  <2> DEFINE s == cases \o new
  <2>1. s \in Seq(Nat \X Nat \X Nat) /\ Len(s) = n + m
    BY <1>2, <1>3, <1>4
  <2>2. /\ \A c \in 1..n : s[c] = cases[c]
        /\ \A c \in n + 1..n + m : c - n \in 1..m /\ s[c] = new[c - n]
        /\ \A c \in 1..m : n + c \in n + 1..n + m /\ s[n + c] = new[c]
    BY <1>2, <1>3, <1>4, ConcatPlaces
  <2> HIDE DEF s
  <2> QED
    BY <2>1, <2>2, <1>1 DEF s
<1>6. \A c \in 1..Len(cases') : c \in 1..n \/ c \in n + 1..n + m
  BY <1>5
<1>7. 1..n \subseteq 1..Len(cases') /\ n + 1..n + m \subseteq 1..Len(cases')
  BY <1>5
<1>8. ASSUME NEW c \in 1..Len(cases')
      PROVE  /\ cases'[c][1] \in 1..registering'
             /\ cases'[c][1] = t <=> c \in n + 1..n + m
  <2>1. CASE c \in 1..n
    <3>1. cases'[c][1] \in 1..registering
      BY <2>1, <1>3, <1>4, <1>5
    <3>2. ~(c \in n + 1..n + m)
      BY <2>1
    <3>3. registering < t /\ t \in 1..t
      BY <1>0, <1>3
    <3>4. \A x \in 1..registering : x \in 1..t /\ x # t
      BY <3>3, <1>3
    <3>5. cases'[c][1] \in 1..t /\ cases'[c][1] # t
      BY <3>1, <3>4
    <3> QED
      BY <3>2, <3>5, <1>1
  <2>2. CASE c \in n + 1..n + m
    <3>0. c - n \in 1..m /\ cases'[c] = new[c - n]
      BY <2>2, <1>5
    <3>1. cases'[c][1] = t
      BY <3>0, <1>2, <1>4
    <3> QED
      BY <2>2, <3>1, <1>1, <1>3
  <2> QED
    BY <2>1, <2>2, <1>6
<1>9. ASSUME NEW c \in 1..Len(cases'), NEW d \in 1..Len(cases'), cases'[c] = cases'[d]
      PROVE  c = d
  <2>1. CASE c \in n + 1..n + m
    <3>1. d \in n + 1..n + m
      BY <2>1, <1>8, <1>9
    <3>2. c - n \in 1..m /\ d - n \in 1..m /\ new[c - n] = new[d - n]
      BY <2>1, <3>1, <1>5, <1>9
    <3>3. c - n = d - n
      BY <3>2, <1>2, <1>4
    <3> QED
      BY <3>3, <2>1, <3>1
  <2>2. CASE ~(c \in n + 1..n + m)
    <3>1. c \in 1..n /\ d \in 1..n
      BY <2>2, <1>6, <1>8, <1>9
    <3>2. cases[c] = cases[d]
      BY <3>1, <1>5, <1>9
    <3> QED
      BY <3>1, <3>2, <1>4 DEF CasesKnown
  <2> QED
    BY <2>1, <2>2
<1>10. ASSUME NEW u \in 1..registering', NEW type \in 1..TypesOf(u), NEW param \in 1..ParamsOf(u)
       PROVE  \E c \in 1..Len(cases') : cases'[c] = <<u, type, param>>
  <2>1. CASE u = t
    <3>1. PICK c \in 1..m : new[c] = <<u, type, param>>
      BY <2>1, <1>2, <1>4
    <3>2. n + c \in 1..Len(cases') /\ cases'[n + c] = <<u, type, param>>
      BY <3>1, <1>5, <1>7
    <3> QED
      BY <3>2
  <2>2. CASE u # t
    <3>1. u \in 1..registering
      BY <2>2, <1>0, <1>1, <1>3
    <3>2. PICK c \in 1..n : cases[c] = <<u, type, param>>
      BY <3>1, <1>4 DEF CasesKnown
    <3> QED
      BY <3>2, <1>5, <1>7
  <2> QED
    BY <2>1, <2>2
<1>11. registering' \in 0..Len(Tests)
  BY <1>0, <1>1
<1>12. Len(cases') >= Len(cases)
  BY <1>4, <1>5
<1>13. \A c \in 1..Len(cases') : cases'[c][1] \in 1..registering'
  BY <1>8
<1> QED
  BY <1>5, <1>9, <1>10, <1>11, <1>12, <1>13 DEF CasesKnown

LEMMA OneMore ==
  ASSUME NEW n \in Nat, NEW F
  PROVE  Cardinality((1..n + 1) \cap F) =
           IF n + 1 \in F THEN Cardinality((1..n) \cap F) + 1 ELSE Cardinality((1..n) \cap F)
<1>1. IsFiniteSet((1..n) \cap F)
  <2>1. IsFiniteSet(1..n)
    BY FS_Interval
  <2> QED
    BY <2>1, FS_Subset
<1>2. CASE n + 1 \in F
  <2>1. (1..n + 1) \cap F = ((1..n) \cap F) \cup {n + 1} /\ n + 1 \notin (1..n) \cap F
    BY <1>2
  <2> QED
    BY <2>1, <1>1, <1>2, FS_AddElement
<1>3. CASE n + 1 \notin F
  <2>1. (1..n + 1) \cap F = (1..n) \cap F
    BY <1>3
  <2> QED
    BY <2>1, <1>3
<1> QED
  BY <1>2, <1>3

LEMMA LastChanged ==
  ASSUME NEW S, NEW s \in Seq(S), NEW x \in S, NEW n \in Nat
  PROVE  /\ Len(s) = n + 1 =>
              LET t == [s EXCEPT ![n + 1] = x]
              IN t \in Seq(S) /\ Len(t) = n + 1 /\ t[n + 1] = x /\ \A c \in 1..n : t[c] = s[c]
         /\ Len(s) = n =>
              LET t == Append(s, x)
              IN t \in Seq(S) /\ Len(t) = n + 1 /\ t[n + 1] = x /\ \A c \in 1..n : t[c] = s[c]
OBVIOUS

LEMMA TallyPreserved ==
  ASSUME ContestInv, [ContestNext]_contestVars
  PROVE  Tallied'
<1>0. /\ outcomes \in Seq(Seq(BOOLEAN))
      /\ tally \in [total : Nat, passed : Nat, failed : Nat]
      /\ report \in [fail_count : Nat, pass_count : Nat]
      /\ tally.passed + tally.failed = tally.total /\ tally.total <= Len(cases)
      /\ tally.failed = Cardinality({c \in 1..tally.total : Failed(c)})
      /\ current # 0 => /\ current = tally.total + 1 /\ registering = Len(Tests)
                        /\ current <= Len(cases)
                        /\ report.fail_count > 0 <=> Failed(current)
      /\ Len(outcomes) = IF current = 0 THEN tally.total ELSE current
      /\ tally.total \in Nat
  BY DEF ContestInv, Tallied
<1>00. Len(cases) \in Nat
  BY DEF ContestInv, CasesKnown
<1>1. CASE UNCHANGED contestVars
  BY <1>1 DEF contestVars, ContestInv, Tallied, Failed
<1>2. CASE Register
  <2>1. UNCHANGED <<current, report, tally, outcomes>> /\ registering # Len(Tests)
    BY <1>2 DEF Register, ContestInv, CasesKnown
  <2>2. Len(cases') >= Len(cases) /\ cases' \in Seq(Nat \X Nat \X Nat)
    BY <1>2, RegisterKnown DEF ContestInv, CasesKnown
  <2>3. current = 0 /\ tally.total <= Len(cases')
    BY <2>1, <2>2, <1>0 DEF ContestInv, CasesKnown
  <2> QED
    BY <2>1, <2>3, <1>0 DEF Tallied, Failed
<1>3. CASE StartCase
  <2>1. /\ current = 0 /\ current' = tally.total + 1 /\ tally.total < Len(cases)
        /\ report' = NoReport /\ outcomes' = Append(outcomes, <<>>)
        /\ UNCHANGED <<cases, registering, tally>> /\ registering = Len(Tests)
    BY <1>3 DEF StartCase
  <2>2. Len(outcomes) = tally.total
    BY <2>1, <1>0
  <2>3. /\ outcomes' \in Seq(Seq(BOOLEAN)) /\ Len(outcomes') = tally.total + 1
        /\ \A c \in 1..tally.total : outcomes'[c] = outcomes[c]
        /\ outcomes'[tally.total + 1] = <<>>
    <3>1. <<>> \in Seq(BOOLEAN)
      OBVIOUS
    <3> QED
      BY <3>1, <2>1, <2>2, <1>0, LastChanged
  <2>4. {c \in 1..tally.total : Failed(c)'} = {c \in 1..tally.total : Failed(c)}
    BY <2>3 DEF Failed
  <2>5. ~Failed(tally.total + 1)' /\ report' \in [fail_count : Nat, pass_count : Nat]
        /\ report'.fail_count = 0
    BY <2>1, <2>3 DEF Failed, NoReport
  <2>60. tally.total \in Nat
    BY <1>0
  <2>6. current' # 0 /\ current' <= Len(cases')
    BY <2>1, <2>60, <1>00
  <2>7. tally'.failed = Cardinality({c \in 1..tally'.total : Failed(c)'})
    BY <2>1, <2>4, <1>0
  <2>8. ~Failed(current)'
    BY <2>1, <2>3 DEF Failed
  <2>9. /\ outcomes' \in Seq(Seq(BOOLEAN)) /\ Len(outcomes') = current'
        /\ current' = tally'.total + 1 /\ registering' = Len(Tests)
        /\ tally'.passed + tally'.failed = tally'.total /\ tally'.total <= Len(cases')
        /\ tally' \in [total : Nat, passed : Nat, failed : Nat]
    BY <2>1, <2>3, <1>0, <1>00
  <2>10. ~(report'.fail_count > 0)
    BY <2>5
  <2> QED
    BY <2>5, <2>6, <2>7, <2>8, <2>9, <2>10 DEF Tallied
<1>4. ASSUME NEW value \in BOOLEAN, Expects(value)
      PROVE  Tallied'
  <2>1. /\ current \in 1..Len(cases) /\ registering = Len(Tests)
        /\ report' = (IF value THEN [report EXCEPT !.pass_count = @ + 1]
                               ELSE [report EXCEPT !.fail_count = @ + 1])
        /\ outcomes' = [outcomes EXCEPT ![current] = Append(outcomes[current], value)]
        /\ UNCHANGED <<cases, registering, current, tally>>
    BY <1>4 DEF Expects, Running
  <2>2. /\ current # 0 /\ current = tally.total + 1 /\ Len(outcomes) = current
        /\ current <= Len(cases)
        /\ report.fail_count > 0 <=> Failed(current)
    BY <2>1, <1>0
  <2>3. /\ outcomes[current] \in Seq(BOOLEAN)
        /\ Append(outcomes[current], value) \in Seq(BOOLEAN)
    BY <2>2, <1>0
  <2>4. /\ outcomes' \in Seq(Seq(BOOLEAN)) /\ Len(outcomes') = current
        /\ \A c \in 1..tally.total : outcomes'[c] = outcomes[c]
        /\ outcomes'[current] = Append(outcomes[current], value)
    <3> DEFINE n == tally.total
               x == Append(outcomes[current], value)
               B == Seq(BOOLEAN)
    <3>0. x \in B
      BY <2>3
    <3>1. n \in Nat /\ outcomes \in Seq(B) /\ Len(outcomes) = n + 1
      BY <2>2, <1>0
    <3>3. outcomes' = [outcomes EXCEPT ![n + 1] = x]
      BY <2>1, <2>2
    <3> HIDE DEF n, x, B
    <3>2. LET t == [outcomes EXCEPT ![n + 1] = x]
          IN t \in Seq(B) /\ Len(t) = n + 1 /\ t[n + 1] = x /\ \A c \in 1..n : t[c] = outcomes[c]
      BY <3>0, <3>1, LastChanged
    <3> QED
      BY <3>2, <3>3, <2>2 DEF n, x, B
  <2>5. {c \in 1..tally.total : Failed(c)'} = {c \in 1..tally.total : Failed(c)}
    BY <2>4 DEF Failed
  <2>6. Failed(current)' <=> Failed(current) \/ ~value
    <3> DEFINE s == outcomes[current]
               t == Append(s, value)
    <3>1. /\ DOMAIN t = 1..Len(s) + 1 /\ DOMAIN s = 1..Len(s) /\ Len(s) \in Nat
          /\ \A e \in 1..Len(s) : t[e] = s[e]
          /\ t[Len(s) + 1] = value
      BY <2>3
    <3>2. \A e \in 1..Len(s) + 1 : e \in 1..Len(s) \/ e = Len(s) + 1
      BY <3>1
    <3>3. 1..Len(s) \subseteq 1..Len(s) + 1 /\ Len(s) + 1 \in 1..Len(s) + 1
      BY <3>1
    <3> HIDE DEF s, t
    <3>4. (\E e \in DOMAIN t : ~t[e]) <=> (\E e \in DOMAIN s : ~s[e]) \/ ~value
      BY <3>1, <3>2, <3>3, Zenon
    <3>5. outcomes'[current'] = t
      BY <2>1, <2>4 DEF t, s
    <3> QED
      BY <3>4, <3>5, Zenon DEF Failed, s
  <2>7. /\ report' \in [fail_count : Nat, pass_count : Nat]
        /\ report'.fail_count = IF value THEN report.fail_count ELSE report.fail_count + 1
    <3>1. report.fail_count \in Nat /\ report.pass_count \in Nat
          /\ report = [fail_count |-> report.fail_count, pass_count |-> report.pass_count]
      BY <1>0
    <3>2. report' = IF value
                   THEN [fail_count |-> report.fail_count, pass_count |-> report.pass_count + 1]
                   ELSE [fail_count |-> report.fail_count + 1, pass_count |-> report.pass_count]
      BY <3>1, <2>1
    <3> QED
      BY <3>1, <3>2
  <2>8. report'.fail_count > 0 <=> Failed(current)'
    <3>1. report.fail_count \in Nat
      BY <1>0
    <3>2. CASE value
      <4>1. report'.fail_count = report.fail_count
        BY <3>2, <2>7
      <4>2. Failed(current)' <=> Failed(current)
        BY <3>2, <2>6
      <4>3. report.fail_count > 0 <=> Failed(current)
        BY <2>2
      <4> QED
        BY <4>1, <4>2, <4>3
    <3>3. CASE ~value
      <4>1. report'.fail_count > 0
        BY <3>1, <3>3, <2>7
      <4> QED
        BY <4>1, <3>3, <2>6
    <3> QED
      BY <3>2, <3>3
  <2> QED
    BY <2>1, <2>2, <2>4, <2>5, <2>7, <2>8, <1>0 DEF Tallied, Failed
<1>5. CASE EndCase
  <2> DEFINE n == tally.total
             F == {c \in Nat : Failed(c)}
  <2>1. /\ current \in 1..Len(cases) /\ current' = 0
        /\ tally' = [tally EXCEPT !.total = @ + 1,
                                  !.failed = IF report.fail_count > 0 THEN @ + 1 ELSE @,
                                  !.passed = IF report.fail_count > 0 THEN @ ELSE @ + 1]
        /\ UNCHANGED <<cases, registering, report, outcomes>>
    BY <1>5 DEF EndCase, Running
  <2>2. /\ current # 0 /\ current = n + 1 /\ Len(outcomes) = n + 1 /\ n + 1 <= Len(cases)
        /\ report.fail_count > 0 <=> Failed(n + 1)
    BY <2>1, <1>0
  <2>20. /\ tally.total \in Nat /\ tally.passed \in Nat /\ tally.failed \in Nat
         /\ tally = [total |-> tally.total, passed |-> tally.passed, failed |-> tally.failed]
         /\ tally.passed + tally.failed = tally.total
    BY <1>0
  <2>3. /\ tally' \in [total : Nat, passed : Nat, failed : Nat]
        /\ tally'.total = n + 1
        /\ tally'.failed = IF Failed(n + 1) THEN tally.failed + 1 ELSE tally.failed
        /\ tally'.passed = IF Failed(n + 1) THEN tally.passed ELSE tally.passed + 1
    <3>1. CASE Failed(n + 1)
      <4>1. report.fail_count > 0
        BY <3>1, <2>2
      <4>2. tally' = [total |-> tally.total + 1, passed |-> tally.passed, failed |-> tally.failed + 1]
        BY <4>1, <2>1, <2>20
      <4> QED
        BY <4>2, <3>1, <2>20
    <3>2. CASE ~Failed(n + 1)
      <4>1. ~(report.fail_count > 0)
        BY <3>2, <2>2
      <4>2. tally' = [total |-> tally.total + 1, passed |-> tally.passed + 1, failed |-> tally.failed]
        BY <4>1, <2>1, <2>20
      <4> QED
        BY <4>2, <3>2, <2>20
    <3> QED
      BY <3>1, <3>2
  <2>4. tally'.passed + tally'.failed = tally'.total
    BY <2>3, <2>20
  <2>5. {c \in 1..n : Failed(c)} = (1..n) \cap F
    BY <1>0
  <2>6. {c \in 1..n + 1 : Failed(c)} = (1..n + 1) \cap F
    BY <1>0
  <2>7. n + 1 \in F <=> Failed(n + 1)
    BY <1>0
  <2> HIDE DEF F
  <2>8. tally'.failed = Cardinality({c \in 1..n + 1 : Failed(c)})
    <3>1. Cardinality((1..n + 1) \cap F) =
            IF n + 1 \in F THEN Cardinality((1..n) \cap F) + 1 ELSE Cardinality((1..n) \cap F)
      BY <1>0, OneMore
    <3>2. tally.failed = Cardinality((1..n) \cap F)
      BY <2>5, <1>0
    <3> QED
      BY <3>1, <3>2, <2>3, <2>6, <2>7
  <2>9. {c \in 1..n + 1 : Failed(c)'} = {c \in 1..n + 1 : Failed(c)}
    BY <2>1 DEF Failed
  <2> QED
    BY <2>1, <2>2, <2>3, <2>4, <2>8, <2>9, <1>0 DEF Tallied, Failed
<1> QED
  BY <1>1, <1>2, <1>3, <1>4, <1>5 DEF ContestNext

LEMMA ContestInduction ==
  ASSUME ContestInv, [ContestNext]_contestVars
  PROVE  ContestInv'
<1>1. ASSUME UNCHANGED <<cases, registering>>
      PROVE  CasesKnown'
  BY <1>1 DEF ContestInv, CasesKnown
<1>2. CASE Register
  BY <1>2, RegisterKnown, TallyPreserved, Zenon DEF ContestInv
<1>3. CASE ~Register
  <2>1. UNCHANGED <<cases, registering>>
    BY <1>3 DEF ContestNext, contestVars, StartCase, EndCase, Expects
  <2> QED
    BY <2>1, <1>1, TallyPreserved, Zenon DEF ContestInv
<1> QED
  BY <1>2, <1>3

(* When the run is over, every combination of a test, a type and a         *)
(* parameter has been one case, and a case is counted as failed exactly if *)
(* an expectation of its own failed: for every list of tests and every     *)
(* outcome of their expectations.                                          *)
THEOREM CasesTalliedHolds == ContestSpec => []CasesTallied
<1>1. ContestInit => ContestInv
  <2> SUFFICES ASSUME ContestInit PROVE ContestInv
    OBVIOUS
  <2>1. {c \in 1..0 : Failed(c)} = {}
    OBVIOUS
  <2>2. Tallied
    BY <2>1, FS_EmptySet DEF ContestInit, Tallied, NoReport
  <2>3. CasesKnown
    BY ContestAssumption DEF ContestInit, CasesKnown
  <2> QED
    BY <2>2, <2>3 DEF ContestInv
<1>2. ContestInv /\ [ContestNext]_contestVars => ContestInv'
  BY ContestInduction
<1>3. ASSUME ContestInv, registering = Len(Tests), current = 0, tally.total = Len(cases)
      PROVE  /\ Len(outcomes) = Len(cases)
             /\ \A t \in 1..Len(Tests) :
                  \A type \in 1..TypesOf(t) : \A param \in 1..ParamsOf(t) :
                    Cardinality({c \in DOMAIN cases : cases[c] = <<t, type, param>>}) = 1
             /\ tally.failed = Cardinality({c \in DOMAIN outcomes : Failed(c)})
             /\ tally.passed + tally.failed = tally.total
  <2>1. /\ Len(outcomes) = tally.total /\ outcomes \in Seq(Seq(BOOLEAN))
        /\ tally.passed + tally.failed = tally.total
        /\ tally.failed = Cardinality({c \in 1..tally.total : Failed(c)})
    BY <1>3 DEF ContestInv, Tallied
  <2>2. DOMAIN outcomes = 1..tally.total
    BY <2>1
  <2>3. ASSUME NEW t \in 1..Len(Tests), NEW type \in 1..TypesOf(t), NEW param \in 1..ParamsOf(t)
        PROVE  Cardinality({c \in DOMAIN cases : cases[c] = <<t, type, param>>}) = 1
    <3>1. DOMAIN cases = 1..Len(cases)
      BY <1>3 DEF ContestInv, CasesKnown
    <3>2. PICK c \in DOMAIN cases : cases[c] = <<t, type, param>>
      BY <3>1, <1>3 DEF ContestInv, CasesKnown
    <3>3. \A d \in DOMAIN cases : cases[d] = <<t, type, param>> => d = c
      BY <3>1, <3>2, <1>3 DEF ContestInv, CasesKnown
    <3>4. {d \in DOMAIN cases : cases[d] = <<t, type, param>>} = {c}
      BY <3>2, <3>3
    <3> QED
      BY <3>4, FS_Singleton
  <2> QED
    BY <2>1, <2>2, <2>3, <1>3
<1>4. ContestInv => CasesTallied
  BY <1>3 DEF CasesTallied, TypesOf, ParamsOf, Failed
<1> QED
  BY <1>1, <1>2, <1>4, PTL DEF ContestSpec

-----------------------------------------------------------------------------
(* copy_if.                                                                *)

(* Packed is defined by recursion; after this lemma only the loop's step   *)
(* matters.                                                                *)
LEMMA PackedLoop ==
  ASSUME NEW in, NEW good
  PROVE  /\ Packed(in, good, 0) = <<>>
         /\ \A n \in Nat : /\ Packed(in, good, n) \in Seq({in[i] : i \in Nat})
                           /\ Packed(in, good, n + 1) = IF good[n + 1]
                                THEN Append(Packed(in, good, n), in[n + 1])
                                ELSE Packed(in, good, n)
<1> DEFINE X == {in[i] : i \in Nat}
           step == [ns \in Nat \X Seq(X) |-> IF good[ns[1] + 1] THEN Append(ns[2], in[ns[1] + 1])
                                             ELSE ns[2]]
           Loop(Out) == Out = [i \in Nat |-> IF i = 0 THEN <<>>
                          ELSE IF good[i] THEN Append(Out[i - 1], in[i]) ELSE Out[i - 1]]
           loop == CHOOSE Out : Loop(Out)
<1>1. step \in [Nat \X Seq(X) -> Seq(X)]
  <2>1. ASSUME NEW n \in Nat, NEW s \in Seq(X)
        PROVE  in[n + 1] \in X /\ Append(s, in[n + 1]) \in Seq(X)
    <3>1. n + 1 \in Nat
      OBVIOUS
    <3>2. in[n + 1] \in X
      BY <3>1
    <3> HIDE DEF X
    <3> QED
      BY <3>2
  <2>2. ASSUME NEW ns \in Nat \X Seq(X)
        PROVE  (IF good[ns[1] + 1] THEN Append(ns[2], in[ns[1] + 1]) ELSE ns[2]) \in Seq(X)
    <3>1. ns[1] \in Nat /\ ns[2] \in Seq(X)
      OBVIOUS
    <3> HIDE DEF X
    <3> QED
      BY <2>1, <3>1
  <2> HIDE DEF X
  <2> QED
    BY <2>2
<1>2. PICK f \in [Nat -> Seq(X)] :
        f[0] = <<>> /\ \A n \in Nat : f[n + 1] = step[<<n, f[n]>>]
  <2> DEFINE S == Seq(X)
  <2>1. <<>> \in S /\ step \in [Nat \X S -> S]
    BY <1>1
  <2> HIDE DEF S, step
  <2>2. \E f \in [Nat -> S] : Iterates(f, <<>>, step)
    BY <2>1, RecursionExists
  <2> QED
    BY <2>2 DEF S, Iterates
<1>3. ASSUME NEW n \in Nat
      PROVE  f[n + 1] = IF good[n + 1] THEN Append(f[n], in[n + 1]) ELSE f[n]
  <2>1. <<n, f[n]>> \in Nat \X Seq(X)
    OBVIOUS
  <2> HIDE DEF X
  <2> QED
    BY <1>2, <2>1
<1>4. Loop(f)
  <2>1. ASSUME NEW i \in Nat
        PROVE  f[i] = IF i = 0 THEN <<>>
                      ELSE IF good[i] THEN Append(f[i - 1], in[i]) ELSE f[i - 1]
    <3>1. CASE i = 0
      BY <3>1, <1>2
    <3>2. CASE i # 0
      <4>1. i - 1 \in Nat /\ (i - 1) + 1 = i
        BY <3>2
      <4>2. f[(i - 1) + 1] = IF good[(i - 1) + 1] THEN Append(f[i - 1], in[(i - 1) + 1])
                             ELSE f[i - 1]
        BY <4>1, <1>3
      <4> HIDE DEF X
      <4> QED
        BY <3>2, <4>1, <4>2
    <3> QED
      BY <3>1, <3>2
  <2> HIDE DEF X
  <2> QED
    BY <2>1
<1>5. Loop(loop)
  <2> HIDE DEF Loop
  <2> QED
    BY <1>4
<1>6. \A n \in Nat : Packed(in, good, n) = loop[n]
  BY DEF Packed
<1>7. loop[0] = <<>>
  <2> HIDE DEF loop
  <2> QED
    BY <1>5
<1>8. ASSUME NEW n \in Nat
      PROVE  loop[n + 1] = IF good[n + 1] THEN Append(loop[n], in[n + 1]) ELSE loop[n]
  <2>1. n + 1 \in Nat /\ n + 1 # 0 /\ (n + 1) - 1 = n
    OBVIOUS
  <2> HIDE DEF loop
  <2> QED
    BY <1>5, <2>1
<1>9. \A n \in Nat : loop[n] \in Seq(X)
  <2> DEFINE T == {n \in Nat : loop[n] \in Seq(X)}
  <2>1. 0 \in T
    <3>1. <<>> \in Seq(X)
      OBVIOUS
    <3> HIDE DEF X, loop
    <3> QED
      BY <1>7, <3>1
  <2>2. ASSUME NEW n \in T
        PROVE  n + 1 \in T
    <3>1. n \in Nat /\ n + 1 \in Nat /\ loop[n] \in Seq(X)
      OBVIOUS
    <3>2. in[n + 1] \in X
      BY <3>1
    <3> HIDE DEF X, loop
    <3>3. Append(loop[n], in[n + 1]) \in Seq(X)
      BY <3>1, <3>2
    <3> QED
      BY <1>8, <3>1, <3>3
  <2>3. T \subseteq Nat
    OBVIOUS
  <2> HIDE DEF T
  <2>4. T = Nat
    BY <2>1, <2>2, <2>3, NatClosed
  <2> QED
    BY <2>4 DEF T
<1>10. ASSUME NEW n \in Nat
       PROVE  /\ Packed(in, good, n) \in Seq(X)
              /\ Packed(in, good, n + 1) = IF good[n + 1]
                   THEN Append(Packed(in, good, n), in[n + 1])
                   ELSE Packed(in, good, n)
  <2>1. Packed(in, good, n) = loop[n] /\ Packed(in, good, n + 1) = loop[n + 1]
    BY <1>6
  <2> HIDE DEF loop, X
  <2> QED
    BY <1>8, <1>9, <2>1
<1>11. Packed(in, good, 0) = <<>>
  BY <1>6, <1>7
<1> QED
  BY <1>10, <1>11

(* What is kept, and how much of it.                                       *)
LEMMA PackedCount ==
  ASSUME NEW in, NEW good
  PROVE  \A n \in Nat :
           /\ Packed(in, good, n) \in Seq({in[i] : i \in {j \in 1..n : good[j]}})
           /\ Len(Packed(in, good, n)) = Cardinality({j \in 1..n : good[j]})
<1> DEFINE Good(n) == {j \in 1..n : good[j]}
           Value(n) == {in[i] : i \in Good(n)}
           Fine(n) == Packed(in, good, n) \in Seq(Value(n)) /\ Len(Packed(in, good, n)) = Cardinality(Good(n))
           T == {n \in Nat : Fine(n)}
<1>1. 0 \in T
  <2>1. Good(0) = {}
    OBVIOUS
  <2>2. Cardinality({}) = 0
    BY FS_EmptySet
  <2>3. Packed(in, good, 0) = <<>>
    BY PackedLoop
  <2>4. <<>> \in Seq(Value(0)) /\ Len(<<>>) = 0
    OBVIOUS
  <2> QED
    BY <2>1, <2>2, <2>3, <2>4
<1>2. ASSUME NEW n \in T
      PROVE  n + 1 \in T
  <2>1. n \in Nat /\ n + 1 \in Nat /\ Fine(n)
    OBVIOUS
  <2> DEFINE s == Packed(in, good, n)
             r == Packed(in, good, n + 1)
  <2>2. r = IF good[n + 1] THEN Append(s, in[n + 1]) ELSE s
    BY <2>1, PackedLoop
  <2>3. IsFiniteSet(Good(n)) /\ n + 1 \notin Good(n)
    <3>1. IsFiniteSet(1..n)
      BY <2>1, FS_Interval
    <3> QED
      BY <2>1, <3>1, FS_Subset
  <2>4. CASE good[n + 1]
    <3>1. Good(n + 1) = Good(n) \cup {n + 1}
      BY <2>1, <2>4
    <3>2. Cardinality(Good(n + 1)) = Cardinality(Good(n)) + 1
      BY <2>3, <3>1, FS_AddElement
    <3>3. Value(n) \subseteq Value(n + 1) /\ in[n + 1] \in Value(n + 1)
      BY <3>1
    <3>4. r = Append(s, in[n + 1])
      BY <2>2, <2>4
    <3>5. s \in Seq(Value(n + 1)) /\ Len(s) = Cardinality(Good(n)) /\ Len(s) \in Nat
      <4> HIDE DEF s, Good, Value
      <4>1. s \in Seq(Value(n)) /\ Len(s) = Cardinality(Good(n))
        BY <2>1 DEF s
      <4> QED
        BY <3>3, <4>1
    <3> HIDE DEF r, s, Good, Value
    <3>6. r \in Seq(Value(n + 1)) /\ Len(r) = Len(s) + 1
      BY <3>3, <3>4, <3>5
    <3>7. Fine(n + 1)
      BY <3>2, <3>5, <3>6 DEF r
    <3> QED
      BY <2>1, <3>7
  <2>5. CASE ~good[n + 1]
    <3>1. Good(n + 1) = Good(n)
      BY <2>1, <2>5
    <3>2. r = s
      BY <2>2, <2>5
    <3> HIDE DEF Good
    <3>3. Fine(n + 1)
      BY <2>1, <3>1, <3>2
    <3> QED
      BY <2>1, <3>3
  <2> QED
    BY <2>4, <2>5
<1>3. T \subseteq Nat
  OBVIOUS
<1>4. T = Nat
  <2> HIDE DEF T
  <2> QED
    BY <1>1, <1>2, <1>3, NatClosed
<1> QED
  BY <1>4

LEMMA Appended ==
  ASSUME NEW D, NEW u \in Seq(D), NEW x, NEW v, v = Append(u, x)
  PROVE  /\ Len(v) = Len(u) + 1
         /\ \A k \in 1..Len(u) : v[k] = u[k]
         /\ v[Len(u) + 1] = x
<1>1. u \in Seq(D \cup {x})
  OBVIOUS
<1> QED
  BY <1>1

(* Packing further elements packs the picks of their positions.            *)
LEMMA PackedFurther ==
  ASSUME NEW in, NEW good, NEW m \in Nat, NEW l \in Nat, NEW mask,
         \A i \in 1..l : mask[i] = good[m + i]
  PROVE  LET s == Packed(in, good, m)
             idx == Packed([p \in 1..l |-> p], mask, l)
             r == Packed(in, good, m + l)
         IN /\ Len(r) = Len(s) + Len(idx)
            /\ \A k \in 1..Len(s) : r[k] = s[k]
            /\ \A k \in 1..Len(idx) : r[Len(s) + k] = in[m + idx[k]]
<1> DEFINE s == Packed(in, good, m)
           id == [p \in 1..l |-> p]
           Idx(i) == Packed(id, mask, i)
           Out(i) == Packed(in, good, m + i)
           Fine(i) == /\ Len(Out(i)) = Len(s) + Len(Idx(i))
                      /\ \A k \in 1..Len(s) : Out(i)[k] = s[k]
                      /\ \A k \in 1..Len(Idx(i)) : Out(i)[Len(s) + k] = in[m + Idx(i)[k]]
           T == {i \in Nat : i <= l => Fine(i)}
<1>1. ASSUME NEW a, NEW b, NEW n \in Nat
      PROVE  Packed(a, b, n) \in Seq({a[j] : j \in Nat}) /\ Len(Packed(a, b, n)) \in Nat
  <2>1. Packed(a, b, n) \in Seq({a[j] : j \in Nat})
    BY PackedLoop
  <2> QED
    BY <2>1, LenProperties
<1>2. Len(s) \in Nat
  BY <1>1
<1>3. 0 \in T
  <2>1. Out(0) = s /\ m + 0 = m
    OBVIOUS
  <2>2. Idx(0) = <<>> /\ Len(<<>>) = 0
    BY PackedLoop
  <2> HIDE DEF s, Idx, Out
  <2> QED
    BY <1>2, <2>1, <2>2
<1>4. ASSUME NEW i \in T
      PROVE  i + 1 \in T
  <2> SUFFICES ASSUME i + 1 <= l
               PROVE  Fine(i + 1)
    OBVIOUS
  <2>1. i \in Nat /\ i + 1 \in Nat /\ i + 1 \in 1..l /\ Fine(i)
    OBVIOUS
  <2>2. mask[i + 1] = good[(m + i) + 1] /\ m + (i + 1) = (m + i) + 1 /\ m + i \in Nat
    <3>1. m + (i + 1) = (m + i) + 1 /\ m + i \in Nat
      BY <2>1
    <3>2. mask[i + 1] = good[m + (i + 1)]
      BY <2>1
    <3> QED
      BY <3>1, <3>2
  <2>3. Out(i + 1) = IF good[(m + i) + 1] THEN Append(Out(i), in[(m + i) + 1]) ELSE Out(i)
    <3>1. Packed(in, good, (m + i) + 1) =
            IF good[(m + i) + 1] THEN Append(Out(i), in[(m + i) + 1]) ELSE Out(i)
      BY <2>2, PackedLoop
    <3> QED
      BY <2>2, <3>1
  <2>4. Idx(i + 1) = IF mask[i + 1] THEN Append(Idx(i), i + 1) ELSE Idx(i)
    <3>1. id[i + 1] = i + 1
      BY <2>1
    <3> HIDE DEF id
    <3>2. Idx(i + 1) = IF mask[i + 1] THEN Append(Idx(i), id[i + 1]) ELSE Idx(i)
      BY <2>1, PackedLoop
    <3> QED
      BY <3>1, <3>2
  <2>5. /\ Out(i) \in Seq({in[j] : j \in Nat}) /\ Len(Out(i)) \in Nat
        /\ Idx(i) \in Seq({id[j] : j \in Nat}) /\ Len(Idx(i)) \in Nat
    <3>1. Out(i) \in Seq({in[j] : j \in Nat}) /\ Len(Out(i)) \in Nat
      BY <1>1, <2>2
    <3> HIDE DEF id
    <3>2. Idx(i) \in Seq({id[j] : j \in Nat}) /\ Len(Idx(i)) \in Nat
      BY <1>1, <2>1
    <3> QED
      BY <3>1, <3>2
  <2> HIDE DEF Idx, Out, s, id
  <2>6. CASE mask[i + 1]
    <3>1. Out(i + 1) = Append(Out(i), in[(m + i) + 1]) /\ Idx(i + 1) = Append(Idx(i), i + 1)
      BY <2>2, <2>3, <2>4, <2>6
    <3>3. /\ Len(Out(i + 1)) = Len(Out(i)) + 1
          /\ \A k \in 1..Len(Out(i)) : Out(i + 1)[k] = Out(i)[k]
          /\ Out(i + 1)[Len(Out(i)) + 1] = in[(m + i) + 1]
      BY <2>5, <3>1, Appended
    <3>4. /\ Len(Idx(i + 1)) = Len(Idx(i)) + 1
          /\ \A k \in 1..Len(Idx(i)) : Idx(i + 1)[k] = Idx(i)[k]
          /\ Idx(i + 1)[Len(Idx(i)) + 1] = i + 1
      <4> DEFINE S == {id[j] : j \in Nat}
      <4>1. Idx(i) \in Seq(S) /\ Idx(i + 1) = Append(Idx(i), i + 1)
        BY <2>5, <3>1
      <4> HIDE DEF S
      <4> QED
        BY ONLY <4>1, Appended
    <3>6. Len(Out(i + 1)) = Len(s) + Len(Idx(i + 1))
      BY <2>1, <2>5, <3>3, <3>4, <1>2
    <3>7. ASSUME NEW k \in 1..Len(s)
          PROVE  Out(i + 1)[k] = s[k]
      <4>1. k \in 1..Len(Out(i))
        BY <2>1, <2>5, <1>2
      <4> QED
        BY <2>1, <3>3, <4>1
    <3>8. ASSUME NEW k \in 1..Len(Idx(i + 1))
          PROVE  Out(i + 1)[Len(s) + k] = in[m + Idx(i + 1)[k]]
      <4>1. CASE k \in 1..Len(Idx(i))
        <5>1. Len(s) + k \in 1..Len(Out(i))
          BY <2>1, <2>5, <1>2, <4>1
        <5>2. Out(i + 1)[Len(s) + k] = Out(i)[Len(s) + k]
          BY <3>3, <5>1
        <5> QED
          BY <2>1, <3>4, <4>1, <5>2
      <4>2. CASE k \notin 1..Len(Idx(i))
        <5>0. k = Len(Idx(i)) + 1
          BY <2>5, <3>4, <4>2
        <5>1. k = Len(Idx(i)) + 1 /\ Len(s) + k = Len(Out(i)) + 1
          BY <2>1, <2>5, <1>2, <5>0
        <5>2. Idx(i + 1)[k] = i + 1
          BY <3>4, <5>1
        <5> QED
          BY <2>2, <3>3, <5>1, <5>2
      <4> QED
        BY <4>1, <4>2
    <3> QED
      BY <3>6, <3>7, <3>8
  <2>7. CASE ~mask[i + 1]
    <3>1. Out(i + 1) = Out(i) /\ Idx(i + 1) = Idx(i)
      BY <2>2, <2>3, <2>4, <2>7
    <3> QED
      BY <2>1, <3>1
  <2> QED
    BY <2>6, <2>7
<1>5. T \subseteq Nat
  OBVIOUS
<1>6. T = Nat
  <2> HIDE DEF T
  <2> QED
    BY <1>3, <1>4, <1>5, NatClosed
<1>7. Fine(l)
  <2> HIDE DEF Fine
  <2> QED
    BY <1>6
<1> QED
  BY <1>7

(* The table: the lanes of the mask in order; what fills it up is a lane.  *)
LEMMA LutProperties ==
  ASSUME NEW mask
  PROVE  LET idx == Packed([p \in 1..Lanes |-> p], mask, Lanes)
             good == {p \in 1..Lanes : mask[p]}
         IN /\ Len(idx) = Cardinality(good) /\ Len(idx) \in 0..Lanes
            /\ \A p \in 1..Len(idx) : idx[p] \in good /\ Lut(mask)[p] = idx[p]
            /\ \A p \in 1..Lanes : Lut(mask)[p] \in 1..Lanes
<1> DEFINE id == [p \in 1..Lanes |-> p]
           idx == Packed(id, mask, Lanes)
           good == {p \in 1..Lanes : mask[p]}
<1>1. Lanes \in Nat \ {0}
  BY CopyAssumption
<1>2. idx \in Seq({id[i] : i \in good}) /\ Len(idx) = Cardinality(good)
  <2> HIDE DEF id
  <2> QED
    BY <1>1, PackedCount
<1>3. {id[i] : i \in good} = good
  OBVIOUS
<1>4. Cardinality(good) \in 0..Lanes
  <2>1. IsFiniteSet(1..Lanes) /\ Cardinality(1..Lanes) = Lanes
    BY <1>1, FS_Interval
  <2>2. good \subseteq 1..Lanes
    OBVIOUS
  <2> HIDE DEF good
  <2>3. IsFiniteSet(good) /\ Cardinality(good) <= Lanes
    BY <2>1, <2>2, FS_Subset
  <2>4. Cardinality(good) \in Nat
    BY <2>3, FS_CardinalityType
  <2> QED
    BY <1>1, <2>3, <2>4
<1>5. \A p \in 1..Len(idx) : idx[p] \in good
  <2> HIDE DEF idx, good
  <2> QED
    BY <1>2, <1>3
<1>6. \A p \in 1..Lanes : Lut(mask)[p] = IF p <= Len(idx) THEN idx[p] ELSE 1
  BY DEF Lut
<1>7. ASSUME NEW p \in 1..Len(idx)
      PROVE  Lut(mask)[p] = idx[p]
  <2>1. p \in 1..Lanes /\ p <= Len(idx)
    BY <1>1, <1>2, <1>4
  <2> HIDE DEF idx
  <2> QED
    BY <1>6, <2>1
<1>8. ASSUME NEW p \in 1..Lanes
      PROVE  Lut(mask)[p] \in 1..Lanes
  <2>1. p <= Len(idx) => p \in 1..Len(idx)
    BY <1>1, <1>2, <1>4
  <2> HIDE DEF idx
  <2> QED
    BY <1>1, <1>5, <1>6, <2>1
<1> QED
  BY <1>2, <1>4, <1>5, <1>7, <1>8

-----------------------------------------------------------------------------
Good == [p \in DOMAIN src |-> src[p] > 0]
Kept(n) == Packed(src, Good, n)

(* dst has a place for every element of src, and its first places hold     *)
(* what is kept of the elements read.                                      *)
CopyInv ==
  /\ src \in Seq(Int) /\ dst \in [1..Len(src) -> Int \cup {Unset}]
  /\ read \in 0..Len(src) /\ kept \in 0..read
  /\ Len(Kept(read)) = kept
  /\ \A k \in 1..kept : dst[k] = Kept(read)[k]

LEMMA KeptIsScalar == \A n : Kept(n) = ScalarCopyIf(src, n, "gt1", 0, 0)
<1>1. \A x : BinaryPredicate("gt1", x, 0, 0) = (x > 0)
  BY DEF BinaryPredicate
<1> QED
  BY <1>1 DEF Kept, Good, ScalarCopyIf

LEMMA CopyInitKeeps == CopyInit => CopyInv
<1> SUFFICES ASSUME CopyInit PROVE CopyInv
  OBVIOUS
<1>1. src \in Seq(Int) /\ read = 0 /\ kept = 0
  BY CopyAssumption DEF CopyInit
<1>2. Kept(0) = <<>> /\ Len(<<>>) = 0
  BY PackedLoop DEF Kept
<1>3. dst \in [1..Len(src) -> Int \cup {Unset}]
  BY <1>1 DEF CopyInit
<1> QED
  BY <1>1, <1>2, <1>3 DEF CopyInv

LEMMA CopyVectorKeeps ==
  ASSUME CopyInv, CopyVector
  PROVE  CopyInv'
<1> DEFINE x == SubSeq(src, read + 1, read + Lanes)
           mask == [p \in 1..Lanes |-> x[p] > 0]
           good == {p \in 1..Lanes : mask[p]}
           idx == Packed([p \in 1..Lanes |-> p], mask, Lanes)
           lut == Lut(mask)
           y == [p \in 1..Lanes |-> x[lut[p]]]
           ymask == [p \in 1..Lanes |-> mask[lut[p]]]
<1>1. /\ src \in Seq(Int) /\ Len(src) \in Nat /\ read \in Nat /\ kept \in Nat /\ kept <= read
      /\ Lanes \in Nat \ {0} /\ read + Lanes <= Len(src)
      /\ dst \in [1..Len(src) -> Int \cup {Unset}]
      /\ src' = src /\ read' = read + Lanes
  BY CopyAssumption, LenProperties DEF CopyInv, CopyVector
<1>2. /\ dst' = MaskStored(y, ymask)
      /\ kept' = kept + Cardinality(good)
  BY DEF CopyVector
<1>3. /\ Len(idx) = Cardinality(good) /\ Len(idx) \in 0..Lanes
      /\ \A p \in 1..Len(idx) : idx[p] \in good /\ lut[p] = idx[p]
  <2> HIDE DEF mask
  <2> QED
    BY LutProperties
<1>4. \A p \in 1..Lanes : x[p] = src[read + p] /\ read + p \in 1..Len(src) /\ x[p] \in Int
  BY <1>1
<1>5. \A p \in 1..Lanes : mask[p] = Good[read + p]
  <2>1. DOMAIN src = 1..Len(src)
    BY <1>1
  <2> HIDE DEF x
  <2> QED
    BY <1>4, <2>1 DEF Good
<1>6. /\ Len(Kept(read + Lanes)) = Len(Kept(read)) + Len(idx)
      /\ \A k \in 1..Len(Kept(read)) : Kept(read + Lanes)[k] = Kept(read)[k]
      /\ \A k \in 1..Len(idx) : Kept(read + Lanes)[Len(Kept(read)) + k] = src[read + idx[k]]
  <2> HIDE DEF mask
  <2>1. Lanes \in Nat /\ read \in Nat
    BY <1>1
  <2>2. /\ Len(Packed(src, Good, read + Lanes)) = Len(Packed(src, Good, read)) + Len(idx)
        /\ \A k \in 1..Len(Packed(src, Good, read)) :
             Packed(src, Good, read + Lanes)[k] = Packed(src, Good, read)[k]
    BY <1>5, <2>1, PackedFurther, SMTT(60)
  <2>4. \A k \in 1..Len(idx) :
          Packed(src, Good, read + Lanes)[Len(Packed(src, Good, read)) + k] = src[read + idx[k]]
    BY <1>5, <2>1, PackedFurther
  <2> QED
    BY <2>2, <2>4 DEF Kept
<1> HIDE DEF idx
<1>7. /\ Len(Kept(read)) = kept /\ \A k \in 1..kept : dst[k] = Kept(read)[k]
      /\ kept' = kept + Len(idx) /\ kept' \in 0..read'
      /\ Len(Kept(read')) = kept'
  <2>1. Len(Kept(read)) = kept /\ \A k \in 1..kept : dst[k] = Kept(read)[k]
    BY DEF CopyInv
  <2>2. kept' = kept + Len(idx)
    BY <1>2, <1>3
  <2>3. Len(Kept(read + Lanes)) = kept'
    BY <1>6, <2>1, <2>2
  <2>4. kept' \in 0..read + Lanes
    <3>1. Len(idx) \in 0..Lanes
      BY <1>3
    <3> QED
      BY <1>1, <2>2, <3>1
  <2> QED
    BY <1>1, <2>1, <2>2, <2>3, <2>4
<1>8. \A p \in 1..Len(src) :
        dst'[p] = IF p - kept \in 1..Lanes /\ ymask[p - kept] THEN y[p - kept] ELSE dst[p]
  <2> HIDE DEF y, ymask
  <2> QED
    BY <1>1, <1>2 DEF MaskStored
<1>9. \A k \in 1..Len(idx) : ymask[k] /\ y[k] = src[read + idx[k]]
  <2> SUFFICES ASSUME NEW k \in 1..Len(idx)
               PROVE  ymask[k] /\ y[k] = src[read + idx[k]]
    OBVIOUS
  <2>1. k \in 1..Lanes /\ lut[k] = idx[k] /\ idx[k] \in good
    <3>1. Len(idx) \in 0..Lanes /\ lut[k] = idx[k] /\ idx[k] \in good
      BY <1>3
    <3>2. k \in 1..Lanes
      BY <1>1, <3>1
    <3> QED
      BY <3>1, <3>2
  <2> HIDE DEF lut, x
  <2>2. mask[idx[k]] /\ x[idx[k]] = src[read + idx[k]]
    BY <1>4, <2>1
  <2> HIDE DEF mask
  <2> QED
    BY <2>1, <2>2
<1>10. \A k \in 1..kept' : dst'[k] = Kept(read')[k]
  <2> SUFFICES ASSUME NEW k \in 1..kept'
               PROVE  dst'[k] = Kept(read + Lanes)[k]
    BY <1>1
  <2> HIDE DEF y, ymask
  <2>1. k \in 1..Len(src)
    BY <1>1, <1>7
  <2>2. CASE k <= kept
    <3>1. k \in 1..kept /\ ~(k - kept \in 1..Lanes)
      BY <1>1, <2>1, <2>2
    <3> QED
      BY <1>6, <1>7, <1>8, <2>1, <3>1
  <2>3. CASE ~(k <= kept)
    <3>1. k - kept \in 1..Len(idx) /\ k - kept \in 1..Lanes /\ kept + (k - kept) = k
      <4>1. Len(idx) \in 0..Lanes /\ kept' = kept + Len(idx)
        BY <1>3, <1>7
      <4> QED
        BY <1>1, <2>1, <2>3, <4>1
    <3>2. dst'[k] = y[k - kept]
      BY <1>8, <1>9, <2>1, <3>1
    <3>3. Kept(read + Lanes)[kept + (k - kept)] = src[read + idx[k - kept]]
      BY <1>6, <1>7, <3>1
    <3> QED
      BY <1>9, <3>1, <3>2, <3>3
  <2> QED
    BY <2>2, <2>3
<1>11. dst' \in [1..Len(src) -> Int \cup {Unset}]
  <2>1. ASSUME NEW p \in 1..Lanes, ymask[p]
        PROVE  y[p] \in Int
    <3>1. lut[p] \in 1..Lanes
      BY LutProperties
    <3> HIDE DEF lut, x
    <3> QED
      BY <1>4, <3>1
  <2> HIDE DEF y, ymask
  <2>2. \A p \in 1..Len(src) : dst'[p] \in Int \cup {Unset}
    BY <1>1, <1>8, <2>1
  <2>3. dst' = [p \in 1..Len(src) |-> dst'[p]]
    BY <1>1, <1>2 DEF MaskStored
  <2> QED
    BY <2>2, <2>3
<1>12. read' \in 0..Len(src)
  BY <1>1
<1>13. Kept(read)' = Kept(read')
  BY <1>1 DEF Kept, Good
<1> QED
  BY <1>1, <1>7, <1>10, <1>11, <1>12, <1>13 DEF CopyInv

LEMMA CopyScalarKeeps ==
  ASSUME CopyInv, CopyScalar
  PROVE  CopyInv'
<1>1. /\ src \in Seq(Int) /\ Len(src) \in Nat /\ read \in Nat /\ kept \in Nat /\ kept <= read
      /\ read < Len(src) /\ dst \in [1..Len(src) -> Int \cup {Unset}]
      /\ src' = src /\ read' = read + 1
      /\ Len(Kept(read)) = kept /\ \A k \in 1..kept : dst[k] = Kept(read)[k]
  BY LenProperties DEF CopyInv, CopyScalar
<1>2. /\ Kept(read) \in Seq({src[i] : i \in Nat})
      /\ Kept(read + 1) = IF Good[read + 1] THEN Append(Kept(read), src[read + 1]) ELSE Kept(read)
  BY <1>1, PackedLoop DEF Kept
<1>3. Good[read + 1] = (src[read + 1] > 0) /\ src[read + 1] \in Int /\ read + 1 \in Nat
  <2>1. read + 1 \in DOMAIN src
    BY <1>1
  <2> QED
    BY <1>1, <2>1 DEF Good
<1>4. Kept(read)' = Kept(read + 1)
  BY <1>1 DEF Kept, Good
<1>5. CASE src[read + 1] > 0
  <2>1. dst' = [dst EXCEPT ![kept + 1] = src[read + 1]] /\ kept' = kept + 1
    BY <1>5 DEF CopyScalar
  <2>2. /\ Len(Kept(read + 1)) = kept + 1
        /\ \A k \in 1..kept : Kept(read + 1)[k] = Kept(read)[k]
        /\ Kept(read + 1)[kept + 1] = src[read + 1]
    <3> DEFINE D == {src[i] : i \in Nat}
    <3>1. Kept(read) \in Seq(D) /\ Kept(read + 1) = Append(Kept(read), src[read + 1])
      BY <1>2, <1>3, <1>5
    <3> HIDE DEF D
    <3>2. /\ Len(Kept(read + 1)) = Len(Kept(read)) + 1
          /\ \A k \in 1..Len(Kept(read)) : Kept(read + 1)[k] = Kept(read)[k]
          /\ Kept(read + 1)[Len(Kept(read)) + 1] = src[read + 1]
      BY <3>1, Appended
    <3> QED
      BY <1>1, <3>2
  <2>3. kept + 1 \in 1..Len(src) /\ kept + 1 \in 0..read + 1 /\ read + 1 \in 0..Len(src)
    BY <1>1
  <2>4. dst' \in [1..Len(src) -> Int \cup {Unset}]
    BY <1>1, <1>3, <2>1
  <2>5. \A k \in 1..kept + 1 : dst'[k] = Kept(read + 1)[k]
    <3> SUFFICES ASSUME NEW k \in 1..kept + 1
                 PROVE  dst'[k] = Kept(read + 1)[k]
      OBVIOUS
    <3>1. CASE k = kept + 1
      BY <1>1, <2>1, <2>2, <2>3, <3>1
    <3>2. CASE k # kept + 1
      <4>1. k \in 1..kept /\ k \in 1..Len(src)
        BY <1>1, <2>3, <3>2
      <4> QED
        BY <1>1, <2>1, <2>2, <3>2, <4>1
    <3> QED
      BY <3>1, <3>2
  <2> QED
    BY <1>1, <1>4, <2>1, <2>2, <2>3, <2>4, <2>5 DEF CopyInv
<1>6. CASE ~(src[read + 1] > 0)
  <2>1. dst' = dst /\ kept' = kept
    BY <1>6 DEF CopyScalar
  <2>2. Kept(read + 1) = Kept(read)
    BY <1>2, <1>3, <1>6
  <2>3. kept \in 0..read + 1 /\ read + 1 \in 0..Len(src)
    BY <1>1
  <2> QED
    BY <1>1, <1>4, <2>1, <2>2, <2>3 DEF CopyInv
<1> QED
  BY <1>5, <1>6

(* What the vector loop and the scalar one have kept is what the scalar    *)
(* version of copy_if keeps of the elements read, for every input, aligned *)
(* or not, and every width of a vector; no store reaches beyond dst.       *)
THEOREM CopyIfPacksHolds == CopySpec => []CopyIfPacks
<1>1. CopyInit => CopyInv
  BY CopyInitKeeps
<1>2. CopyInv /\ [CopyNext]_copyVars => CopyInv'
  <2> SUFFICES ASSUME CopyInv, [CopyNext]_copyVars
               PROVE  CopyInv'
    OBVIOUS
  <2>1. CASE UNCHANGED copyVars
    BY <2>1 DEF CopyInv, copyVars, Kept, Good
  <2> QED
    BY <2>1, CopyVectorKeeps, CopyScalarKeeps DEF CopyNext
<1>3. CopyInv => CopyIfPacks
  <2> SUFFICES ASSUME CopyInv PROVE CopyIfPacks
    OBVIOUS
  <2>1. /\ src \in Seq(Int) /\ Len(src) \in Nat /\ read \in 0..Len(src) /\ kept \in 0..read
        /\ Lanes \in Nat \ {0} /\ dst \in [1..Len(src) -> Int \cup {Unset}]
        /\ Len(Kept(read)) = kept /\ \A k \in 1..kept : dst[k] = Kept(read)[k]
    BY CopyAssumption, LenProperties DEF CopyInv
  <2>2. Len(dst) = Len(src)
    BY <2>1
  <2>3. kept <= read /\ read <= Len(src) /\ (read + Lanes <= Len(src) => kept + Lanes <= Len(src))
    BY <2>1
  <2> QED
    BY <2>1, <2>2, <2>3, KeptIsScalar DEF CopyIfPacks
<1> QED
  BY <1>1, <1>2, <1>3, PTL DEF CopySpec
-----------------------------------------------------------------------------
(* utf8.                                                                   *)

(* What a turn of decode_utf8_string's loops does to where they stand.     *)
CountTurn(in, s) ==
  IF s.at <= Len(in) /\ DecodeLen(in[s.at]) <= Len(in) - s.at + 1
  THEN [count |-> s.count + 1, at |-> s.at + DecodeLen(in[s.at])]
  ELSE s

DecodeTurn(in, s) ==
  [out |-> Append(s.out, DecodeAt(in, s.next).cp), next |-> DecodeAt(in, s.next).next]

LEMMA DecodeLenFour ==
  ASSUME NEW b
  PROVE  DecodeLen(b) \in 1..4
BY DEF DecodeLen

LEMMA CountTurns ==
  ASSUME NEW in
  PROVE  /\ CountLoop(in, 0) = [count |-> 0, at |-> 1]
         /\ \A n \in Nat : CountLoop(in, n + 1) = CountTurn(in, CountLoop(in, n))
<1> DEFINE S == [count : Nat, at : Nat \ {0}]
           f0 == [count |-> 0, at |-> 1]
           step == [ns \in Nat \X S |-> CountTurn(in, ns[2])]
           Loop(f) == f = [m \in Nat |->
             IF m = 0 THEN [count |-> 0, at |-> 1]
             ELSE LET at == f[m - 1].at IN
               IF at <= Len(in) /\ DecodeLen(in[at]) <= Len(in) - at + 1
               THEN [count |-> f[m - 1].count + 1, at |-> at + DecodeLen(in[at])]
               ELSE f[m - 1]]
           loop == CHOOSE f : Loop(f)
<1>1. f0 \in S /\ step \in [Nat \X S -> S]
  <2>1. ASSUME NEW s \in S
        PROVE  CountTurn(in, s) \in S
    <3>1. DecodeLen(in[s.at]) \in 1..4
      BY DecodeLenFour
    <3>2. /\ s.count + 1 \in Nat
          /\ s.at + DecodeLen(in[s.at]) \in Nat \ {0}
      BY <3>1
    <3> QED
      BY <3>2 DEF CountTurn
  <2>2. ASSUME NEW ns \in Nat \X S
        PROVE  CountTurn(in, ns[2]) \in S
    <3>1. ns[2] \in S
      OBVIOUS
    <3> HIDE DEF S
    <3> QED
      BY <2>1, <3>1
  <2>3. f0 \in S
    OBVIOUS
  <2> HIDE DEF S, f0
  <2> QED
    BY <2>2, <2>3
<1>2. PICK f \in [Nat -> S] : Iterates(f, f0, step)
  <2> HIDE DEF S, f0, step
  <2> QED
    BY <1>1, RecursionExists
<1>3. f[0] = f0 /\ \A n \in Nat : f[n + 1] = CountTurn(in, f[n])
  <2>1. ASSUME NEW n \in Nat
        PROVE  f[n + 1] = CountTurn(in, f[n])
    <3>1. <<n, f[n]>> \in Nat \X S /\ f[n + 1] = step[<<n, f[n]>>]
      <4> HIDE DEF S, f0, step
      <4> QED
        BY <1>2 DEF Iterates
    <3> HIDE DEF S, f0
    <3> QED
      BY <3>1
  <2>2. f[0] = f0
    <3> HIDE DEF S, f0, step
    <3> QED
      BY <1>2 DEF Iterates
  <2> QED
    BY <2>1, <2>2
<1>4. Loop(f)
  <2>1. ASSUME NEW m \in Nat
        PROVE  f[m] = IF m = 0 THEN f0 ELSE CountTurn(in, f[m - 1])
    <3>1. CASE m = 0
      BY <3>1, <1>3
    <3>2. CASE m # 0
      <4>1. m - 1 \in Nat /\ (m - 1) + 1 = m
        BY <3>2
      <4>2. f[(m - 1) + 1] = CountTurn(in, f[m - 1])
        BY <4>1, <1>3
      <4> HIDE DEF f0
      <4> QED
        BY <3>2, <4>1, <4>2
    <3> QED
      BY <3>1, <3>2
  <2>2. f = [m \in Nat |-> f[m]]
    <3> HIDE DEF S
    <3> QED
      BY <1>2
  <2>3. f = [m \in Nat |-> IF m = 0 THEN f0 ELSE CountTurn(in, f[m - 1])]
    <3> HIDE DEF f0, step, loop, Loop, S
    <3> QED
      BY <2>1, <2>2
  <2> QED
    BY <2>3 DEF CountTurn
<1>5. Loop(loop)
  <2> HIDE DEF Loop
  <2> QED
    BY <1>4
<1>6. \A m \in Nat : loop[m] = IF m = 0 THEN f0 ELSE CountTurn(in, loop[m - 1])
  <2> HIDE DEF loop
  <2> QED
    BY <1>5 DEF CountTurn
<1>7. \A n \in Nat : CountLoop(in, n) = loop[n]
  BY DEF CountLoop
<1>8. ASSUME NEW n \in Nat
      PROVE  loop[n + 1] = CountTurn(in, loop[n])
  <2>1. n + 1 \in Nat /\ n + 1 # 0 /\ (n + 1) - 1 = n
    OBVIOUS
  <2> HIDE DEF loop
  <2> QED
    BY <1>6, <2>1
<1>9. loop[0] = f0
  <2> HIDE DEF loop
  <2> QED
    BY <1>6
<1> HIDE DEF loop
<1>10. ASSUME NEW n \in Nat
       PROVE  CountLoop(in, n + 1) = CountTurn(in, CountLoop(in, n))
  <2>1. CountLoop(in, n) = loop[n] /\ CountLoop(in, n + 1) = loop[n + 1]
    BY <1>7
  <2> QED
    BY <2>1, <1>8
<1> QED
  BY <1>7, <1>9, <1>10

LEMMA DecodeTurns ==
  ASSUME NEW in
  PROVE  /\ DecodeLoop(in, 0) = [out |-> <<>>, next |-> 1]
         /\ \A n \in Nat : DecodeLoop(in, n + 1) = DecodeTurn(in, DecodeLoop(in, n))
<1> DEFINE X == {DecodeAt(in, i).cp : i \in Nat}
           S == [out : Seq(X), next : Nat]
           f0 == [out |-> <<>>, next |-> 1]
           step == [ns \in Nat \X S |-> DecodeTurn(in, ns[2])]
           Loop(f) == f = [m \in Nat |->
             IF m = 0 THEN [out |-> <<>>, next |-> 1]
             ELSE LET d == DecodeAt(in, f[m - 1].next)
                  IN [out |-> Append(f[m - 1].out, d.cp), next |-> d.next]]
           loop == CHOOSE f : Loop(f)
<1>1. f0 \in S /\ step \in [Nat \X S -> S]
  <2>1. ASSUME NEW s \in S
        PROVE  DecodeTurn(in, s) \in S
    <3>1. s.next \in Nat /\ s.out \in Seq(X)
      OBVIOUS
    <3>2. DecodeAt(in, s.next).cp \in X
      BY <3>1
    <3>3. DecodeAt(in, s.next).next \in Nat
      BY <3>1 DEF DecodeAt
    <3> HIDE DEF X
    <3>4. Append(s.out, DecodeAt(in, s.next).cp) \in Seq(X)
      BY <3>1, <3>2
    <3> QED
      BY <3>3, <3>4 DEF DecodeTurn
  <2>2. ASSUME NEW ns \in Nat \X S
        PROVE  DecodeTurn(in, ns[2]) \in S
    <3>1. ns[2] \in S
      OBVIOUS
    <3> HIDE DEF S
    <3> QED
      BY <2>1, <3>1
  <2>3. f0 \in S
    OBVIOUS
  <2> HIDE DEF S, f0
  <2> QED
    BY <2>2, <2>3
<1>2. PICK f \in [Nat -> S] : Iterates(f, f0, step)
  <2> HIDE DEF S, f0, step
  <2> QED
    BY <1>1, RecursionExists
<1>3. f[0] = f0 /\ \A n \in Nat : f[n + 1] = DecodeTurn(in, f[n])
  <2>1. ASSUME NEW n \in Nat
        PROVE  f[n + 1] = DecodeTurn(in, f[n])
    <3>1. <<n, f[n]>> \in Nat \X S /\ f[n + 1] = step[<<n, f[n]>>]
      <4> HIDE DEF S, f0, step
      <4> QED
        BY <1>2 DEF Iterates
    <3> HIDE DEF S, f0
    <3> QED
      BY <3>1
  <2>2. f[0] = f0
    <3> HIDE DEF S, f0, step
    <3> QED
      BY <1>2 DEF Iterates
  <2> QED
    BY <2>1, <2>2
<1>4. Loop(f)
  <2>1. ASSUME NEW m \in Nat
        PROVE  f[m] = IF m = 0 THEN f0 ELSE DecodeTurn(in, f[m - 1])
    <3>1. CASE m = 0
      BY <3>1, <1>3
    <3>2. CASE m # 0
      <4>1. m - 1 \in Nat /\ (m - 1) + 1 = m
        BY <3>2
      <4>2. f[(m - 1) + 1] = DecodeTurn(in, f[m - 1])
        BY <4>1, <1>3
      <4> HIDE DEF f0
      <4> QED
        BY <3>2, <4>1, <4>2
    <3> QED
      BY <3>1, <3>2
  <2>2. f = [m \in Nat |-> f[m]]
    <3> HIDE DEF S
    <3> QED
      BY <1>2
  <2>3. f = [m \in Nat |-> IF m = 0 THEN f0 ELSE DecodeTurn(in, f[m - 1])]
    <3> HIDE DEF f0, step, loop, Loop, S
    <3> QED
      BY <2>1, <2>2
  <2> QED
    BY <2>3 DEF DecodeTurn
<1>5. Loop(loop)
  <2> HIDE DEF Loop
  <2> QED
    BY <1>4
<1>6. \A m \in Nat : loop[m] = IF m = 0 THEN f0 ELSE DecodeTurn(in, loop[m - 1])
  <2> HIDE DEF loop
  <2> QED
    BY <1>5 DEF DecodeTurn
<1>7. \A n \in Nat : DecodeLoop(in, n) = loop[n]
  BY DEF DecodeLoop
<1>8. ASSUME NEW n \in Nat
      PROVE  loop[n + 1] = DecodeTurn(in, loop[n])
  <2>1. n + 1 \in Nat /\ n + 1 # 0 /\ (n + 1) - 1 = n
    OBVIOUS
  <2> HIDE DEF loop
  <2> QED
    BY <1>6, <2>1
<1>9. loop[0] = f0
  <2> HIDE DEF loop
  <2> QED
    BY <1>6
<1> HIDE DEF loop
<1>10. ASSUME NEW n \in Nat
       PROVE  DecodeLoop(in, n + 1) = DecodeTurn(in, DecodeLoop(in, n))
  <2>1. DecodeLoop(in, n) = loop[n] /\ DecodeLoop(in, n + 1) = loop[n + 1]
    BY <1>7
  <2> QED
    BY <2>1, <1>8
<1> QED
  BY <1>7, <1>9, <1>10

-----------------------------------------------------------------------------
(* encode_utf8 and decode_utf8.                                            *)

(* A string of bytes that is one code point, cp.                           *)
OneOf(e, cp) ==
  /\ e \in Seq(0..255) /\ Len(e) \in 1..4 /\ Len(e) = DecodeLen(e[1])
  /\ DecodeAt(e, 1).cp = cp

LEMMA SixBits ==
  ASSUME NEW x \in Nat, NEW r \in 0..63
  PROVE  /\ Continuation(64 * x + r) = 128 + r /\ Low6(128 + r) = r
<1>1. (64 * x + r) % 64 = r /\ (128 + r) % 64 = r
  OBVIOUS
<1> QED
  BY <1>1 DEF Continuation, Low6

(* Four times six bits.                                                    *)
Sixes(cp, a, b, c, d) ==
  /\ cp = 262144 * a + 4096 * b + 64 * c + d
  /\ cp \div 262144 = a /\ cp \div 4096 = 64 * a + b
  /\ cp \div 64 = 64 * (64 * a + b) + c

LEMMA CutInSixes ==
  ASSUME NEW cp \in Nat
  PROVE  \E a \in Nat, b \in 0..63, c \in 0..63, d \in 0..63 : Sixes(cp, a, b, c, d)
<1>1. PICK x \in Nat, d \in 0..63 : cp = 64 * x + d
  <2>1. cp = 64 * (cp \div 64) + (cp % 64) /\ cp \div 64 \in Nat /\ cp % 64 \in 0..63
    BY SMT
  <2> QED
    BY <2>1, SMT
<1>2. PICK y \in Nat, c \in 0..63 : x = 64 * y + c
  <2>1. x = 64 * (x \div 64) + (x % 64) /\ x \div 64 \in Nat /\ x % 64 \in 0..63
    BY SMT
  <2> QED
    BY <2>1, SMT
<1>3. PICK a \in Nat, b \in 0..63 : y = 64 * a + b
  <2>1. y = 64 * (y \div 64) + (y % 64) /\ y \div 64 \in Nat /\ y % 64 \in 0..63
    BY SMT
  <2> QED
    BY <2>1, SMT
<1>4. cp = 262144 * a + 4096 * b + 64 * c + d
  BY <1>1, <1>2, <1>3, SMT
<1>5. cp \div 64 = x
  BY <1>1, SMT
<1>6. cp \div 4096 = y
  <2>1. cp = 4096 * y + (64 * c + d) /\ 64 * c + d \in 0..4095
    BY <1>1, <1>2, SMT
  <2> QED
    BY <2>1, SMT
<1>7. cp \div 262144 = a
  <2>1. PICK r \in Nat : r = 4096 * b + 64 * c + d /\ r < 262144
    BY SMT
  <2>2. cp = 262144 * a + r
    BY <1>4, <2>1, SMT
  <2> QED
    BY <2>1, <2>2, SMT
<1>8. cp \div 4096 = 64 * a + b /\ cp \div 64 = 64 * (64 * a + b) + c
  BY <1>2, <1>3, <1>5, <1>6, SMT
<1>9. Sixes(cp, a, b, c, d)
  BY <1>4, <1>7, <1>8, SMT DEF Sixes
<1> QED
  BY <1>1, <1>2, <1>3, <1>9
LEMMA EncodeOne ==
  ASSUME NEW cp, cp \in Encodable
  PROVE  OneOf(Encode(cp), cp) /\ Len(Encode(cp)) = EncodeLen(cp)
<1>a. cp \in Nat
  BY SMT DEF Encodable
<1>0. cp < 2097152
  BY SMT DEF Encodable
<1>1. PICK a \in Nat, b \in 0..63, c \in 0..63, d \in 0..63 : Sixes(cp, a, b, c, d)
  BY <1>a, CutInSixes
<1>2. PICK y : y = 64 * a + b
  BY SMT
<1>3. PICK x : x = 64 * y + c
  BY SMT
<1>4. y \in Nat /\ x \in Nat /\ a \in 0..7 /\ cp = 64 * x + d
  BY <1>a, <1>0, <1>1, <1>2, <1>3, SMT DEF Sixes
<1>5. /\ Continuation(cp \div 4096) = 128 + b /\ Continuation(cp \div 64) = 128 + c
      /\ Continuation(cp) = 128 + d
      /\ Low6(128 + b) = b /\ Low6(128 + c) = c /\ Low6(128 + d) = d
  <2>1. cp \div 4096 = 64 * a + b /\ cp \div 64 = 64 * y + c
    BY <1>1, <1>2, SMT DEF Sixes
  <2>2. /\ Continuation(64 * a + b) = 128 + b /\ Continuation(64 * y + c) = 128 + c
        /\ Continuation(64 * x + d) = 128 + d
    BY <1>4, SixBits
  <2>3. Low6(128 + b) = b /\ Low6(128 + c) = c /\ Low6(128 + d) = d
    BY <1>4, SixBits
  <2> QED
    BY <2>1, <2>2, <2>3, <1>4
<1> DEFINE e == Encode(cp)
<1>6. CASE cp >= 65536
  <2>1. e = <<240 + a, 128 + b, 128 + c, 128 + d>>
    <3>1. a % 16 = a
      BY <1>4, SMT
    <3> QED
      BY <3>1, <1>1, <1>5, <1>6, SMT DEF Encode, Sixes
  <2>2. /\ (240 + a) \div 8 = 30 /\ (240 + a) % 8 = a /\ ~(240 + a < 128)
        /\ 240 + a \in 0..255 /\ 128 + b \in 0..255 /\ 128 + c \in 0..255 /\ 128 + d \in 0..255
    BY <1>4, SMT
  <2> HIDE DEF e
  <2>3. /\ Len(e) = 4 /\ e[1] = 240 + a /\ e[1 + 1] = 128 + b
        /\ e[1 + 2] = 128 + c /\ e[1 + 3] = 128 + d
    BY <2>1, SMT
  <2>4. e \in Seq(0..255)
    BY <2>1, <2>2, SMT
  <2>5. DecodeLen(e[1]) = 4
    BY <2>2, <2>3, SMT DEF DecodeLen, Lead4
  <2>6. DecodeAt(e, 1).cp = cp
    BY <2>2, <2>3, <1>1, <1>5, SMT DEF DecodeAt, Lead4, Sixes
  <2>7. EncodeLen(cp) = 4
    BY <1>6, SMT DEF EncodeLen
  <2> QED
    BY <2>3, <2>4, <2>5, <2>6, <2>7, SMT DEF e, OneOf
<1>7. CASE cp < 65536 /\ cp >= 2048
  <2>1. a = 0 /\ y = b /\ b <= 15 /\ cp = 4096 * b + 64 * c + d
    BY <1>1, <1>2, <1>4, <1>a, <1>7, SMT DEF Sixes
  <2>2. e = <<224 + b, 128 + c, 128 + d>>
    BY <2>1, <1>1, <1>5, <1>a, <1>7, SMT DEF Encode, Sixes
  <2>3. /\ (224 + b) \div 16 = 14 /\ (224 + b) % 16 = b /\ ~(224 + b < 128)
        /\ (224 + b) \div 8 # 30
        /\ 224 + b \in 0..255 /\ 128 + c \in 0..255 /\ 128 + d \in 0..255
    BY <2>1, SMT
  <2> HIDE DEF e
  <2>4. /\ Len(e) = 3 /\ e[1] = 224 + b /\ e[1 + 1] = 128 + c /\ e[1 + 2] = 128 + d
    BY <2>2, SMT
  <2>5. e \in Seq(0..255)
    BY <2>2, <2>3, SMT
  <2>6. DecodeLen(e[1]) = 3
    BY <2>3, <2>4, SMT DEF DecodeLen, Lead4, Lead3
  <2>7. DecodeAt(e, 1).cp = cp
    BY <2>1, <2>3, <2>4, <1>5, SMT DEF DecodeAt, Lead4, Lead3
  <2>8. EncodeLen(cp) = 3
    BY <1>a, <1>7, SMT DEF EncodeLen
  <2> QED
    BY <2>4, <2>5, <2>6, <2>7, <2>8, SMT DEF e, OneOf
<1>8. CASE cp < 2048 /\ cp >= 128
  <2>2. cp \div 64 = x /\ x <= 31 /\ x = x % 64
    BY <1>1, <1>2, <1>3, <1>4, <1>a, <1>8, SMT DEF Sixes
  <2>3. e = <<192 + x, 128 + d>>
    BY <2>2, <1>5, <1>a, <1>8, SMT DEF Encode, Sixes
  <2>4. /\ (192 + x) \div 32 = 6 /\ (192 + x) % 32 = x /\ ~(192 + x < 128)
        /\ (192 + x) \div 8 # 30 /\ (192 + x) \div 16 # 14
        /\ 192 + x \in 0..255 /\ 128 + d \in 0..255
    BY <2>2, <1>4, SMT
  <2> HIDE DEF e
  <2>5. /\ Len(e) = 2 /\ e[1] = 192 + x /\ e[1 + 1] = 128 + d
    BY <2>3, SMT
  <2>6. e \in Seq(0..255)
    BY <2>3, <2>4, SMT
  <2>7. DecodeLen(e[1]) = 2
    BY <2>4, <2>5, SMT DEF DecodeLen, Lead4, Lead3, Lead2
  <2>8. DecodeAt(e, 1).cp = cp
    BY <2>4, <2>5, <1>4, <1>5, SMT DEF DecodeAt, Lead4, Lead3, Lead2
  <2>9. EncodeLen(cp) = 2
    BY <1>a, <1>8, SMT DEF EncodeLen
  <2> QED
    BY <2>5, <2>6, <2>7, <2>8, <2>9, SMT DEF e, OneOf
<1>9. CASE cp < 128
  <2>1. e = <<cp>>
    BY <1>a, <1>9, SMT DEF Encode, Sixes
  <2>2. cp \div 8 # 30 /\ cp \div 16 # 14 /\ cp \div 32 # 6 /\ cp \in 0..255
    BY <1>a, <1>9, SMT
  <2> HIDE DEF e
  <2>3. Len(e) = 1 /\ e[1] = cp /\ e \in Seq(0..255)
    BY <2>1, <2>2, SMT
  <2>4. DecodeLen(e[1]) = 1
    BY <2>2, <2>3, SMT DEF DecodeLen, Lead4, Lead3, Lead2
  <2>5. DecodeAt(e, 1).cp = cp
    BY <2>3, <1>a, <1>9, SMT DEF DecodeAt
  <2>6. EncodeLen(cp) = 1
    BY <1>a, <1>9, SMT DEF EncodeLen
  <2> QED
    BY <2>3, <2>4, <2>5, <2>6, SMT DEF e, OneOf
<1> QED
  BY <1>6, <1>7, <1>8, <1>9, <1>a, SMT

LEMMA StrayOne ==
  ASSUME NEW b \in 128..191 \cup 248..255
  PROVE  OneOf(<<b>>, Replacement)
<1>1. b \div 8 # 30 /\ b \div 16 # 14 /\ b \div 32 # 6 /\ b \in 0..255 /\ ~(b < 128)
  OBVIOUS
<1> DEFINE e == <<b>>
<1>2. Len(e) = 1 /\ e[1] = b /\ e \in Seq(0..255)
  BY <1>1
<1> HIDE DEF e
<1>3. DecodeLen(e[1]) = 1
  BY <1>1, <1>2 DEF DecodeLen, Lead4, Lead3, Lead2
<1>4. DecodeAt(e, 1).cp = Replacement
  BY <1>1, <1>2 DEF DecodeAt, Lead4, Lead3, Lead2
<1> QED
  BY <1>2, <1>3, <1>4 DEF e, OneOf

(* What decode_utf8 reads does not depend on where it is: the bytes from   *)
(* j on in t are those from i on in s.                                     *)
SameBytes(s, i, t, j) == \A m \in 0..DecodeLen(s[i]) - 1 : t[j + m] = s[i + m]

ReadAlike(s, i, t, j) ==
  /\ DecodeLen(t[j]) = DecodeLen(s[i])
  /\ DecodeAt(t, j) = [cp |-> DecodeAt(s, i).cp, next |-> j + DecodeLen(s[i])]

LEMMA DecodeElsewhere ==
  ASSUME NEW s, NEW t, NEW i \in Nat, NEW j \in Nat, SameBytes(s, i, t, j), s[i] \in 0..255
  PROVE  ReadAlike(s, i, t, j)
<1>0. \A m \in 0..DecodeLen(s[i]) - 1 : t[j + m] = s[i + m]
  BY DEF SameBytes
<1>1. DecodeLen(s[i]) \in 1..4
  BY DecodeLenFour
<1>2. t[j] = s[i]
  <2>1. 0 \in 0..DecodeLen(s[i]) - 1 /\ j + 0 = j /\ i + 0 = i
    BY <1>1
  <2>2. t[j + 0] = s[i + 0]
    BY <2>1, <1>0
  <2> QED
    BY <2>1, <2>2, <1>0
<1>3. PICK b \in 0..255 : b = s[i]
  OBVIOUS
<1>4. b < 128 => ~Lead4(b) /\ ~Lead3(b) /\ ~Lead2(b)
  BY DEF Lead4, Lead3, Lead2
<1>5. CASE b < 128
  BY <1>2, <1>3, <1>4, <1>5 DEF DecodeLen, DecodeAt, ReadAlike
<1>6. CASE ~(b < 128) /\ Lead4(b)
  <2>1. DecodeLen(s[i]) = 4
    BY <1>3, <1>6 DEF DecodeLen
  <2>2. 1 \in 0..4 - 1 /\ 2 \in 0..4 - 1 /\ 3 \in 0..4 - 1
    OBVIOUS
  <2>3. t[j + 1] = s[i + 1] /\ t[j + 2] = s[i + 2] /\ t[j + 3] = s[i + 3]
    BY <2>1, <2>2, <1>0
  <2> QED
    BY <2>1, <2>3, <1>2, <1>3, <1>6 DEF DecodeAt, ReadAlike
<1>7. CASE ~(b < 128) /\ ~Lead4(b) /\ Lead3(b)
  <2>1. DecodeLen(s[i]) = 3
    BY <1>3, <1>7 DEF DecodeLen
  <2>2. 1 \in 0..3 - 1 /\ 2 \in 0..3 - 1
    OBVIOUS
  <2>3. t[j + 1] = s[i + 1] /\ t[j + 2] = s[i + 2]
    BY <2>1, <2>2, <1>0
  <2> QED
    BY <2>1, <2>3, <1>2, <1>3, <1>7 DEF DecodeAt, ReadAlike
<1>8. CASE ~(b < 128) /\ ~Lead4(b) /\ ~Lead3(b) /\ Lead2(b)
  <2>1. DecodeLen(s[i]) = 2
    BY <1>3, <1>8 DEF DecodeLen
  <2>2. 1 \in 0..2 - 1
    OBVIOUS
  <2>3. t[j + 1] = s[i + 1]
    BY <2>1, <2>2, <1>0
  <2> QED
    BY <2>1, <2>3, <1>2, <1>3, <1>8 DEF DecodeAt, ReadAlike
<1>9. CASE ~(b < 128) /\ ~Lead4(b) /\ ~Lead3(b) /\ ~Lead2(b)
  BY <1>2, <1>3, <1>9 DEF DecodeLen, DecodeAt, ReadAlike
<1> QED
  BY <1>5, <1>6, <1>7, <1>8, <1>9

-----------------------------------------------------------------------------
(* The stream.                                                             *)

(* The bytes of s from position f up to and without position t.            *)
Cut(r, s, f, t) ==
  /\ r \in Seq(0..255) /\ Len(r) = t - f
  /\ \A i \in 1..t - f : r[i] = s[(f - 1) + i]

(* s is text: its code points begin at the positions at, and the last      *)
(* position is one behind the end.                                         *)
CodePointsAt(s, at, txt) ==
  /\ s \in Seq(0..255) /\ at \in [1..Len(txt) + 1 -> Nat \ {0}]
  /\ at[1] = 1 /\ at[Len(txt) + 1] = Len(s) + 1
  /\ \A j, k \in 1..Len(txt) + 1 : j < k => at[j] < at[k]
  /\ \A k \in 1..Len(txt) : /\ at[k + 1] = at[k] + DecodeLen(s[at[k]])
                            /\ DecodeAt(s, at[k]).cp = txt[k]

(* s is all that was sent and arrived what was fed of it, plus one.  What  *)
(* has been decoded ends at code point d, and the next is not whole.       *)
StreamAt(s, at, d, arrived, txt, w, t, dec) ==
  /\ CodePointsAt(s, at, txt)
  /\ d \in 1..Len(txt) + 1 /\ d = Len(dec) + 1
  /\ \A k \in 1..d - 1 : dec[k] = txt[k]
  /\ arrived \in 1..Len(s) + 1 /\ at[d] <= arrived
  /\ d <= Len(txt) => arrived < at[d + 1]
  /\ Cut(t, s, at[d], arrived) /\ Cut(w, s, arrived, Len(s) + 1)

Streamed(txt, w, t, dec) ==
  /\ txt \in Seq(Encodable) /\ dec \in Seq(Encodable)
  /\ \E s, at, d, arrived : StreamAt(s, at, d, arrived, txt, w, t, dec)

Utf8Inv == Streamed(text, wire, tail, decoded)

LEMMA StreamedDecodes ==
  ASSUME Utf8Inv
  PROVE  StreamDecodes
<1>1. PICK s, at, d, arrived : StreamAt(s, at, d, arrived, text, wire, tail, decoded)
  BY DEF Utf8Inv, Streamed
<1>2. /\ text \in Seq(Encodable) /\ decoded \in Seq(Encodable)
      /\ Len(text) \in Nat /\ Len(decoded) \in Nat /\ Len(decoded) = d - 1
      /\ d \in 1..Len(text) + 1 /\ \A k \in 1..d - 1 : decoded[k] = text[k]
  BY <1>1, SMT DEF Utf8Inv, Streamed, StreamAt
<1>3. decoded = SubSeq(text, 1, Len(decoded))
  <2> DEFINE X == Encodable
             r == SubSeq(text, 1, Len(decoded))
  <2>1. text \in Seq(X) /\ decoded \in Seq(X) /\ 1 \in 1..Len(text) + 1
        /\ Len(decoded) \in 1 - 1..Len(text)
    BY <1>2, SMT
  <2> HIDE DEF X
  <2>2. /\ r \in Seq(X) /\ Len(r) = Len(decoded)
        /\ \A i \in 1..Len(decoded) : r[i] = text[i]
    BY <1>2, <2>1, SMT
  <2> HIDE DEF r
  <2>3. \A i \in 1..Len(decoded) : r[i] = decoded[i]
    BY <1>2, <2>2
  <2>4. decoded = r
    BY <2>1, <2>2, <2>3, SMT
  <2> QED
    BY <2>4 DEF r
<1>4. ASSUME wire = <<>>
      PROVE  decoded = text /\ tail = <<>>
  <2>1. /\ s \in Seq(0..255) /\ Len(s) \in Nat /\ arrived \in 1..Len(s) + 1
        /\ at \in [1..Len(text) + 1 -> Nat \ {0}]
        /\ at[Len(text) + 1] = Len(s) + 1
        /\ \A j, k \in 1..Len(text) + 1 : j < k => at[j] < at[k]
        /\ at[d] <= arrived /\ (d <= Len(text) => arrived < at[d + 1])
        /\ Len(wire) = (Len(s) + 1) - arrived /\ Len(tail) = arrived - at[d]
        /\ tail \in Seq(0..255)
    BY <1>1, <1>2 DEF StreamAt, Cut, CodePointsAt
  <2>2. arrived = Len(s) + 1
    BY <1>4, <2>1
  <2>3. d = Len(text) + 1
    <3> SUFFICES ASSUME d <= Len(text) PROVE FALSE
      BY <1>2
    <3>1. d + 1 \in 1..Len(text) + 1 /\ Len(text) + 1 \in 1..Len(text) + 1
      BY <1>2
    <3> PICK e, f : e = d + 1 /\ f = Len(text) + 1
      OBVIOUS
    <3>2. at[e] \in Nat /\ at[f] = Len(s) + 1 /\ (e < f => at[e] < at[f]) /\ arrived < at[e]
      BY <2>1, <3>1
    <3>3. e = f \/ e < f
      BY <1>2, <3>1
    <3> QED
      BY <2>1, <2>2, <3>2, <3>3
  <2>4. Len(tail) = 0
    BY <2>1, <2>2, <2>3
  <2>5. tail = <<>>
    BY <2>1, <2>4
  <2>6. decoded = text
    <3> DEFINE X == Encodable
    <3>1. text \in Seq(X) /\ decoded \in Seq(X) /\ Len(decoded) = Len(text)
      BY <1>2, <2>3, SMT
    <3> HIDE DEF X
    <3>2. \A k \in 1..Len(text) : decoded[k] = text[k]
      BY <1>2, <2>3
    <3> QED
      BY <3>1, <3>2
  <2> QED
    BY <2>5, <2>6
<1>5. ASSUME NEW i \in DOMAIN text
      PROVE  Len(Encode(text[i])) = EncodeLen(text[i])
  <2>1. text[i] \in Encodable
    <3> DEFINE X == Encodable
    <3>1. text \in Seq(X)
      BY <1>2
    <3> HIDE DEF X
    <3>2. text[i] \in X
      BY <3>1
    <3> QED
      BY <3>2 DEF X
  <2> QED
    BY <2>1, EncodeOne
<1> QED
  BY <1>3, <1>4, <1>5 DEF StreamDecodes

LEMMA StreamInit ==
  ASSUME Utf8Init
  PROVE  Utf8Inv
<1>1. text = <<>> /\ wire = <<>> /\ tail = <<>> /\ decoded = <<>>
  BY DEF Utf8Init
<1> DEFINE X == Encodable
           s == <<>>
           at == [i \in 1..1 |-> 1]
<1>2. text \in Seq(X) /\ decoded \in Seq(X)
  <2> HIDE DEF X
  <2> QED
    BY <1>1
<1>3. at \in [1..Len(text) + 1 -> Nat \ {0}] /\ at[1] = 1
  BY <1>1
<1> HIDE DEF at
<1>4. CodePointsAt(s, at, text)
  BY <1>1, <1>3 DEF CodePointsAt
<1>5. Cut(<<>>, s, at[1], 1) /\ Cut(<<>>, s, 1, Len(s) + 1)
  BY <1>3 DEF Cut
<1>6. StreamAt(s, at, 1, 1, text, wire, tail, decoded)
  BY <1>1, <1>3, <1>4, <1>5 DEF StreamAt
<1> QED
  BY <1>2, <1>6 DEF Utf8Inv, Streamed

(* A sequence behind another, and a piece of one.                          *)
IsJoined(X, r, q, m, n, s) ==
  /\ s \in Seq(X) /\ Len(s) = m + n
  /\ \A i \in 1..m : s[i] = r[i]
  /\ \A i \in 1..n : s[m + i] = q[i]

IsPiece(X, r, a, b, q) ==
  /\ q \in Seq(X) /\ Len(q) = (b - a) + 1
  /\ \A i \in 1..(b - a) + 1 : q[i] = r[(a - 1) + i]

LEMMA JoinedPlaces ==
  ASSUME NEW X, NEW r \in Seq(X), NEW q \in Seq(X), NEW m, Len(r) = m, NEW n, Len(q) = n,
         NEW s, r \o q = s
  PROVE  IsJoined(X, r, q, m, n, s)
<1>1. m \in Nat /\ n \in Nat
  OBVIOUS
<1>2. s \in Seq(X) /\ Len(s) = m + n
  BY ConcatProperties
<1>3. \A i \in 1..m + n : s[i] = IF i <= m THEN r[i] ELSE q[i - m]
  BY ConcatProperties
<1>4. ASSUME NEW i \in 1..m
      PROVE  s[i] = r[i]
  <2>1. i \in 1..m + n /\ i <= m
    BY <1>1
  <2> QED
    BY <2>1, <1>3
<1>5. ASSUME NEW i \in 1..n
      PROVE  s[m + i] = q[i]
  <2>1. m + i \in 1..m + n /\ ~(m + i <= m) /\ (m + i) - m = i
    BY <1>1
  <2> QED
    BY <2>1, <1>3
<1> QED
  BY <1>2, <1>4, <1>5 DEF IsJoined

LEMMA PiecePlaces ==
  ASSUME NEW X, NEW r \in Seq(X), NEW a \in 1..Len(r) + 1, NEW b \in a - 1..Len(r),
         NEW q, SubSeq(r, a, b) = q
  PROVE  IsPiece(X, r, a, b, q)
<1>1. a \in Nat /\ b \in Int /\ a >= 1 /\ b <= Len(r) /\ Len(r) \in Nat /\ a - 1 <= b
  OBVIOUS
<1>2. \A i \in a..b : r[i] \in X
  <2>1. ASSUME NEW i \in a..b
        PROVE  r[i] \in X
    <3>1. i \in 1..Len(r)
      BY <1>1
    <3> QED
      BY <3>1, ElementOfSeq
  <2> QED
    BY <2>1
<1>3. /\ q \in Seq(X) /\ Len(q) = IF a <= b THEN b - a + 1 ELSE 0
      /\ \A i \in 1..b - a + 1 : q[i] = r[a + i - 1]
  <2>1. a \in Int /\ b \in Int
    BY <1>1
  <2>2. SubSeq(r, a, b) \in Seq(X)
    BY <2>1, <1>2, SubSeqProperties
  <2>3. Len(SubSeq(r, a, b)) = IF a <= b THEN b - a + 1 ELSE 0
    BY <2>1, <1>2, SubSeqProperties
  <2>4. \A i \in 1..b - a + 1 : SubSeq(r, a, b)[i] = r[a + i - 1]
    BY <2>1, <1>2, SubSeqProperties
  <2> QED
    BY <2>2, <2>3, <2>4
<1>4. Len(q) = (b - a) + 1
  BY <1>1, <1>3
<1>5. ASSUME NEW i \in 1..(b - a) + 1
      PROVE  q[i] = r[(a - 1) + i]
  <2>1. i \in 1..b - a + 1 /\ a + i - 1 = (a - 1) + i
    BY <1>1
  <2> QED
    BY <2>1, <1>3
<1> QED
  BY <1>3, <1>4, <1>5 DEF IsPiece

(* One more code point is sent, as the bytes e.                            *)
LEMMA StreamGrows ==
  ASSUME NEW txt, NEW w, NEW t, NEW dec, NEW e, NEW cp,
         Streamed(txt, w, t, dec), OneOf(e, cp), cp \in Encodable
  PROVE  Streamed(Append(txt, cp), w \o e, t, dec)
<1>1. PICK s, at, d, arrived : StreamAt(s, at, d, arrived, txt, w, t, dec)
  BY DEF Streamed
<1>2. /\ e \in Seq(0..255) /\ Len(e) \in 1..4 /\ Len(e) = DecodeLen(e[1])
      /\ DecodeAt(e, 1).cp = cp /\ e[1] \in 0..255
  <2>1. /\ e \in Seq(0..255) /\ Len(e) \in 1..4 /\ Len(e) = DecodeLen(e[1])
        /\ DecodeAt(e, 1).cp = cp
    BY DEF OneOf
  <2>2. e \in Seq(0..255) /\ 1 \in 1..Len(e)
    BY <2>1
  <2>3. e[1] \in 0..255
    BY <2>2, ElementOfSeq
  <2> QED
    BY <2>1, <2>3
<1>3. txt \in Seq(Encodable) /\ dec \in Seq(Encodable) /\ Len(txt) \in Nat
  BY DEF Streamed
<1>4. /\ s \in Seq(0..255) /\ Len(s) \in Nat /\ at \in [1..Len(txt) + 1 -> Nat \ {0}]
      /\ at[1] = 1 /\ at[Len(txt) + 1] = Len(s) + 1
      /\ \A j, k \in 1..Len(txt) + 1 : j < k => at[j] < at[k]
  BY <1>1 DEF StreamAt, CodePointsAt
<1>5. \A k \in 1..Len(txt) : /\ at[k + 1] = at[k] + DecodeLen(s[at[k]])
                             /\ DecodeAt(s, at[k]).cp = txt[k]
  BY <1>1 DEF StreamAt, CodePointsAt
<1>6. /\ d \in 1..Len(txt) + 1 /\ d = Len(dec) + 1
      /\ \A k \in 1..d - 1 : dec[k] = txt[k]
      /\ arrived \in 1..Len(s) + 1 /\ at[d] <= arrived
      /\ d <= Len(txt) => arrived < at[d + 1]
  BY <1>1 DEF StreamAt
<1>7. Cut(t, s, at[d], arrived) /\ Cut(w, s, arrived, Len(s) + 1)
  BY <1>1 DEF StreamAt
<1> PICK L : Len(txt) = L
  OBVIOUS
<1> PICK S : Len(s) = S
  OBVIOUS
<1> PICK E : Len(e) = E
  OBVIOUS
<1>8. L \in Nat /\ S \in Nat /\ E \in 1..4 /\ Len(txt) = L /\ Len(s) = S /\ Len(e) = E
  BY <1>2, <1>3, <1>4
<1> DEFINE txt2 == Append(txt, cp)
           s2 == s \o e
           at2 == [k \in 1..L + 2 |-> IF k = L + 2 THEN S + 1 + E ELSE at[k]]
           w2 == w \o e
<1>9. /\ txt2 \in Seq(Encodable) /\ Len(txt2) = L + 1 /\ txt2[L + 1] = cp
      /\ \A k \in 1..L : txt2[k] = txt[k]
  BY <1>3, <1>8
<1>10. /\ s2 \in Seq(0..255) /\ Len(s2) = S + E /\ \A i \in 1..S : s2[i] = s[i]
       /\ \A i \in 1..E : s2[S + i] = e[i]
  <2>1. s \in Seq(0..255) /\ e \in Seq(0..255) /\ Len(s) = S /\ Len(e) = E
    BY <1>2, <1>4, <1>8
  <2>2. IsJoined(0..255, s, e, S, E, s2)
    BY <2>1, JoinedPlaces
  <2> QED
    BY <2>2 DEF IsJoined
<1>11. /\ at2 \in [1..L + 2 -> Nat \ {0}] /\ at2[L + 2] = S + 1 + E
       /\ \A k \in 1..L + 1 : at2[k] = at[k]
  BY <1>4, <1>8
<1> HIDE DEF txt2, s2, at2
<1>12. \A k \in 1..L + 1 : at[k] \in Nat \ {0} /\ at[k] <= S + 1 /\ (k <= L => at[k] <= S)
  <2>1. ASSUME NEW k \in 1..L + 1
        PROVE  at[k] \in Nat \ {0} /\ at[k] <= S + 1 /\ (k <= L => at[k] <= S)
    <3> PICK f : L + 1 = f
      OBVIOUS
    <3>1. f \in 1..L + 1 /\ at[f] = S + 1 /\ at[k] \in Nat \ {0} /\ (k = f \/ k < f)
      BY <1>4, <1>8
    <3>2. k < f => at[k] < at[f]
      BY <1>4, <1>8, <3>1
    <3> QED
      BY <3>1, <3>2, <1>8
  <2> QED
    BY <2>1
<1>13. CodePointsAt(s2, at2, txt2)
  <2>1. at2[1] = 1 /\ at2[Len(txt2) + 1] = Len(s2) + 1
    <3>1. 1 \in 1..L + 1 /\ Len(txt2) + 1 = L + 2 /\ Len(s2) + 1 = S + 1 + E
      BY <1>8, <1>9, <1>10
    <3> QED
      BY <3>1, <1>4, <1>11
  <2>2. ASSUME NEW j \in 1..L + 2, NEW k \in 1..L + 2, j < k
        PROVE  at2[j] < at2[k]
    <3>1. j \in 1..L + 1 /\ at2[j] = at[j] /\ at[j] \in Nat /\ at[j] <= S + 1
      BY <2>2, <1>8, <1>11, <1>12
    <3>2. CASE k = L + 2
      BY <3>1, <3>2, <1>8, <1>11
    <3>3. CASE k # L + 2
      <4>1. k \in 1..L + 1 /\ at2[k] = at[k]
        BY <3>3, <1>8, <1>11
      <4>2. at[j] < at[k]
        BY <3>1, <4>1, <2>2, <1>4, <1>8
      <4> QED
        BY <3>1, <4>1, <4>2
    <3> QED
      BY <3>2, <3>3
  <2>3. ASSUME NEW k \in 1..L + 1
        PROVE  /\ at2[k + 1] = at2[k] + DecodeLen(s2[at2[k]])
               /\ DecodeAt(s2, at2[k]).cp = txt2[k]
    <3>1. CASE k = L + 1
      <4>1. at2[k] = S + 1 /\ k + 1 = L + 2 /\ txt2[k] = cp /\ at2[k + 1] = S + 1 + E
        BY <3>1, <1>4, <1>8, <1>9, <1>11
      <4>2. \A m \in 0..DecodeLen(e[1]) - 1 : s2[(S + 1) + m] = e[1 + m]
        <5>1. ASSUME NEW m \in 0..DecodeLen(e[1]) - 1
              PROVE  s2[(S + 1) + m] = e[1 + m]
          <6>1. 1 + m \in 1..E /\ (S + 1) + m = S + (1 + m)
            BY <1>2, <1>8
          <6> QED
            BY <6>1, <1>10
        <5> QED
          BY <5>1
      <4>3. 1 \in Nat /\ S + 1 \in Nat
        BY <1>8
      <4>4. /\ DecodeLen(s2[S + 1]) = DecodeLen(e[1])
            /\ DecodeAt(s2, S + 1) = [cp |-> DecodeAt(e, 1).cp, next |-> S + 1 + DecodeLen(e[1])]
        <5>1. SameBytes(e, 1, s2, S + 1) /\ e[1] \in 0..255
          BY <4>2, <1>2 DEF SameBytes
        <5>2. ReadAlike(e, 1, s2, S + 1)
          BY <4>3, <5>1, DecodeElsewhere
        <5> QED
          BY <5>2 DEF ReadAlike
      <4> QED
        BY <4>1, <4>4, <1>2, <1>8
    <3>2. CASE k # L + 1
      <4> PICK i : at[k] = i
        OBVIOUS
      <4>0. k \in 1..L /\ k + 1 \in 1..L + 1
        BY <3>2, <1>8
      <4>a. at[k] \in Nat \ {0} /\ at[k] <= S
        BY <4>0, <1>12
      <4>1. k \in 1..L /\ i \in 1..S /\ at2[k] = i /\ at2[k + 1] = at[k + 1]
        BY <4>0, <4>a, <1>8, <1>11
      <4>2. at[k + 1] = i + DecodeLen(s[i]) /\ DecodeAt(s, i).cp = txt[k]
        BY <4>1, <1>5, <1>8
      <4>3. DecodeLen(s[i]) \in 1..4 /\ s[i] \in 0..255 /\ at[k + 1] <= S + 1
        <5>1. k + 1 \in 1..L + 1
          BY <4>1, <1>8
        <5> QED
          BY <4>1, <5>1, <1>4, <1>8, <1>12, DecodeLenFour
      <4>4. \A m \in 0..DecodeLen(s[i]) - 1 : s2[i + m] = s[i + m]
        <5>1. ASSUME NEW m \in 0..DecodeLen(s[i]) - 1
              PROVE  i + m \in 1..S
          <6> PICK D : DecodeLen(s[i]) = D
            OBVIOUS
          <6>1. D \in 1..4 /\ i + D <= S + 1 /\ m \in 0..D - 1
            BY <4>2, <4>3
          <6>2. i \in 1..S /\ S \in Nat
            BY <4>1, <1>8
          <6> QED
            BY ONLY <6>1, <6>2
        <5> QED
          BY <5>1, <1>10
      <4>5. i \in Nat
        BY <4>1
      <4>6. /\ DecodeLen(s2[i]) = DecodeLen(s[i])
            /\ DecodeAt(s2, i) = [cp |-> DecodeAt(s, i).cp, next |-> i + DecodeLen(s[i])]
        <5>1. SameBytes(s, i, s2, i) /\ s[i] \in 0..255
          BY <4>3, <4>4 DEF SameBytes
        <5>2. ReadAlike(s, i, s2, i)
          BY <4>5, <5>1, DecodeElsewhere
        <5> QED
          BY <5>2 DEF ReadAlike
      <4>7. txt2[k] = txt[k]
        BY <4>1, <1>9
      <4> QED
        BY <4>1, <4>2, <4>6, <4>7
    <3> QED
      BY <3>1, <3>2
  <2>4. Len(txt2) + 1 = L + 2
    BY <1>8, <1>9
  <2>5. \A k \in 1..Len(txt2) : /\ at2[k + 1] = at2[k] + DecodeLen(s2[at2[k]])
                                /\ DecodeAt(s2, at2[k]).cp = txt2[k]
    BY <2>3, <1>9
  <2>6. \A j, k \in 1..Len(txt2) + 1 : j < k => at2[j] < at2[k]
    BY <2>2, <2>4
  <2>7. s2 \in Seq(0..255) /\ at2 \in [1..Len(txt2) + 1 -> Nat \ {0}]
    BY <2>4, <1>10, <1>11
  <2> QED
    BY <2>1, <2>5, <2>6, <2>7 DEF CodePointsAt
<1>14. at2[d] = at[d] /\ at[d] \in Nat \ {0} /\ at[d] <= S + 1
  BY <1>6, <1>8, <1>11, <1>12
<1>15. Cut(t, s2, at2[d], arrived)
  <2>1. /\ t \in Seq(0..255) /\ Len(t) = arrived - at[d]
        /\ \A i \in 1..arrived - at[d] : t[i] = s[(at[d] - 1) + i]
    BY <1>7 DEF Cut
  <2>2. ASSUME NEW i \in 1..arrived - at[d]
        PROVE  s2[(at[d] - 1) + i] = s[(at[d] - 1) + i]
    <3> PICK a : at[d] = a
      OBVIOUS
    <3>a. a \in Nat /\ a >= 1 /\ arrived \in 1..S + 1 /\ S \in Nat /\ i \in 1..arrived - a
      BY <1>6, <1>8, <1>14
    <3>1. (at[d] - 1) + i \in 1..S
      BY ONLY <3>a, at[d] = a
    <3> QED
      BY <3>1, <1>10
  <2> QED
    BY <2>1, <2>2, <1>14 DEF Cut
<1>16. Cut(w2, s2, arrived, Len(s2) + 1)
  <2>1. /\ w \in Seq(0..255) /\ Len(w) = (S + 1) - arrived
        /\ \A i \in 1..(S + 1) - arrived : w[i] = s[(arrived - 1) + i]
    BY <1>7, <1>8 DEF Cut
  <2>2. /\ w2 \in Seq(0..255) /\ Len(w2) = (S + 1) - arrived + E
        /\ \A i \in 1..(S + 1) - arrived : w2[i] = w[i]
        /\ \A i \in 1..E : w2[((S + 1) - arrived) + i] = e[i]
    <3> PICK m : (S + 1) - arrived = m
      OBVIOUS
    <3>1. w \in Seq(0..255) /\ e \in Seq(0..255) /\ Len(w) = m /\ Len(e) = E
      BY <2>1, <1>2, <1>8
    <3>2. IsJoined(0..255, w, e, m, E, w2)
      BY <3>1, JoinedPlaces
    <3> QED
      BY <3>2 DEF IsJoined
  <2> HIDE DEF w2
  <2>3. arrived \in 1..S + 1
    BY <1>6, <1>8
  <2>4. ASSUME NEW i \in 1..(S + E + 1) - arrived
        PROVE  w2[i] = s2[(arrived - 1) + i]
    <3>1. CASE i <= (S + 1) - arrived
      <4>1. i \in 1..(S + 1) - arrived /\ (arrived - 1) + i \in 1..S
        BY <3>1, <2>3, <1>8
      <4> QED
        BY <4>1, <2>1, <2>2, <1>10
    <3>2. CASE ~(i <= (S + 1) - arrived)
      <4> PICK j : i - ((S + 1) - arrived) = j
        OBVIOUS
      <4>1. j \in 1..E /\ ((S + 1) - arrived) + j = i /\ (arrived - 1) + i = S + j
        BY <3>2, <2>3, <1>8
      <4>2. w2[((S + 1) - arrived) + j] = e[j] /\ s2[S + j] = e[j]
        BY <4>1, <2>2, <1>10
      <4> QED
        BY <4>1, <4>2
    <3> QED
      BY <3>1, <3>2
  <2>5. (S + E + 1) - arrived = (Len(s2) + 1) - arrived /\ Len(w2) = (Len(s2) + 1) - arrived
    BY <2>2, <2>3, <1>8, <1>10
  <2> QED
    BY <2>2, <2>4, <2>5 DEF Cut
<1>17. d <= Len(txt2) => arrived < at2[d + 1]
  <2>1. CASE d <= L
    <3>1. d + 1 \in 1..L + 1
      BY <2>1, <1>6, <1>8
    <3> QED
      BY <2>1, <3>1, <1>6, <1>8, <1>11
  <2>2. CASE ~(d <= L)
    <3>1. d = L + 1 /\ d + 1 = L + 2 /\ at[d] = S + 1 /\ arrived \in 1..S + 1
      BY <2>2, <1>4, <1>6, <1>8
    <3> QED
      BY <3>1, <1>8, <1>11
  <2> QED
    BY <2>1, <2>2
<1>18. /\ d \in 1..Len(txt2) + 1 /\ arrived \in 1..Len(s2) + 1
       /\ \A k \in 1..d - 1 : dec[k] = txt2[k]
  <2>1. \A k \in 1..d - 1 : k \in 1..L
    BY <1>6, <1>8
  <2>2. d \in 1..Len(txt2) + 1 /\ arrived \in 1..Len(s2) + 1
    BY <1>6, <1>8, <1>9, <1>10
  <2> QED
    BY <2>1, <2>2, <1>6, <1>9
<1>19. StreamAt(s2, at2, d, arrived, txt2, w2, t, dec)
  BY <1>6, <1>13, <1>14, <1>15, <1>16, <1>17, <1>18 DEF StreamAt
<1>20. Streamed(txt2, w2, t, dec)
  BY <1>3, <1>9, <1>19 DEF Streamed
<1> QED
  BY <1>20 DEF txt2

(* in holds the stream from code point d up to the position upto, where    *)
(* code point e, which begins in it, is not whole.                         *)
Holds(in, s, at, txt, d, e, upto) ==
  /\ CodePointsAt(s, at, txt) /\ txt \in Seq(Encodable)
  /\ d \in 1..Len(txt) + 1 /\ e \in d..Len(txt) + 1
  /\ upto \in at[e]..Len(s) + 1
  /\ e <= Len(txt) => upto < at[e + 1]
  /\ Cut(in, s, at[d], upto)

(* Position p of it is where code point k begins, and k is whole.          *)
Whole(in, at, txt, d, k, p) ==
  /\ p <= Len(in) /\ DecodeLen(in[p]) <= Len(in) - p + 1
  /\ p + DecodeLen(in[p]) = at[k + 1] - at[d] + 1
  /\ DecodeAt(in, p) = [cp |-> txt[k], next |-> at[k + 1] - at[d] + 1]

(* Where code point k is in it, and what the loops meet there.             *)
LEMMA HeldCodePoint ==
  ASSUME NEW in, NEW s, NEW at, NEW txt, NEW d, NEW e, NEW upto,
         Holds(in, s, at, txt, d, e, upto), NEW k \in d..e, NEW p, at[k] - at[d] + 1 = p
  PROVE  /\ at[d] \in Nat \ {0} /\ at[e] \in Nat \ {0} /\ at[k] \in Nat \ {0}
         /\ at[k] - at[d] >= k - d /\ at[k] <= at[e] /\ at[e] <= upto /\ upto \in Nat
         /\ p \in Nat \ {0} /\ Len(in) = upto - at[d]
         /\ k < e => Whole(in, at, txt, d, k, p)
         /\ k = e => ~(p <= Len(in) /\ DecodeLen(in[p]) <= Len(in) - p + 1)
<1> PICK L : Len(txt) = L
  OBVIOUS
<1> PICK S : Len(s) = S
  OBVIOUS
<1>1. /\ Len(txt) = L /\ L \in Nat /\ Len(s) = S /\ S \in Nat
      /\ d \in 1..L + 1 /\ e \in d..L + 1 /\ k \in d..e /\ d \in Nat /\ e \in Nat /\ k \in Nat
  BY DEF Holds, CodePointsAt
<1>2. /\ s \in Seq(0..255) /\ at \in [1..L + 1 -> Nat \ {0}] /\ at[L + 1] = S + 1
      /\ \A j, m \in 1..L + 1 : j < m => at[j] < at[m]
  BY <1>1 DEF Holds, CodePointsAt
<1>3. \A m \in 1..L : /\ at[m + 1] = at[m] + DecodeLen(s[at[m]])
                      /\ DecodeAt(s, at[m]).cp = txt[m]
  BY <1>1 DEF Holds, CodePointsAt
<1>4. /\ upto \in at[e]..S + 1 /\ (e <= L => upto < at[e + 1])
      /\ Len(in) = upto - at[d] /\ in \in Seq(0..255)
      /\ \A i \in 1..upto - at[d] : in[i] = s[(at[d] - 1) + i]
  BY <1>1 DEF Holds, Cut
<1> PICK A, B, K : at[d] = A /\ at[e] = B /\ at[k] = K
  OBVIOUS
<1>5. A \in Nat \ {0} /\ B \in Nat \ {0} /\ K \in Nat \ {0} /\ upto \in Nat /\ B <= upto
      /\ d \in 1..L + 1 /\ e \in 1..L + 1 /\ k \in 1..L + 1
  <2>1. d \in 1..L + 1 /\ e \in 1..L + 1 /\ k \in 1..L + 1
    BY <1>1
  <2>2. A \in Nat \ {0} /\ B \in Nat \ {0} /\ K \in Nat \ {0}
    BY <2>1, <1>2
  <2> QED
    BY <2>1, <2>2, <1>1, <1>4
<1>6. K <= B
  <2>1. k < e => K < B
    BY <1>2, <1>5
  <2>2. k = e \/ k < e
    BY <1>1
  <2> QED
    BY <2>1, <2>2, <1>5
<1>7. K - A >= k - d
  <2> DEFINE T == {m \in Nat : d + m <= L + 1 => at[d + m] >= A + m}
  <2>1. 0 \in T
    <3>1. d + 0 = d /\ A + 0 = A
      BY <1>1, <1>5
    <3> QED
      BY <3>1, <1>5
  <2>2. ASSUME NEW m \in T
        PROVE  m + 1 \in T
    <3>1. m \in Nat /\ m + 1 \in Nat
      OBVIOUS
    <3>2. ASSUME d + (m + 1) <= L + 1
          PROVE  at[d + (m + 1)] >= A + (m + 1)
      <4> PICK x, y : d + m = x /\ d + (m + 1) = y
        OBVIOUS
      <4>1. x \in 1..L + 1 /\ y \in 1..L + 1 /\ x < y
        BY <3>1, <3>2, <1>1
      <4>2. at[x] < at[y] /\ at[x] \in Nat /\ at[y] \in Nat
        BY <4>1, <1>2
      <4>3. at[x] >= A + m
        BY <4>1, <1>1
      <4>4. at[y] >= A + (m + 1)
        BY <4>2, <4>3, <3>1, <1>5
      <4> QED
        BY <4>4
    <3> QED
      BY <3>1, <3>2
  <2>3. T \subseteq Nat
    OBVIOUS
  <2>4. T = Nat
    <3> HIDE DEF T
    <3> QED
      BY <2>1, <2>2, <2>3, NatClosed
  <2> PICK m : k - d = m
    OBVIOUS
  <2>5. m \in Nat /\ d + m = k /\ k <= L + 1
    BY <1>1
  <2>6. m \in T
    BY <2>4, <2>5
  <2>7. at[d + m] >= A + m
    BY <2>5, <2>6
  <2>8. K >= A + m
    BY <2>5, <2>7
  <2> QED
    BY <2>8, <2>5, <1>1, <1>5
<1>8. K - A + 1 = p /\ p \in Nat \ {0} /\ Len(in) = upto - A /\ Len(in) \in Nat
  BY <1>1, <1>4, <1>5, <1>6, <1>7
<1>9. ASSUME K <= S
      PROVE  s[K] \in 0..255 /\ DecodeLen(s[K]) \in 1..4
  <2>1. K \in 1..Len(s) /\ s \in Seq(0..255)
    BY <1>9, <1>1, <1>2, <1>5
  <2>2. s[K] \in 0..255
    BY <2>1, ElementOfSeq
  <2> QED
    BY <2>2, DecodeLenFour
<1>10. ASSUME k < e
       PROVE  /\ p <= Len(in) /\ DecodeLen(in[p]) <= Len(in) - p + 1
              /\ p + DecodeLen(in[p]) = at[k + 1] - A + 1
              /\ DecodeAt(in, p) = [cp |-> txt[k], next |-> at[k + 1] - A + 1]
  <2> PICK D : DecodeLen(s[K]) = D
    OBVIOUS
  <2> PICK N : at[k + 1] = N
    OBVIOUS
  <2>1. k \in 1..L /\ k + 1 \in 1..L + 1 /\ (k + 1 = e \/ k + 1 < e)
    BY <1>10, <1>1, <1>5
  <2>2. N \in Nat /\ N = K + D /\ DecodeAt(s, K).cp = txt[k]
    BY <2>1, <1>2, <1>3
  <2>3. N <= B
    <3>1. k + 1 < e => N < B
      BY <2>1, <1>2, <1>5
    <3>2. k + 1 = e => N = B
      OBVIOUS
    <3> QED
      BY <3>1, <3>2, <2>1, <2>2, <1>5
  <2>4. K <= S
    <3>1. K < B
      BY <1>10, <1>2, <1>5
    <3>2. B <= S + 1
      BY <1>1, <1>4, <1>5
    <3> QED
      BY <3>1, <3>2, <1>1, <1>5
  <2>5. D \in 1..4 /\ s[K] \in 0..255
    BY <2>4, <1>9
  <2>6. ASSUME NEW m \in 0..D - 1
        PROVE  in[p + m] = s[K + m]
    <3>1. p + m \in 1..upto - A /\ (A - 1) + (p + m) = K + m
      BY <2>2, <2>3, <2>5, <1>5, <1>7, <1>8
    <3>2. in[p + m] = s[(A - 1) + (p + m)]
      BY <3>1, <1>4
    <3> QED
      BY <3>1, <3>2
  <2>7. K \in Nat /\ p \in Nat /\ s[K] \in 0..255
    BY <2>5, <1>5, <1>8
  <2>8. \A m \in 0..DecodeLen(s[K]) - 1 : in[p + m] = s[K + m]
    BY <2>6
  <2>9. /\ DecodeLen(in[p]) = D
        /\ DecodeAt(in, p) = [cp |-> DecodeAt(s, K).cp, next |-> p + D]
    <3>1. /\ DecodeLen(in[p]) = DecodeLen(s[K])
          /\ DecodeAt(in, p) = [cp |-> DecodeAt(s, K).cp, next |-> p + DecodeLen(s[K])]
      <4>1. SameBytes(s, K, in, p) /\ K \in Nat /\ p \in Nat /\ s[K] \in 0..255
        BY <2>7, <2>8 DEF SameBytes
      <4>2. ReadAlike(s, K, in, p)
        BY <4>1, DecodeElsewhere
      <4> QED
        BY <4>2 DEF ReadAlike
    <3> QED
      BY <3>1
  <2>10. p + D = N - A + 1
    <3>1. K \in Nat /\ A \in Nat /\ D \in Nat /\ N = K + D /\ K - A + 1 = p
      BY <2>2, <2>5, <1>5, <1>8
    <3> QED
      BY ONLY <3>1
  <2>11. p <= Len(in) /\ D <= Len(in) - p + 1
    BY <2>2, <2>3, <2>5, <1>5, <1>8
  <2> QED
    BY <2>2, <2>9, <2>10, <2>11
<1>11. ASSUME k = e, p <= Len(in), DecodeLen(in[p]) <= Len(in) - p + 1
       PROVE  FALSE
  <2>1. K = B /\ K < upto /\ upto <= S + 1
    BY <1>11, <1>4, <1>5, <1>8
  <2>2. K <= S
    BY <2>1, <1>1, <1>5
  <2>3. e <= L
    <3> SUFFICES ASSUME ~(e <= L) PROVE FALSE
      OBVIOUS
    <3>1. e = L + 1
      BY <1>1
    <3>2. B = S + 1
      BY <3>1, <1>2
    <3> QED
      BY <3>2, <2>1, <2>2, <1>1
  <2> PICK D : DecodeLen(s[K]) = D
    OBVIOUS
  <2>4. k \in 1..L /\ at[k + 1] = K + D /\ upto < at[k + 1]
    <3>1. k \in 1..L
      BY <2>3, <1>1, <1>11
    <3>2. at[k + 1] = at[k] + DecodeLen(s[at[k]])
      BY <3>1, <1>3
    <3>3. upto < at[k + 1]
      BY <2>3, <1>4, <1>11
    <3> QED
      BY <3>1, <3>2, <3>3
  <2>5. D \in 1..4
    BY <2>2, <1>9
  <2>6. in[p] = s[K]
    <3>1. p \in 1..upto - A /\ (A - 1) + p = K
      BY <1>11, <1>5, <1>8
    <3>2. in[p] = s[(A - 1) + p]
      BY <3>1, <1>4
    <3> QED
      BY <3>1, <3>2
  <2>7. D <= Len(in) - p + 1
    BY <2>6, <1>11
  <2> QED
    BY <2>4, <2>5, <2>7, <1>5, <1>8
<1>12. k < e => Whole(in, at, txt, d, k, p)
  BY <1>10 DEF Whole
<1> QED
  BY <1>5, <1>6, <1>7, <1>8, <1>11, <1>12

(* The first n of a text from code point d on.                             *)
PartOf(part, txt, d, n) ==
  /\ part \in Seq(Encodable) /\ Len(part) = n
  /\ \A i \in 1..n : part[i] = txt[(d - 1) + i]

(* The two loops of decode_utf8_string.                                    *)
LEMMA LoopCounts ==
  ASSUME NEW in, NEW s, NEW at, NEW txt, NEW d, NEW e, NEW upto,
         Holds(in, s, at, txt, d, e, upto)
  PROVE  Counted(in) = e - d /\ Rest(in) = upto - at[e]
<1>1. d \in Nat /\ e \in Nat /\ d <= e
  <2>1. Len(txt) \in Nat
    BY DEF Holds
  <2> QED
    BY <2>1 DEF Holds
<1> PICK N : e - d = N
  OBVIOUS
<1>2. N \in Nat /\ d + N = e
  BY <1>1
<1> DEFINE Where(j) == [count |-> j, at |-> at[d + j] - at[d] + 1]
           T == {j \in Nat : CountLoop(in, j) = IF j <= N THEN Where(j) ELSE Where(N)}
<1>3. d \in d..e /\ at[d] \in Nat
  <2> PICK p : at[d] - at[d] + 1 = p
    OBVIOUS
  <2>1. d \in d..e
    BY <1>1
  <2> QED
    BY <2>1, HeldCodePoint
<1>4. 0 \in T
  <2>1. Where(0) = [count |-> 0, at |-> 1]
    <3>1. d + 0 = d /\ at[d] - at[d] + 1 = 1
      BY <1>1, <1>3
    <3> QED
      BY <3>1
  <2> QED
    BY <2>1, <1>2, CountTurns
<1>5. ASSUME NEW j \in Nat, j < N
      PROVE  CountTurn(in, Where(j)) = Where(j + 1)
  <2> PICK k : d + j = k
    OBVIOUS
  <2> PICK p : at[k] - at[d] + 1 = p
    OBVIOUS
  <2>1. k \in d..e /\ k < e /\ k + 1 = d + (j + 1)
    BY <1>1, <1>2, <1>5
  <2>2. /\ p <= Len(in) /\ DecodeLen(in[p]) <= Len(in) - p + 1
        /\ p + DecodeLen(in[p]) = at[k + 1] - at[d] + 1
    <3>1. Whole(in, at, txt, d, k, p)
      BY <2>1, HeldCodePoint
    <3> QED
      BY <3>1 DEF Whole
  <2>3. Where(j).count = j /\ Where(j).at = p
    OBVIOUS
  <2>4. Where(j + 1) = [count |-> j + 1, at |-> at[k + 1] - at[d] + 1]
    BY <2>1
  <2> HIDE DEF Where
  <2> QED
    BY <2>2, <2>3, <2>4 DEF CountTurn
<1>6. CountTurn(in, Where(N)) = Where(N)
  <2> PICK p : at[e] - at[d] + 1 = p
    OBVIOUS
  <2>1. e \in d..e
    BY <1>1
  <2>2. ~(p <= Len(in) /\ DecodeLen(in[p]) <= Len(in) - p + 1)
    BY <2>1, HeldCodePoint
  <2>3. Where(N).at = p
    BY <1>2
  <2> HIDE DEF Where
  <2> QED
    BY <2>2, <2>3 DEF CountTurn
<1>7. ASSUME NEW j \in T
      PROVE  j + 1 \in T
  <2>1. j \in Nat /\ j + 1 \in Nat /\ CountLoop(in, j + 1) = CountTurn(in, CountLoop(in, j))
    BY CountTurns
  <2>2. CountLoop(in, j) = IF j <= N THEN Where(j) ELSE Where(N)
    OBVIOUS
  <2> HIDE DEF Where
  <2>3. CASE j < N
    <3>1. CountLoop(in, j) = Where(j) /\ j + 1 <= N
      BY <2>1, <2>2, <2>3, <1>2
    <3>2. CountLoop(in, j + 1) = Where(j + 1)
      BY <2>1, <2>3, <3>1, <1>5
    <3> QED
      BY <2>1, <3>1, <3>2
  <2>4. CASE ~(j < N)
    <3>1. ~(j + 1 <= N) /\ (j <= N => j = N)
      BY <2>1, <2>4, <1>2
    <3>2. CountLoop(in, j) = Where(N)
      BY <2>2, <3>1
    <3>3. CountLoop(in, j + 1) = Where(N)
      BY <2>1, <3>2, <1>6
    <3> QED
      BY <2>1, <3>1, <3>3
  <2> QED
    BY <2>3, <2>4
<1>8. T = Nat
  <2>1. T \subseteq Nat
    OBVIOUS
  <2> HIDE DEF T
  <2> QED
    BY <1>4, <1>7, <2>1, NatClosed
<1>9. /\ at[d] \in Nat /\ at[e] \in Nat /\ at[e] - at[d] >= N /\ at[e] <= upto /\ upto \in Nat
      /\ Len(in) = upto - at[d]
  <2> PICK p : at[e] - at[d] + 1 = p
    OBVIOUS
  <2>1. e \in d..e
    BY <1>1
  <2>2. /\ at[d] \in Nat \ {0} /\ at[e] \in Nat \ {0} /\ at[e] - at[d] >= e - d
        /\ at[e] <= upto /\ upto \in Nat /\ Len(in) = upto - at[d]
    BY <2>1, HeldCodePoint
  <2> QED
    BY <2>2
<1> PICK n : Len(in) = n
  OBVIOUS
<1>10. n \in Nat /\ N <= n
  BY <1>2, <1>9
<1>11. n \in T
  BY <1>8, <1>10
<1>12. CountLoop(in, n) = IF n <= N THEN Where(n) ELSE Where(N)
  BY <1>11
<1>13. CountLoop(in, n) = Where(N)
  <2> HIDE DEF Where, T
  <2>1. n <= N => n = N
    BY <1>2, <1>10
  <2> QED
    BY <2>1, <1>12
<1>14. Where(N) = [count |-> N, at |-> at[e] - at[d] + 1]
  BY <1>2
<1>15. Counted(in) = N
  BY <1>13, <1>14 DEF Counted
<1>16. Rest(in) = n + 1 - (at[e] - at[d] + 1)
  BY <1>13, <1>14 DEF Rest
<1>17. n + 1 - (at[e] - at[d] + 1) = upto - at[e]
  BY <1>9
<1> QED
  BY <1>15, <1>16, <1>17

LEMMA LoopDecodes ==
  ASSUME NEW in, NEW s, NEW at, NEW txt, NEW d, NEW e, NEW upto,
         Holds(in, s, at, txt, d, e, upto)
  PROVE  PartOf(DecodeLoop(in, e - d).out, txt, d, e - d)
<1>1. /\ d \in Nat \ {0} /\ e \in Nat /\ d <= e /\ e <= Len(txt) + 1
      /\ txt \in Seq(Encodable) /\ Len(txt) \in Nat
  <2>1. txt \in Seq(Encodable) /\ Len(txt) \in Nat
    BY DEF Holds
  <2> QED
    BY <2>1 DEF Holds
<1> PICK N : e - d = N
  OBVIOUS
<1>2. N \in Nat /\ d + N = e
  BY <1>1
<1> DEFINE Done(j) == /\ PartOf(DecodeLoop(in, j).out, txt, d, j)
                      /\ DecodeLoop(in, j).next = at[d + j] - at[d] + 1
           T == {j \in Nat : j <= N => Done(j)}
<1>3. at[d] \in Nat
  <2> PICK p : at[d] - at[d] + 1 = p
    OBVIOUS
  <2>1. d \in d..e
    BY <1>1
  <2> QED
    BY <2>1, HeldCodePoint
<1>4. 0 \in T
  <2>1. DecodeLoop(in, 0) = [out |-> <<>>, next |-> 1]
    BY DecodeTurns
  <2>2. d + 0 = d /\ at[d] - at[d] + 1 = 1
    BY <1>1, <1>3
  <2>3. PartOf(<<>>, txt, d, 0)
    BY DEF PartOf
  <2> QED
    BY <2>1, <2>2, <2>3
<1>5. ASSUME NEW j \in T
      PROVE  j + 1 \in T
  <2>1. j \in Nat /\ j + 1 \in Nat
    OBVIOUS
  <2>2. ASSUME j + 1 <= N
        PROVE  Done(j + 1)
    <3> PICK k : d + j = k
      OBVIOUS
    <3> PICK p : at[k] - at[d] + 1 = p
      OBVIOUS
    <3>1. k \in d..e /\ k < e /\ k + 1 = d + (j + 1) /\ j <= N /\ k \in 1..Len(txt)
      BY <1>1, <1>2, <2>1, <2>2
    <3>2. DecodeAt(in, p) = [cp |-> txt[k], next |-> at[k + 1] - at[d] + 1]
      <4>1. Whole(in, at, txt, d, k, p)
        BY <3>1, HeldCodePoint
      <4> QED
        BY <4>1 DEF Whole
    <3>3. Done(j)
      BY <3>1
    <3> PICK u : DecodeLoop(in, j) = u
      OBVIOUS
    <3>4. PartOf(u.out, txt, d, j) /\ u.next = p
      BY <3>3
    <3>5. DecodeLoop(in, j + 1) = DecodeTurn(in, u)
      BY <2>1, DecodeTurns
    <3>6. DecodeTurn(in, u) = [out |-> Append(u.out, txt[k]), next |-> at[k + 1] - at[d] + 1]
      BY <3>2, <3>4 DEF DecodeTurn
    <3> PICK x : txt[k] = x
      OBVIOUS
    <3>7. x \in Encodable
      BY <3>1, <1>1, ElementOfSeq
    <3> PICK part : u.out = part
      OBVIOUS
    <3> PICK more : Append(part, x) = more
      OBVIOUS
    <3>8. part \in Seq(Encodable) /\ Len(part) = j /\ \A i \in 1..j : part[i] = txt[(d - 1) + i]
      BY <3>4 DEF PartOf
    <3>9. /\ more \in Seq(Encodable) /\ Len(more) = j + 1 /\ more[j + 1] = x
          /\ \A i \in 1..j : more[i] = part[i]
      BY <3>7, <3>8, <2>1
    <3>10. ASSUME NEW i \in 1..j + 1
           PROVE  more[i] = txt[(d - 1) + i]
      <4>1. CASE i = j + 1
        <5>1. (d - 1) + (j + 1) = k
          BY <1>1, <2>1
        <5>2. more[i] = x /\ (d - 1) + i = k
          BY <4>1, <5>1, <3>9
        <5> QED
          BY <5>2
      <4>2. CASE i # j + 1
        <5>1. i \in 1..j
          BY <4>2, <2>1
        <5> QED
          BY <5>1, <3>8, <3>9
      <4> QED
        BY <4>1, <4>2
    <3>11. PartOf(more, txt, d, j + 1)
      BY <3>9, <3>10 DEF PartOf
    <3>12. DecodeLoop(in, j + 1).out = more
      BY <3>5, <3>6
    <3>13. DecodeLoop(in, j + 1).next = at[d + (j + 1)] - at[d] + 1
      BY <3>1, <3>5, <3>6
    <3> QED
      BY <3>11, <3>12, <3>13
  <2> HIDE DEF Done
  <2> QED
    BY <2>1, <2>2
<1>6. T = Nat
  <2>1. T \subseteq Nat
    OBVIOUS
  <2> HIDE DEF T
  <2> QED
    BY <1>4, <1>5, <2>1, NatClosed
<1>7. N \in T /\ N <= N
  BY <1>2, <1>6
<1>8. Done(N)
  BY <1>7
<1> QED
  BY <1>8

LEMMA CutFurther ==
  ASSUME NEW s, NEW t, NEW w, NEW f \in Nat \ {0}, NEW g \in Nat, NEW m \in f..g,
         Cut(t, s, f, m), Cut(w, s, m, g), NEW n \in 0..Len(w)
  PROVE  Cut(t \o SubSeq(w, 1, n), s, f, m + n)
<1>1. /\ t \in Seq(0..255) /\ Len(t) = m - f /\ w \in Seq(0..255) /\ Len(w) = g - m
      /\ \A i \in 1..m - f : t[i] = s[(f - 1) + i]
      /\ \A i \in 1..g - m : w[i] = s[(m - 1) + i]
  BY DEF Cut
<1> PICK part : SubSeq(w, 1, n) = part
  OBVIOUS
<1>2. part \in Seq(0..255) /\ Len(part) = n /\ \A i \in 1..n : part[i] = w[i]
  <2>1. 1 \in 1..Len(w) + 1 /\ n \in 1 - 1..Len(w) /\ (n - 1) + 1 = n /\ n \in Nat
    BY <1>1
  <2>2. /\ part \in Seq(0..255) /\ Len(part) = (n - 1) + 1
        /\ \A i \in 1..(n - 1) + 1 : part[i] = w[(1 - 1) + i]
    <3>1. IsPiece(0..255, w, 1, n, part)
      BY <2>1, <1>1, PiecePlaces
    <3> QED
      BY <3>1 DEF IsPiece
  <2>3. ASSUME NEW i \in 1..n
        PROVE  part[i] = w[i]
    <3>1. i \in 1..(n - 1) + 1 /\ (1 - 1) + i = i
      BY <2>1
    <3> QED
      BY <3>1, <2>2
  <2> QED
    BY <2>1, <2>2, <2>3
<1> PICK r : t \o part = r
  OBVIOUS
<1>3. /\ r \in Seq(0..255) /\ Len(r) = (m - f) + n /\ \A i \in 1..m - f : r[i] = t[i]
      /\ \A i \in 1..n : r[(m - f) + i] = part[i]
  <2> PICK l : m - f = l
    OBVIOUS
  <2>a. t \in Seq(0..255) /\ part \in Seq(0..255) /\ Len(t) = l /\ Len(part) = n
    BY <1>1, <1>2
  <2>1. IsJoined(0..255, t, part, l, n, r)
    BY ONLY <2>a, t \o part = r, JoinedPlaces
  <2> QED
    BY <2>1 DEF IsJoined
<1>4. f \in Nat /\ m \in Nat /\ f <= m /\ n \in Nat /\ n <= g - m /\ (m - f) + n = (m + n) - f
  BY <1>1
<1>5. ASSUME NEW i \in 1..(m + n) - f
      PROVE  r[i] = s[(f - 1) + i]
  <2>1. CASE i <= m - f
    BY <2>1, <1>1, <1>3, <1>4
  <2>2. CASE ~(i <= m - f)
    <3> PICK j : i - (m - f) = j
      OBVIOUS
    <3>1. j \in 1..n /\ j \in 1..g - m /\ (m - f) + j = i /\ (m - 1) + j = (f - 1) + i
      BY <2>2, <1>4
    <3>2. r[(m - f) + j] = part[j] /\ part[j] = w[j] /\ w[j] = s[(m - 1) + j]
      BY <3>1, <1>1, <1>2, <1>3
    <3> QED
      BY <3>1, <3>2
  <2> QED
    BY <2>1, <2>2
<1>6. Cut(r, s, f, m + n)
  BY <1>3, <1>4, <1>5 DEF Cut
<1> QED
  BY <1>6

LEMMA CutLater ==
  ASSUME NEW s, NEW r, NEW f \in Nat \ {0}, NEW g \in Nat, NEW m \in f..g, Cut(r, s, f, g)
  PROVE  Cut(SubSeq(r, m - f + 1, Len(r)), s, m, g)
<1>1. /\ r \in Seq(0..255) /\ Len(r) = g - f
      /\ \A i \in 1..g - f : r[i] = s[(f - 1) + i]
  BY DEF Cut
<1>2. f \in Nat /\ m \in Nat /\ f <= m /\ m <= g
  OBVIOUS
<1> PICK a : m - f + 1 = a
  OBVIOUS
<1>3. a \in Nat /\ a >= 1 /\ a <= Len(r) + 1 /\ m - f = a - 1
  BY <1>1, <1>2
<1> PICK q : SubSeq(r, a, Len(r)) = q
  OBVIOUS
<1>4. /\ q \in Seq(0..255) /\ Len(q) = (Len(r) - a) + 1
      /\ \A i \in 1..(Len(r) - a) + 1 : q[i] = r[(a - 1) + i]
  <2>1. a \in 1..Len(r) + 1 /\ Len(r) \in a - 1..Len(r)
    BY <1>1, <1>3
  <2>2. IsPiece(0..255, r, a, Len(r), q)
    BY <2>1, <1>1, PiecePlaces
  <2> QED
    BY <2>2 DEF IsPiece
<1>5. (Len(r) - a) + 1 = g - m
  BY <1>1, <1>2, <1>3
<1>6. ASSUME NEW i \in 1..g - m
      PROVE  q[i] = s[(m - 1) + i]
  <2> PICK j : (a - 1) + i = j
    OBVIOUS
  <2>0. f \in Nat /\ f >= 1 /\ g \in Nat /\ i \in 1..g - m /\ j = (m - f) + i
    <3>1. (a - 1) + i = (m - f) + i
      BY <1>2, <1>3
    <3> QED
      BY <3>1
  <2>1. j \in 1..g - f /\ (f - 1) + j = (m - 1) + i
    BY ONLY <2>0, <1>2
  <2>2. q[i] = r[j] /\ r[j] = s[(f - 1) + j]
    BY <2>1, <1>1, <1>4, <1>5
  <2> QED
    BY <2>1, <2>2
<1>7. Cut(q, s, m, g)
  BY <1>4, <1>5, <1>6 DEF Cut
<1> QED
  BY <1>7

(* The next n bytes are fed.                                               *)
LEMMA StreamFed ==
  ASSUME NEW txt, NEW w, NEW t, NEW dec, NEW n, Streamed(txt, w, t, dec),
         n \in 1..Len(w), NEW in, t \o SubSeq(w, 1, n) = in
  PROVE  Streamed(txt, SubSeq(w, n + 1, Len(w)), SubSeq(in, Len(in) - Rest(in) + 1, Len(in)),
                  dec \o DecodeLoop(in, Counted(in)).out)
<1>1. PICK s, at, d, arrived : StreamAt(s, at, d, arrived, txt, w, t, dec)
  BY DEF Streamed
<1>2. txt \in Seq(Encodable) /\ dec \in Seq(Encodable) /\ Len(txt) \in Nat /\ Len(dec) \in Nat
  BY DEF Streamed
<1>3. /\ s \in Seq(0..255) /\ Len(s) \in Nat /\ at \in [1..Len(txt) + 1 -> Nat \ {0}]
      /\ at[Len(txt) + 1] = Len(s) + 1
      /\ \A j, k \in 1..Len(txt) + 1 : j < k => at[j] < at[k]
      /\ CodePointsAt(s, at, txt)
  BY <1>1 DEF StreamAt, CodePointsAt
<1>4. /\ d \in 1..Len(txt) + 1 /\ d = Len(dec) + 1
      /\ \A k \in 1..d - 1 : dec[k] = txt[k]
      /\ arrived \in 1..Len(s) + 1 /\ at[d] <= arrived
      /\ Cut(t, s, at[d], arrived) /\ Cut(w, s, arrived, Len(s) + 1)
  BY <1>1 DEF StreamAt
<1> PICK L : Len(txt) = L
  OBVIOUS
<1> PICK S : Len(s) = S
  OBVIOUS
<1> PICK A : at[d] = A
  OBVIOUS
<1> PICK upto : arrived + n = upto
  OBVIOUS
<1>5. /\ L \in Nat /\ S \in Nat /\ A \in Nat \ {0} /\ d \in 1..L + 1 /\ arrived \in A..S + 1
      /\ n \in 0..Len(w) /\ n \in Nat /\ upto \in Nat /\ upto <= S + 1 /\ arrived < upto
  <2>a. L \in Nat /\ S \in Nat /\ d \in 1..L + 1
    BY <1>2, <1>3, <1>4
  <2>b. A \in Nat \ {0}
    BY <2>a, <1>3
  <2>1. L \in Nat /\ S \in Nat /\ A \in Nat \ {0} /\ d \in 1..L + 1 /\ arrived \in A..S + 1
    BY <2>a, <2>b, <1>4
  <2>2. Len(w) = (S + 1) - arrived
    BY <1>4 DEF Cut
  <2> QED
    BY <2>1, <2>2
<1>6. Cut(in, s, A, upto)
  <2>1. S + 1 \in Nat /\ Cut(t, s, A, arrived) /\ Cut(w, s, arrived, S + 1)
    BY <1>4, <1>5
  <2>2. Cut(t \o SubSeq(w, 1, n), s, A, arrived + n)
    BY <2>1, <1>5, CutFurther
  <2> QED
    BY <2>2
<1>7. \E e \in d..L + 1 : at[e] <= upto /\ (e <= L => upto < at[e + 1])
  <2> DEFINE T == {k \in Nat : k > d /\ (k <= L + 1 => at[k] > upto)}
  <2>1. L + 2 \in T
    BY <1>5
  <2>2. PICK x \in T : \A y \in T : x <= y
    <3>1. T \subseteq Nat /\ T # {}
      BY <2>1
    <3> HIDE DEF T
    <3> QED
      BY <3>1, NatLeast
  <2> PICK e : x - 1 = e
    OBVIOUS
  <2>3. e \in d..L + 1 /\ e + 1 = x /\ e \in Nat /\ ~(x <= e)
    BY <2>1, <2>2, <1>5
  <2>4. e \notin T
    BY <2>2, <2>3
  <2>5. at[e] <= upto
    <3>1. CASE e = d
      BY <3>1, <1>5
    <3>2. CASE e # d
      <4>1. e > d /\ e <= L + 1 /\ ~(at[e] > upto)
        BY <3>2, <2>3, <2>4, <1>5
      <4>2. at[e] \in Nat
        BY <2>3, <1>3, <1>5
      <4> QED
        BY <4>1, <4>2, <1>5
    <3> QED
      BY <3>1, <3>2
  <2>6. ASSUME e <= L
        PROVE  upto < at[e + 1]
    <3> PICK y : e + 1 = y
      OBVIOUS
    <3>1. y = x /\ y \in T /\ y \in 1..L + 1
      BY <2>3, <2>6, <1>5
    <3>2. at[y] > upto /\ at[y] \in Nat
      BY <3>1, <1>3, <1>5
    <3> QED
      BY <3>2, <1>5
  <2> QED
    BY <2>3, <2>5, <2>6
<1>8. PICK e \in d..L + 1 : at[e] <= upto /\ (e <= L => upto < at[e + 1])
  BY <1>7
<1> PICK B : at[e] = B
  OBVIOUS
<1>9. e \in 1..L + 1 /\ e \in Nat /\ d <= e /\ B \in Nat \ {0} /\ B <= upto
  <2>1. e \in 1..L + 1 /\ e \in Nat /\ d <= e
    BY <1>5
  <2> QED
    BY <2>1, <1>3, <1>8
<1>10. Holds(in, s, at, txt, d, e, upto)
  <2>1. upto \in at[e]..Len(s) + 1
    BY <1>5, <1>9
  <2>2. Cut(in, s, at[d], upto)
    BY <1>6
  <2> QED
    BY <2>1, <2>2, <1>2, <1>3, <1>4, <1>8 DEF Holds
<1>11. Counted(in) = e - d /\ Rest(in) = upto - B
  BY <1>10, LoopCounts
<1> PICK part : DecodeLoop(in, e - d).out = part
  OBVIOUS
<1>12. PartOf(part, txt, d, e - d)
  BY <1>10, LoopDecodes
<1>13. A <= B
  <2>1. d < e => A < B
    BY <1>3, <1>5, <1>9
  <2>2. d = e => A = B
    OBVIOUS
  <2> QED
    BY <2>1, <2>2, <1>5, <1>9
<1>14. Cut(SubSeq(in, Len(in) - Rest(in) + 1, Len(in)), s, B, upto)
  <2>1. Len(in) = upto - A
    BY <1>6 DEF Cut
  <2>2. Len(in) - Rest(in) + 1 = B - A + 1
    BY <2>1, <1>5, <1>9, <1>11
  <2>3. B \in A..upto
    BY <1>5, <1>9, <1>13
  <2>4. Cut(SubSeq(in, B - A + 1, Len(in)), s, B, upto)
    BY <2>3, <1>5, <1>6, CutLater
  <2> QED
    BY <2>2, <2>4
<1>15. Cut(SubSeq(w, n + 1, Len(w)), s, upto, S + 1)
  <2>1. upto \in arrived..S + 1 /\ arrived \in Nat \ {0} /\ S + 1 \in Nat
        /\ upto - arrived + 1 = n + 1
    BY <1>5
  <2>2. Cut(w, s, arrived, S + 1)
    BY <1>4
  <2>3. Cut(SubSeq(w, upto - arrived + 1, Len(w)), s, upto, S + 1)
    BY <2>1, <2>2, CutLater
  <2> QED
    BY <2>1, <2>3
<1> PICK more : dec \o part = more
  OBVIOUS
<1>16. more \in Seq(Encodable) /\ e = Len(more) + 1 /\ \A k \in 1..e - 1 : more[k] = txt[k]
  <2> PICK N : e - d = N
    OBVIOUS
  <2> PICK D : Len(dec) = D
    OBVIOUS
  <2>1. part \in Seq(Encodable) /\ Len(part) = N /\ \A i \in 1..N : part[i] = txt[(d - 1) + i]
    BY <1>12 DEF PartOf
  <2>a. D \in Nat /\ d = D + 1
    BY <1>2, <1>4
  <2>b. d \in Nat /\ e \in Nat /\ d <= e
    BY <2>a, <1>9
  <2>2. D \in Nat /\ d - 1 = D /\ N \in Nat /\ e - 1 = D + N
    BY ONLY <2>a, <2>b, e - d = N
  <2>3. /\ more \in Seq(Encodable) /\ Len(more) = D + N /\ \A i \in 1..D : more[i] = dec[i]
        /\ \A i \in 1..N : more[D + i] = part[i]
    <3>1. IsJoined(Encodable, dec, part, D, N, more)
      BY <2>1, <1>2, JoinedPlaces
    <3> QED
      BY <3>1 DEF IsJoined
  <2>4. ASSUME NEW k \in 1..D + N
        PROVE  more[k] = txt[k]
    <3>1. CASE k <= D
      <4>1. k \in 1..D /\ k \in 1..d - 1
        BY <3>1, <2>2
      <4> QED
        BY <4>1, <2>3, <1>4
    <3>2. CASE ~(k <= D)
      <4> PICK i : k - D = i
        OBVIOUS
      <4>1. i \in 1..N /\ D + i = k /\ (d - 1) + i = k
        BY <3>2, <2>2
      <4>2. more[D + i] = part[i] /\ part[i] = txt[(d - 1) + i]
        BY <4>1, <2>1, <2>3
      <4> QED
        BY <4>1, <4>2
    <3> QED
      BY <3>1, <3>2
  <2>5. e = (D + N) + 1
    BY <2>2, <1>9
  <2> QED
    BY <2>2, <2>3, <2>4, <2>5
<1> PICK t2, w2 : /\ SubSeq(in, Len(in) - Rest(in) + 1, Len(in)) = t2
                  /\ SubSeq(w, n + 1, Len(w)) = w2
  OBVIOUS
<1>17. StreamAt(s, at, e, upto, txt, w2, t2, more)
  <2>1. Cut(t2, s, at[e], upto) /\ Cut(w2, s, upto, Len(s) + 1)
    BY <1>14, <1>15
  <2>2. e \in 1..Len(txt) + 1 /\ upto \in 1..Len(s) + 1 /\ at[e] <= upto
    BY <1>5, <1>9
  <2> QED
    BY <2>1, <2>2, <1>3, <1>8, <1>16 DEF StreamAt
<1>18. Streamed(txt, w2, t2, more)
  BY <1>2, <1>16, <1>17 DEF Streamed
<1> QED
  BY <1>11, <1>18

(* Wherever a stream is cut, its code points are decoded as they were sent.*)
THEOREM StreamDecodesHolds == Utf8Spec => []StreamDecodes
<1>1. Utf8Init => Utf8Inv
  BY StreamInit
<1>2. Utf8Inv /\ [Utf8Next]_utf8Vars => Utf8Inv'
  <2> SUFFICES ASSUME Utf8Inv, [Utf8Next]_utf8Vars PROVE Utf8Inv'
    OBVIOUS
  <2>0. Streamed(text, wire, tail, decoded)
    BY DEF Utf8Inv
  <2>1. ASSUME NEW cp \in CodePoints, Send(cp)
        PROVE  Utf8Inv'
    <3>1. cp \in Encodable
      BY Utf8Assumption
    <3>2. OneOf(Encode(cp), cp)
      BY <3>1, EncodeOne
    <3> PICK e : Encode(cp) = e
      OBVIOUS
    <3>3. Streamed(Append(text, cp), wire \o e, tail, decoded)
      BY <2>0, <3>1, <3>2, StreamGrows
    <3>4. text' = Append(text, cp) /\ wire' = wire \o e /\ tail' = tail /\ decoded' = decoded
      BY <2>1 DEF Send
    <3> QED
      BY <3>3, <3>4 DEF Utf8Inv
  <2>2. ASSUME NEW b \in StrayBytes, SendStray(b)
        PROVE  Utf8Inv'
    <3>1. b \in 128..191 \cup 248..255
      BY Utf8Assumption
    <3> PICK e : <<b>> = e
      OBVIOUS
    <3>2. OneOf(e, Replacement)
      BY <3>1, StrayOne
    <3>3. Replacement \in Encodable
      BY SMT DEF Replacement, Encodable
    <3>4. Streamed(Append(text, Replacement), wire \o e, tail, decoded)
      BY <2>0, <3>2, <3>3, StreamGrows
    <3>5. wire \in Seq(0..255) /\ b \in 0..255
      <4>1. PICK s, at, d, arrived : StreamAt(s, at, d, arrived, text, wire, tail, decoded)
        BY <2>0 DEF Streamed
      <4>2. wire \in Seq(0..255)
        BY <4>1 DEF StreamAt, Cut
      <4> QED
        BY <4>2, <3>1
    <3>6. Append(wire, b) = wire \o <<b>>
      BY ONLY <3>5
    <3>7. /\ text' = Append(text, Replacement) /\ wire' = Append(wire, b)
          /\ tail' = tail /\ decoded' = decoded
      BY <2>2 DEF SendStray
    <3> QED
      BY <3>4, <3>6, <3>7 DEF Utf8Inv
  <2>3. ASSUME NEW n \in 1..Len(wire), Feed(n)
        PROVE  Utf8Inv'
    <3> PICK in : tail \o SubSeq(wire, 1, n) = in
      OBVIOUS
    <3> PICK w2 : SubSeq(wire, n + 1, Len(wire)) = w2
      OBVIOUS
    <3> PICK t2 : SubSeq(in, Len(in) - Rest(in) + 1, Len(in)) = t2
      OBVIOUS
    <3> PICK more : decoded \o DecodeLoop(in, Counted(in)).out = more
      OBVIOUS
    <3>1. Streamed(text, w2, t2, more)
      BY <2>0, StreamFed
    <3>2. decoded' = more /\ tail' = t2 /\ wire' = w2 /\ text' = text
      BY <2>3 DEF Feed
    <3> QED
      BY <3>1, <3>2 DEF Utf8Inv
  <2>4. ASSUME UNCHANGED utf8Vars
        PROVE  Utf8Inv'
    BY <2>0, <2>4 DEF Utf8Inv, utf8Vars
  <2> QED
    BY <2>1, <2>2, <2>3, <2>4 DEF Utf8Next
<1>3. Utf8Inv => StreamDecodes
  BY StreamedDecodes
<1> QED
  BY <1>1, <1>2, <1>3, PTL DEF Utf8Spec

-----------------------------------------------------------------------------
(* radix_sort.                                                             *)

LEMMA PowerStep ==
  /\ Power[0] = 1
  /\ \A n \in Nat : Power[n] \in Nat \ {0} /\ Power[n + 1] = Base * Power[n]
<1> DEFINE S == Nat \ {0}
           step == [ns \in Nat \X S |-> Base * ns[2]]
           Loop(f) == f = [n \in Nat |-> IF n = 0 THEN 1 ELSE Base * f[n - 1]]
           loop == CHOOSE f : Loop(f)
<1>1. \A s \in S : Base * s \in S
  BY RadixAssumption
<1>2. 1 \in S /\ step \in [Nat \X S -> S]
  <2>1. ASSUME NEW ns \in Nat \X S
        PROVE  Base * ns[2] \in S
    <3>1. ns[2] \in S
      OBVIOUS
    <3> HIDE DEF S
    <3> QED
      BY <3>1, <1>1
  <2>2. 1 \in S
    OBVIOUS
  <2> HIDE DEF S
  <2> QED
    BY <2>1, <2>2
<1>3. PICK f \in [Nat -> S] : Iterates(f, 1, step)
  <2> HIDE DEF S, step
  <2> QED
    BY <1>2, RecursionExists
<1>4. f[0] = 1 /\ \A n \in Nat : f[n + 1] = Base * f[n]
  <2>1. ASSUME NEW n \in Nat
        PROVE  f[n + 1] = Base * f[n]
    <3>1. <<n, f[n]>> \in Nat \X S /\ f[n + 1] = step[<<n, f[n]>>]
      <4> HIDE DEF S, step
      <4> QED
        BY <1>3 DEF Iterates
    <3> HIDE DEF S
    <3> QED
      BY <3>1
  <2>2. f[0] = 1
    <3> HIDE DEF S, step
    <3> QED
      BY <1>3 DEF Iterates
  <2> QED
    BY <2>1, <2>2
<1>5. Loop(f)
  <2>1. ASSUME NEW n \in Nat
        PROVE  f[n] = IF n = 0 THEN 1 ELSE Base * f[n - 1]
    <3>1. CASE n = 0
      BY <3>1, <1>4
    <3>2. CASE n # 0
      <4>1. n - 1 \in Nat /\ (n - 1) + 1 = n
        BY <3>2
      <4>2. f[(n - 1) + 1] = Base * f[n - 1]
        BY <4>1, <1>4
      <4> QED
        BY <3>2, <4>1, <4>2
    <3> QED
      BY <3>1, <3>2
  <2>2. f = [n \in Nat |-> f[n]]
    <3> HIDE DEF S
    <3> QED
      BY <1>3
  <2> HIDE DEF S, step, loop
  <2> QED
    BY <2>1, <2>2
<1>6. Loop(loop)
  <2> HIDE DEF Loop
  <2> QED
    BY <1>5
<1>7. Power = loop
  BY DEF Power
<1> HIDE DEF loop
<1>8. \A n \in Nat : loop[n] = IF n = 0 THEN 1 ELSE Base * loop[n - 1]
  BY <1>6
<1>9. loop[0] = 1
  BY <1>8
<1>10. ASSUME NEW n \in Nat
       PROVE  loop[n + 1] = Base * loop[n]
  <2>1. n + 1 \in Nat /\ n + 1 # 0 /\ (n + 1) - 1 = n
    OBVIOUS
  <2> QED
    BY <1>8, <2>1
<1> DEFINE T == {n \in Nat : loop[n] \in S}
<1>11. T = Nat
  <2>1. 0 \in T /\ T \subseteq Nat
    BY <1>9
  <2>2. ASSUME NEW n \in T
        PROVE  n + 1 \in T
    <3>1. n \in Nat /\ n + 1 \in Nat /\ loop[n] \in S
      OBVIOUS
    <3> HIDE DEF S
    <3> QED
      BY <3>1, <1>1, <1>10
  <2> HIDE DEF T
  <2> QED
    BY <2>1, <2>2, NatClosed
<1>12. \A n \in Nat : loop[n] \in Nat \ {0}
  BY <1>11
<1> QED
  BY <1>7, <1>9, <1>10, <1>12

(* The digit of val above v % P, and what is below the next digit.          *)
LEMMA NextDigit ==
  ASSUME NEW P \in Nat \ {0}, NEW B \in Nat \ {0}, NEW val \in Nat
  PROVE  /\ (val \div P) % B \in 0..B - 1 /\ val % P \in 0..P - 1
         /\ val % (B * P) = ((val \div P) % B) * P + (val % P)
<1>1. PICK q \in Nat, r \in 0..P - 1 : val \div P = q /\ val % P = r /\ P * q + r = val
  BY Division
<1>2. PICK x \in Nat, d \in 0..B - 1 : q \div B = x /\ q % B = d /\ B * x + d = q
  BY Division
<1>3. PICK BP \in Int : B * P = BP
  OBVIOUS
<1>4. PICK dP \in Int : d * P = dP
  OBVIOUS
<1>5. BP \in Nat \ {0} /\ dP + P <= BP /\ dP \in Nat
  <2>1. BP \in Nat /\ BP # 0
    BY ONLY P \in Nat \ {0}, B \in Nat \ {0}, <1>3
  <2>2. dP \in Nat
    BY ONLY P \in Nat \ {0}, d \in 0..B - 1, B \in Nat \ {0}, <1>4
  <2>3. PICK e \in Nat : B = d + 1 + e
    <3>1. B - d - 1 \in Nat /\ B = d + 1 + (B - d - 1)
      OBVIOUS
    <3> QED
      BY <3>1
  <2>4. (d + 1 + e) * P = d * P + P + e * P /\ e * P \in Nat
    <3> PICK dd \in Nat : d = dd
      OBVIOUS
    <3>1. (dd + 1 + e) * P = dd * P + P + e * P
      BY ONLY dd \in Nat, e \in Nat, P \in Nat \ {0}
    <3>2. e * P \in Nat
      BY ONLY e \in Nat, P \in Nat \ {0}
    <3> QED
      BY <3>1, <3>2
  <2>5. PICK eP \in Nat : e * P = eP
    BY <2>4
  <2>6. BP = dP + P + eP
    BY <2>3, <2>4, <2>5, <1>3, <1>4
  <2> QED
    BY <2>1, <2>2, <2>6
<1>6. dP + r \in 0..BP - 1
  BY <1>5
<1>7. val = BP * x + (dP + r)
  <2> PICK dd \in Nat : d = dd
    OBVIOUS
  <2>1. P * (B * x + dd) = (B * P) * x + dd * P
    BY ONLY P \in Nat \ {0}, B \in Nat \ {0}, x \in Nat, dd \in Nat
  <2>2. P * q = BP * x + dP
    BY <2>1, <1>2, <1>3, <1>4
  <2>3. PICK Bx \in Int : BP * x = Bx
    BY <1>3
  <2>4. P * q + r = Bx + dP + r
    BY <2>2, <2>3
  <2> QED
    BY <2>3, <2>4, <1>1
<1>8. val % BP = dP + r
  BY <1>5, <1>6, <1>7, DivisionUnique
<1> QED
  BY <1>1, <1>2, <1>3, <1>4, <1>8

LEMMA LowDigits ==
  ASSUME NEW val \in Nat, NEW n \in Nat
  PROVE  /\ Digit(val, n) \in Bucket /\ val % Power[n] \in 0..Power[n] - 1
         /\ val % Power[n + 1] = Digit(val, n) * Power[n] + (val % Power[n])
<1>1. Power[n] \in Nat \ {0} /\ Power[n + 1] = Base * Power[n] /\ Base \in Nat \ {0}
  BY PowerStep, RadixAssumption
<1> QED
  BY <1>1, NextDigit DEF Digit, Bucket

(* k gives each position a key.  What belongs before position p when the    *)
(* positions are sorted, stably, by their keys, and the place p gets.       *)
Pos == 1..Length
Keys == [Pos -> Nat]
Below(k, p) == {q \in Pos : k[q] < k[p] \/ (k[q] = k[p] /\ q < p)}
Place(k, p) == Cardinality(Below(k, p)) + 1

LEMMA PosFinite ==
  /\ Length \in Nat /\ IsFiniteSet(Pos) /\ Cardinality(Pos) = Length
  /\ \A T : T \subseteq Pos => IsFiniteSet(T) /\ Cardinality(T) \in Nat
<1>1. Length \in Nat
  BY RadixAssumption
<1>2. IsFiniteSet(Pos) /\ Cardinality(Pos) = Length
  BY <1>1, FS_Interval DEF Pos
<1>3. ASSUME NEW T, T \subseteq Pos
      PROVE  IsFiniteSet(T) /\ Cardinality(T) \in Nat
  <2>1. T \in SUBSET Pos
    BY <1>3
  <2>2. IsFiniteSet(T)
    BY <1>2, <2>1, FS_Subset
  <2> QED
    BY <2>2, FS_CardinalityType
<1> QED
  BY <1>1, <1>2, <1>3

LEMMA PlaceOrder ==
  ASSUME NEW k \in Keys, NEW p \in Pos, NEW q \in Pos
  PROVE  /\ q \in Below(k, p) => Place(k, q) < Place(k, p)
         /\ q = p \/ q \in Below(k, p) \/ p \in Below(k, q)
         /\ Place(k, q) = Place(k, p) => q = p
         /\ Place(k, q) < Place(k, p) => q \in Below(k, p)
<1>1. ASSUME NEW a \in Pos, NEW b \in Pos, a \in Below(k, b)
      PROVE  Place(k, a) < Place(k, b)
  <2>1. Below(k, a) \subseteq Below(k, b)
    <3> SUFFICES ASSUME NEW r \in Below(k, a)
                 PROVE  r \in Below(k, b)
      OBVIOUS
    <3>1. k[r] \in Nat /\ k[a] \in Nat /\ k[b] \in Nat /\ r \in Pos
      BY DEF Keys, Below
    <3> QED
      BY <1>1, <3>1 DEF Below, Pos
  <2>2. a \notin Below(k, a)
    BY DEF Below, Keys, Pos
  <2>3. Below(k, b) \subseteq Pos /\ Below(k, a) \subseteq Pos
    BY DEF Below
  <2>4. PICK m \in Nat : Cardinality(Below(k, a)) = m
    BY <2>3, PosFinite
  <2>5. PICK n \in Nat : Cardinality(Below(k, b)) = n
    BY <2>3, PosFinite
  <2>6. IsFiniteSet(Below(k, b)) /\ Below(k, a) \in SUBSET Below(k, b)
    BY <2>1, <2>3, PosFinite
  <2>7. m <= n /\ m # n
    <3>1. m <= n /\ (n = m => Below(k, b) = Below(k, a))
      BY <2>4, <2>5, <2>6, FS_Subset
    <3> QED
      BY <1>1, <2>2, <3>1
  <2> QED
    BY <2>4, <2>5, <2>7 DEF Place
<1>2. ASSUME NEW a \in Pos
      PROVE  Place(k, a) \in Nat
  <2>1. Below(k, a) \subseteq Pos
    BY DEF Below
  <2> QED
    BY <2>1, PosFinite DEF Place
<1>3. q = p \/ q \in Below(k, p) \/ p \in Below(k, q)
  <2>1. k[p] \in Nat /\ k[q] \in Nat /\ p \in Nat /\ q \in Nat
    BY PosFinite DEF Keys, Pos
  <2> QED
    BY <2>1 DEF Below
<1>4. Place(k, p) \in Nat /\ Place(k, q) \in Nat
  BY <1>2
<1> QED
  BY <1>1, <1>3, <1>4

LEMMA PlaceRange ==
  ASSUME NEW k \in Keys, NEW p \in Pos
  PROVE  Place(k, p) \in Pos
<1>1. Below(k, p) \in SUBSET (Pos \ {p})
  BY DEF Below, Keys, Pos
<1>2. IsFiniteSet(Pos \ {p}) /\ Cardinality(Pos \ {p}) = Length - 1
  BY PosFinite, FS_RemoveElement
<1>3. Cardinality(Below(k, p)) <= Length - 1
  BY <1>1, <1>2, FS_Subset
<1>4. Cardinality(Below(k, p)) \in Nat
  BY <1>1, PosFinite
<1> QED
  BY <1>3, <1>4, PosFinite DEF Place, Pos

LEMMA PlaceOnto ==
  ASSUME NEW k \in Keys, NEW i \in Pos
  PROVE  \E p \in Pos : Place(k, p) = i
<1> DEFINE F == [p \in Pos |-> Place(k, p)]
<1>1. F \in [Pos -> Pos]
  BY PlaceRange
<1>2. \A a, b \in Pos : F[a] = F[b] => a = b
  BY PlaceOrder
<1>3. F \in Injection(Pos, Pos)
  <2> HIDE DEF F
  <2> QED
    BY <1>1, <1>2, Fun_IsInj
<1>4. F \in Surjection(Pos, Pos)
  <2> HIDE DEF F
  <2> QED
    BY <1>3, PosFinite, FS_Injection
<1>5. \E p \in Pos : F[p] = i
  <2> HIDE DEF F
  <2> QED
    BY <1>4 DEF Surjection
<1> QED
  BY <1>5

(* Once sorted by one key, and then, stably, by another: g has the second   *)
(* keys where the first sort put them, h where they were at first, and c    *)
(* orders the positions by h and then by k.                                 *)
Carried(g, h, k) == \A p \in Pos : g[Place(k, p)] = h[p]
Combines(c, h, k) ==
  \A p, q \in Pos : /\ c[q] < c[p] <=> h[q] < h[p] \/ (h[q] = h[p] /\ k[q] < k[p])
                    /\ c[q] = c[p] <=> h[q] = h[p] /\ k[q] = k[p]

LEMMA PlacesCompose ==
  ASSUME NEW g \in Keys, NEW h \in Keys, NEW k \in Keys, NEW c \in Keys,
         Carried(g, h, k), Combines(c, h, k), NEW p \in Pos
  PROVE  Place(g, Place(k, p)) = Place(c, p)
<1> DEFINE S == Below(c, p)
           T == Below(g, Place(k, p))
           F == [q \in S |-> Place(k, q)]
<1>1. ASSUME NEW q \in Pos
      PROVE  /\ Place(k, q) \in Pos
             /\ q \in S <=> Place(k, q) \in T
  <2>1. Place(k, q) \in Pos /\ Place(k, p) \in Pos
    BY PlaceRange
  <2>2. g[Place(k, q)] = h[q] /\ g[Place(k, p)] = h[p]
    BY <1>1 DEF Carried
  <2>3. q \in Below(k, p) <=> Place(k, q) < Place(k, p)
    BY PlaceOrder
  <2>4. Place(k, q) \in T <=> h[q] < h[p] \/ (h[q] = h[p] /\ q \in Below(k, p))
    BY <2>1, <2>2, <2>3 DEF Below
  <2>5. q \in S <=> c[q] < c[p] \/ (c[q] = c[p] /\ q < p)
    BY DEF Below
  <2>6. q \in Below(k, p) <=> k[q] < k[p] \/ (k[q] = k[p] /\ q < p)
    BY DEF Below
  <2>7. /\ c[q] < c[p] <=> h[q] < h[p] \/ (h[q] = h[p] /\ k[q] < k[p])
        /\ c[q] = c[p] <=> h[q] = h[p] /\ k[q] = k[p]
    BY DEF Combines
  <2> HIDE DEF S, T
  <2> QED
    BY <2>1, <2>4, <2>5, <2>6, <2>7
<1>2. S \subseteq Pos /\ T \subseteq Pos
  BY DEF Below
<1>3. F \in [S -> T]
  <2> HIDE DEF S, T
  <2> QED
    BY <1>1, <1>2
<1>4. \A a, b \in S : F[a] = F[b] => a = b
  <2> HIDE DEF S, T
  <2> QED
    BY <1>2, PlaceOrder
<1>5. \A t \in T : \E s \in S : F[s] = t
  <2> HIDE DEF S, T
  <2> SUFFICES ASSUME NEW t \in T
               PROVE  \E s \in S : F[s] = t
    OBVIOUS
  <2>1. PICK s \in Pos : Place(k, s) = t
    BY <1>2, PlaceOnto
  <2> QED
    BY <1>1, <2>1
<1>6. ExistsBijection(S, T)
  <2> HIDE DEF S, T, F
  <2>1. F \in Bijection(S, T)
    BY <1>3, <1>4, <1>5, Fun_IsBij
  <2> QED
    BY <2>1, Fun_ExistsBij
<1>7. Cardinality(T) = Cardinality(S)
  <2> HIDE DEF S, T, F
  <2> QED
    BY <1>2, <1>6, PosFinite, FS_Bijection
<1> QED
  BY <1>7 DEF Place

LEMMA LexicographicOrder ==
  ASSUME NEW P \in Nat \ {0}, NEW x \in Nat, NEW y \in Nat,
         NEW r \in 0..P - 1, NEW s \in 0..P - 1
  PROVE  /\ x * P + r < y * P + s <=> x < y \/ (x = y /\ r < s)
         /\ x * P + r = y * P + s <=> x = y /\ r = s
<1>1. ASSUME NEW a \in Nat, NEW b \in Nat, NEW u \in 0..P - 1, NEW v \in 0..P - 1, a < b
      PROVE  a * P + u < b * P + v
  <2>1. PICK e \in Nat : b = a + 1 + e
    <3>1. b - a - 1 \in Nat /\ b = a + 1 + (b - a - 1)
      BY <1>1
    <3> QED
      BY <3>1
  <2>2. (a + 1 + e) * P = a * P + P + e * P /\ e * P \in Nat /\ a * P \in Nat
    <3>1. (a + 1 + e) * P = a * P + P + e * P
      BY ONLY a \in Nat, e \in Nat, P \in Nat \ {0}
    <3>2. e * P \in Nat /\ a * P \in Nat
      BY ONLY a \in Nat, e \in Nat, P \in Nat \ {0}
    <3> QED
      BY <3>1, <3>2
  <2>3. PICK eP \in Nat, aP \in Nat : e * P = eP /\ a * P = aP
    BY <2>2
  <2> QED
    BY <2>1, <2>2, <2>3
<1>2. PICK xP \in Nat, yP \in Nat : x * P = xP /\ y * P = yP
  OBVIOUS
<1>3. CASE x < y
  <2>1. x * P + r < y * P + s
    BY <1>1, <1>3
  <2> QED
    BY <1>2, <1>3, <2>1
<1>4. CASE y < x
  <2>1. y * P + s < x * P + r
    BY <1>1, <1>4
  <2> QED
    BY <1>2, <1>4, <2>1
<1>5. CASE x = y
  BY <1>2, <1>5
<1> QED
  BY <1>3, <1>4, <1>5

(* The keys of the elements of t: their n low digits, and the next digit.  *)
LowKeys(t, n) == [p \in Pos |-> t[p] % Power[n]]
DigitKeys(t, n) == [p \in Pos |-> Digit(t[p], n)]
Emitted(dest, in, n, i) == dest[Place(DigitKeys(in, n), i)] = in[i]

LEMMA KeysOfDigits ==
  ASSUME NEW t \in Keys, NEW n \in Nat
  PROVE  LowKeys(t, n) \in Keys /\ DigitKeys(t, n) \in Keys
<1>1. ASSUME NEW p \in Pos
      PROVE  t[p] % Power[n] \in Nat /\ Digit(t[p], n) \in Nat
  <2>1. t[p] \in Nat
    BY DEF Keys
  <2>2. Digit(t[p], n) \in Bucket /\ t[p] % Power[n] \in 0..Power[n] - 1
    BY <2>1, LowDigits
  <2> QED
    BY <2>2, PowerStep, RadixAssumption DEF Bucket
<1> QED
  BY <1>1 DEF Keys, LowKeys, DigitKeys

LEMMA SortedByPlace ==
  ASSUME NEW s, NEW t, NEW n \in Nat
  PROVE  StableSort(s, t, n) <=> \A p \in Pos : s[Place(LowKeys(t, n), p)] = t[p]
<1>1. ASSUME NEW p \in Pos
      PROVE  Cardinality(Before(t, n, p)) + 1 = Place(LowKeys(t, n), p)
  <2>1. Before(t, n, p) = Below(LowKeys(t, n), p)
    BY DEF Before, Below, LowKeys, Pos
  <2> QED
    BY <2>1 DEF Place
<1>2. StableSort(s, t, n) <=> \A p \in Pos : s[Cardinality(Before(t, n, p)) + 1] = t[p]
  BY DEF StableSort, Pos
<1> QED
  BY <1>1, <1>2

(* The passes compose: in is t sorted by its n low digits, and dest is in   *)
(* sorted, stably, by the next digit.                                      *)
LEMMA SortedByNext ==
  ASSUME NEW t \in Keys, NEW in \in Keys, NEW dest, NEW n \in Nat,
         StableSort(in, t, n), \A i \in Pos : Emitted(dest, in, n, i)
  PROVE  StableSort(dest, t, n + 1)
<1> DEFINE k == LowKeys(t, n)
           c == LowKeys(t, n + 1)
           h == DigitKeys(t, n)
           g == DigitKeys(in, n)
<1>1. k \in Keys /\ c \in Keys /\ h \in Keys /\ g \in Keys
  BY KeysOfDigits
<1>2. ASSUME NEW p \in Pos
      PROVE  in[Place(k, p)] = t[p] /\ Place(k, p) \in Pos
  BY <1>1, SortedByPlace, PlaceRange
<1>3. Carried(g, h, k)
  <2> SUFFICES ASSUME NEW p \in Pos
               PROVE  g[Place(k, p)] = h[p]
    BY DEF Carried
  <2> HIDE DEF k
  <2> QED
    BY <1>2 DEF DigitKeys
<1>4. Combines(c, h, k)
  <2> SUFFICES ASSUME NEW p \in Pos, NEW q \in Pos
               PROVE  /\ c[q] < c[p] <=> h[q] < h[p] \/ (h[q] = h[p] /\ k[q] < k[p])
                      /\ c[q] = c[p] <=> h[q] = h[p] /\ k[q] = k[p]
    BY DEF Combines
  <2>1. ASSUME NEW r \in Pos
        PROVE  h[r] \in Nat /\ k[r] \in 0..Power[n] - 1 /\ c[r] = h[r] * Power[n] + k[r]
    <3>1. t[r] \in Nat
      BY DEF Keys
    <3>2. h[r] = Digit(t[r], n) /\ k[r] = t[r] % Power[n] /\ c[r] = t[r] % Power[n + 1]
      BY DEF DigitKeys, LowKeys
    <3>3. h[r] \in Nat
      BY <1>1 DEF Keys
    <3> QED
      BY <3>1, <3>2, <3>3, LowDigits
  <2>2. Power[n] \in Nat \ {0}
    BY PowerStep
  <2> HIDE DEF h, k, c
  <2>3. PICK P \in Nat \ {0} : Power[n] = P
    BY <2>2
  <2>4. PICK x \in Nat, r \in 0..P - 1 : h[q] = x /\ k[q] = r /\ c[q] = x * P + r
    BY <2>1, <2>3
  <2>5. PICK y \in Nat, s \in 0..P - 1 : h[p] = y /\ k[p] = s /\ c[p] = y * P + s
    BY <2>1, <2>3
  <2>6. /\ x * P + r < y * P + s <=> x < y \/ (x = y /\ r < s)
        /\ x * P + r = y * P + s <=> x = y /\ r = s
    BY LexicographicOrder
  <2> QED
    BY <2>4, <2>5, <2>6
<1>5. ASSUME NEW p \in Pos
      PROVE  dest[Place(c, p)] = t[p]
  <2>1. Place(g, Place(k, p)) = Place(c, p)
    <3> HIDE DEF g, h, k, c
    <3> QED
      BY <1>1, <1>3, <1>4, PlacesCompose
  <2>2. dest[Place(g, Place(k, p))] = in[Place(k, p)]
    BY <1>2 DEF Emitted
  <2> QED
    BY <1>2, <2>1, <2>2
<1> QED
  BY <1>5, SortedByPlace

(* The elements in a lower bucket, and those among the first n in bucket b. *)
InLower(g, b) == {r \in Pos : g[r] < b}
InBucket(g, b, n) == {r \in 1..n : g[r] = b}
LowerCount(g, b) == Cardinality(InLower(g, b))
BucketCount(g, b, n) == Cardinality(InBucket(g, b, n))

LEMMA BucketCounts ==
  ASSUME NEW g \in Keys, NEW b \in Nat, NEW n \in 0..Length
  PROVE  /\ LowerCount(g, b) \in Nat /\ BucketCount(g, b, n) \in Nat
         /\ IsFiniteSet(InLower(g, b)) /\ IsFiniteSet(InBucket(g, b, n))
         /\ InBucket(g, b, n) \subseteq Pos
<1>1. InLower(g, b) \subseteq Pos /\ InBucket(g, b, n) \subseteq Pos
  BY PosFinite DEF InLower, InBucket, Pos
<1> QED
  BY <1>1, PosFinite DEF LowerCount, BucketCount

LEMMA LowerCountNext ==
  ASSUME NEW g \in Keys, NEW b \in Nat
  PROVE  /\ LowerCount(g, 0) = 0
         /\ LowerCount(g, b + 1) = LowerCount(g, b) + BucketCount(g, b, Length)
<1> DEFINE S == InLower(g, b)
           T == InBucket(g, b, Length)
<1>1. Length \in 0..Length
  BY PosFinite
<1>2. IsFiniteSet(S) /\ IsFiniteSet(T) /\ Cardinality(S) \in Nat /\ Cardinality(T) \in Nat
  BY <1>1, BucketCounts DEF LowerCount, BucketCount
<1>3. InLower(g, b + 1) = S \cup T
  BY DEF InLower, InBucket, Keys, Pos
<1>4. S \cap T = {}
  BY DEF InLower, InBucket, Keys, Pos
<1>5. Cardinality(S \cup T) = Cardinality(S) + Cardinality(T)
  <2> HIDE DEF S, T
  <2>1. Cardinality(S \cap T) = 0
    BY <1>4, FS_EmptySet
  <2>2. Cardinality(S \cup T) = Cardinality(S) + Cardinality(T) - Cardinality(S \cap T)
    BY <1>2, FS_Union
  <2> QED
    BY <1>2, <2>1, <2>2
<1>6. InLower(g, 0) = {}
  BY DEF InLower, Keys
<1> QED
  BY <1>3, <1>5, <1>6, FS_EmptySet DEF LowerCount, BucketCount

LEMMA BucketCountNext ==
  ASSUME NEW g \in Keys, NEW b \in Nat, NEW n \in 0..Length - 1
  PROVE  /\ BucketCount(g, b, 0) = 0
         /\ BucketCount(g, b, n + 1) =
              IF g[n + 1] = b THEN BucketCount(g, b, n) + 1 ELSE BucketCount(g, b, n)
<1>1. n \in 0..Length /\ Length \in Nat /\ n \in Nat
  BY PosFinite
<1>2. IsFiniteSet(InBucket(g, b, n))
  BY <1>1, BucketCounts
<1>3. n + 1 \notin InBucket(g, b, n)
  BY <1>1 DEF InBucket
<1>4. ASSUME g[n + 1] = b
      PROVE  InBucket(g, b, n + 1) = InBucket(g, b, n) \cup {n + 1}
  BY <1>1, <1>4 DEF InBucket
<1>5. ASSUME g[n + 1] # b
      PROVE  InBucket(g, b, n + 1) = InBucket(g, b, n)
  BY <1>1, <1>5 DEF InBucket
<1>6. Cardinality(InBucket(g, b, n) \cup {n + 1}) = BucketCount(g, b, n) + 1
  BY <1>2, <1>3, FS_AddElement DEF BucketCount
<1>7. InBucket(g, b, 0) = {}
  BY DEF InBucket
<1> QED
  BY <1>4, <1>5, <1>6, <1>7, FS_EmptySet DEF BucketCount

(* Where the next element goes.                                            *)
LEMMA NextPlace ==
  ASSUME NEW g \in Keys, NEW n \in 0..Length - 1
  PROVE  /\ n + 1 \in Pos
         /\ Place(g, n + 1) = LowerCount(g, g[n + 1]) + BucketCount(g, g[n + 1], n) + 1
<1>1. n \in 0..Length /\ Length \in Nat /\ n \in Nat /\ n + 1 \in Pos
  BY PosFinite DEF Pos
<1>2. PICK b \in Nat : g[n + 1] = b
  BY <1>1 DEF Keys
<1> DEFINE S == InLower(g, b)
           T == InBucket(g, b, n)
<1>3. IsFiniteSet(S) /\ IsFiniteSet(T) /\ Cardinality(S) \in Nat /\ Cardinality(T) \in Nat
  BY <1>1, BucketCounts DEF LowerCount, BucketCount
<1>4. Below(g, n + 1) = S \cup T
  <2> SUFFICES ASSUME NEW r
               PROVE  r \in Below(g, n + 1) <=> r \in S \cup T
    OBVIOUS
  <2>1. r \in 1..n <=> r \in Pos /\ r < n + 1
    BY <1>1 DEF Pos
  <2> QED
    BY <2>1, <1>2 DEF Below, InLower, InBucket
<1>5. S \cap T = {}
  BY <1>1 DEF InLower, InBucket, Keys, Pos
<1>6. Cardinality(S \cup T) = Cardinality(S) + Cardinality(T)
  <2> HIDE DEF S, T
  <2>1. Cardinality(S \cap T) = 0
    BY <1>5, FS_EmptySet
  <2> QED
    BY <1>3, <2>1, FS_Union
<1> QED
  BY <1>1, <1>2, <1>4, <1>6 DEF Place, LowerCount, BucketCount

(* The scan gives the first place of each bucket.                           *)
LEMMA ScanIsLowerCount ==
  ASSUME NEW g \in Keys,
         counts = [b \in Bucket |-> BucketCount(g, b, Length)], NEW n \in 0..Base
  PROVE  SumOfFirst(n) = LowerCount(g, n)
<1> DEFINE Loop(f) == f = [b \in 0..Base |-> IF b = 0 THEN 0 ELSE f[b - 1] + counts[b - 1]]
           loop == CHOOSE f : Loop(f)
           lower == [b \in 0..Base |-> LowerCount(g, b)]
<1>1. Base \in Nat \ {0}
  BY RadixAssumption
<1>2. ASSUME NEW b \in 0..Base, b # 0
      PROVE  /\ b - 1 \in 0..Base /\ b - 1 \in Nat
             /\ LowerCount(g, b) = LowerCount(g, b - 1) + counts[b - 1]
  <2>1. b - 1 \in Bucket /\ b - 1 \in Nat /\ (b - 1) + 1 = b /\ b - 1 \in 0..Base
    BY <1>1, <1>2 DEF Bucket
  <2>2. counts[b - 1] = BucketCount(g, b - 1, Length)
    BY <2>1
  <2>3. LowerCount(g, (b - 1) + 1) = LowerCount(g, b - 1) + BucketCount(g, b - 1, Length)
    BY <2>1, LowerCountNext
  <2> QED
    BY <2>1, <2>2, <2>3
<1>3. LowerCount(g, 0) = 0
  BY LowerCountNext
<1>4. Loop(lower)
  <2>1. ASSUME NEW b \in 0..Base
        PROVE  lower[b] = IF b = 0 THEN 0 ELSE lower[b - 1] + counts[b - 1]
    <3>1. CASE b = 0
      BY <1>3, <3>1
    <3>2. CASE b # 0
      BY <1>2, <3>2
    <3> QED
      BY <3>1, <3>2
  <2>2. lower = [b \in 0..Base |-> lower[b]]
    OBVIOUS
  <2> HIDE DEF lower
  <2> QED
    BY <2>1, <2>2
<1>5. Loop(loop)
  <2> HIDE DEF Loop
  <2> QED
    BY <1>4
<1>6. SumOfFirst(n) = loop[n]
  BY DEF SumOfFirst
<1> HIDE DEF loop
<1>7. \A b \in 0..Base : loop[b] = IF b = 0 THEN 0 ELSE loop[b - 1] + counts[b - 1]
  BY <1>5
<1> DEFINE T == {m \in Nat : m <= Base => loop[m] = LowerCount(g, m)}
<1>8. T = Nat
  <2>1. T \subseteq Nat
    OBVIOUS
  <2>2. 0 \in T
    <3>1. loop[0] = 0
      BY <1>1, <1>7
    <3> QED
      BY <1>3, <3>1
  <2>3. ASSUME NEW m \in T
        PROVE  m + 1 \in T
    <3> SUFFICES ASSUME m + 1 <= Base
                 PROVE  loop[m + 1] = LowerCount(g, m + 1)
      OBVIOUS
    <3>1. m \in Nat /\ m <= Base /\ m + 1 \in 0..Base /\ m + 1 # 0 /\ (m + 1) - 1 = m
      BY <1>1
    <3>2. loop[m] = LowerCount(g, m)
      BY <3>1
    <3>3. loop[m + 1] = loop[m] + counts[m]
      BY <3>1, <1>7
    <3>4. LowerCount(g, m + 1) = LowerCount(g, m) + counts[m]
      BY <3>1, <1>2
    <3> QED
      BY <3>2, <3>3, <3>4
  <2> HIDE DEF T
  <2> QED
    BY <2>1, <2>2, <2>3, NatClosed
<1>9. n \in T /\ n <= Base
  BY <1>1, <1>8
<1> QED
  BY <1>6, <1>9

(* The inductive invariant.  After every pass `in' is the caller's first    *)
(* array sorted by the digits seen so far, and the other one by all of      *)
(* them but the last; while a pass emits, each bucket's index is the number *)
(* of the elements in lower buckets and of its own that are out already,    *)
(* and those that are out are where the sort by this digit puts them.       *)
RadixTypes ==
  /\ unsorted \in Keys
  /\ buffer \in [1..2 -> Keys] /\ input \in 1..2
  /\ pass \in 0..Passes + 1 /\ emitted \in 0..Length

PassesDone ==
  /\ pass <= Passes => StableSort(buffer[input], unsorted, pass)
  /\ pass <= Passes => (input = 1 <=> pass % 2 = 0)
  /\ pass \in 1..Passes /\ indices = <<>> => StableSort(buffer[Other], unsorted, pass - 1)
  /\ pass > Passes => StableSort(buffer[1], unsorted, Passes - 1)

PassPhase ==
  /\ pass >= Passes => counts = <<>>
  /\ counts = <<>> => indices = <<>>
  /\ indices = <<>> => emitted = 0

Indices(g) == [b \in Bucket |-> LowerCount(g, b) + BucketCount(g, b, emitted)]

PassRuns ==
  LET in == buffer[input]
      g  == DigitKeys(in, pass)
  IN /\ counts # <<>> => counts = [b \in Bucket |-> BucketCount(g, b, Length)]
     /\ indices # <<>> => indices = Indices(g)
     /\ indices # <<>> => \A q \in 1..emitted : Emitted(buffer[Other], in, pass, q)

RadixInv == RadixTypes /\ PassesDone /\ PassPhase /\ PassRuns

LEMMA RadixConstants ==
  /\ Length \in Nat /\ Base \in Nat \ {0} /\ Passes \in Nat \ {0} /\ Passes % 2 = 0
  /\ 0 \in Bucket /\ Bucket \subseteq Nat
BY RadixAssumption DEF Bucket

LEMMA RadixInitially == RadixInit => RadixInv
<1> SUFFICES ASSUME RadixInit
             PROVE  RadixInv
  OBVIOUS
<1>1. unsorted \in Keys
  <2>1. Power[Passes] \in Nat
    BY PowerStep, RadixConstants
  <2>2. 0..Power[Passes] - 1 \subseteq Nat
    BY <2>1
  <2> QED
    BY <2>2 DEF RadixInit, Keys, Pos
<1>2. RadixTypes
  <2>1. [p \in 1..Length |-> 0] \in Keys
    BY DEF Keys, Pos
  <2>2. buffer = <<unsorted, [p \in 1..Length |-> 0]>>
    BY DEF RadixInit
  <2>3. buffer \in [1..2 -> Keys]
    <3>1. ASSUME NEW a \in Keys, NEW b \in Keys
          PROVE  <<a, b>> \in [1..2 -> Keys]
      <4>1. <<a, b>> = [i \in 1..2 |-> IF i = 1 THEN a ELSE b]
        BY DEF Keys
      <4>2. [i \in 1..2 |-> IF i = 1 THEN a ELSE b] \in [1..2 -> Keys]
        OBVIOUS
      <4> QED
        BY <4>1, <4>2
    <3> QED
      BY <1>1, <2>1, <2>2, <3>1
  <2> QED
    BY <1>1, <2>3, RadixConstants DEF RadixTypes, RadixInit
<1>3. buffer[input] = unsorted /\ pass = 0
  BY DEF RadixInit
<1>4. StableSort(unsorted, unsorted, 0)
  <2> SUFFICES ASSUME NEW p \in Pos
               PROVE  unsorted[Place(LowKeys(unsorted, 0), p)] = unsorted[p]
    BY SortedByPlace
  <2> DEFINE k == LowKeys(unsorted, 0)
  <2>1. ASSUME NEW r \in Pos
        PROVE  k[r] = 0
    <3>1. unsorted[r] \in Nat
      BY <1>1 DEF Keys
    <3>2. unsorted[r] % 1 = 0
      BY <3>1
    <3> QED
      BY <3>2, PowerStep DEF LowKeys
  <2>2. p \in Nat /\ p >= 1 /\ p <= Length
    BY RadixConstants DEF Pos
  <2>3. Below(k, p) = 1..p - 1
    <3> HIDE DEF k
    <3> QED
      BY <2>1, <2>2, RadixConstants DEF Below, Pos
  <2>4. Cardinality(1..p - 1) = p - 1
    BY <2>2, FS_Interval
  <2>5. Place(k, p) = p
    BY <2>2, <2>3, <2>4 DEF Place
  <2> QED
    BY <2>5
<1>5. PassesDone
  BY <1>3, <1>4, RadixConstants DEF PassesDone, RadixInit
<1>6. PassPhase /\ PassRuns
  BY DEF PassPhase, PassRuns, RadixInit
<1> QED
  BY <1>2, <1>5, <1>6 DEF RadixInv

LEMMA OtherBuffer ==
  ASSUME RadixTypes
  PROVE  /\ Other \in 1..2 /\ Other # input /\ input \in 1..2
         /\ buffer[input] \in Keys /\ buffer[Other] \in Keys
         /\ DigitKeys(buffer[input], pass) \in Keys
         /\ pass \in Nat /\ emitted \in Nat
<1>1. Other \in 1..2 /\ Other # input /\ input \in 1..2
  BY DEF RadixTypes, Other
<1>2. buffer[input] \in Keys /\ buffer[Other] \in Keys
  BY <1>1 DEF RadixTypes
<1>3. pass \in Nat /\ emitted \in Nat
  BY RadixConstants DEF RadixTypes
<1> QED
  BY <1>1, <1>2, <1>3, KeysOfDigits

LEMMA CountStep ==
  ASSUME RadixInv, CountBuckets
  PROVE  RadixInv'
<1> USE DEF RadixInv
<1> DEFINE in == buffer[input]
           g == DigitKeys(in, pass)
<1>1. counts' = [b \in Bucket |-> BucketCount(g, b, Length)]
  <2>1. ASSUME NEW b \in Bucket
        PROVE  Cardinality({p \in 1..Length : Digit(in[p], pass) = b})
                 = BucketCount(g, b, Length)
    <3>1. {p \in 1..Length : Digit(in[p], pass) = b} = InBucket(g, b, Length)
      BY DEF InBucket, DigitKeys, Pos
    <3> QED
      BY <3>1 DEF BucketCount
  <2>2. counts' = [b \in Bucket |->
                     Cardinality({p \in 1..Length : Digit(in[p], pass) = b})]
    BY DEF CountBuckets
  <2> QED
    BY <2>1, <2>2
<1>2. indices = <<>>
  BY DEF CountBuckets, PassPhase
<1>3. UNCHANGED <<buffer, input, pass, indices, emitted, unsorted>> /\ pass < Passes
  BY DEF CountBuckets
<1>4. RadixTypes'
  BY <1>3 DEF RadixTypes, Keys, Pos
<1>5. PassesDone'
  BY <1>3 DEF PassesDone, StableSort, Before, Other
<1>6. PassPhase'
  <2>1. ~(pass >= Passes)
    BY <1>3, RadixConstants, OtherBuffer
  <2> QED
    BY <1>2, <1>3, <2>1 DEF PassPhase
<1>7. PassRuns'
  <2>1. DigitKeys(buffer'[input'], pass') = g
    BY <1>3
  <2>2. counts' = [b \in Bucket |-> BucketCount(DigitKeys(buffer'[input'], pass'), b, Length)]
    BY <1>1, <2>1
  <2> QED
    BY <1>2, <1>3, <2>2 DEF PassRuns
<1> QED
  BY <1>4, <1>5, <1>6, <1>7

LEMMA ScanStep ==
  ASSUME RadixInv, ScanCounts
  PROVE  RadixInv'
<1> USE DEF RadixInv
<1> DEFINE g == DigitKeys(buffer[input], pass)
<1>1. UNCHANGED <<buffer, input, pass, counts, emitted, unsorted>>
      /\ counts # <<>> /\ indices = <<>> /\ emitted = 0
  BY DEF ScanCounts, PassPhase
<1>2. g \in Keys
  BY OtherBuffer
<1>3. counts = [b \in Bucket |-> BucketCount(g, b, Length)]
  BY <1>1 DEF PassRuns
<1>4. indices' = [b \in Bucket |-> LowerCount(g, b) + BucketCount(g, b, 0)]
  <2>1. ASSUME NEW b \in Bucket
        PROVE  ExclusiveSum(b) = LowerCount(g, b) + BucketCount(g, b, 0)
    <3>1. b \in 0..Base /\ b \in Nat
      BY RadixConstants DEF Bucket
    <3>2. SumOfFirst(b) = LowerCount(g, b)
      BY <1>2, <1>3, <3>1, ScanIsLowerCount
    <3>3. BucketCount(g, b, 0) = 0
      <4>1. InBucket(g, b, 0) = {}
        BY DEF InBucket
      <4> QED
        BY <4>1, FS_EmptySet DEF BucketCount
    <3>4. LowerCount(g, b) \in Nat
      <4>1. 0 \in 0..Length
        BY RadixConstants
      <4> QED
        BY <1>2, <3>1, <4>1, BucketCounts
    <3> QED
      BY <3>2, <3>3, <3>4 DEF ExclusiveSum
  <2>2. indices' = [b \in Bucket |-> ExclusiveSum(b)]
    BY DEF ScanCounts
  <2> QED
    BY <2>1, <2>2
<1>5. indices' # <<>>
  <2>1. 0 \in DOMAIN indices'
    BY <1>4, RadixConstants
  <2> QED
    BY <2>1
<1>6. RadixTypes'
  BY <1>1 DEF RadixTypes, Keys, Pos
<1>7. PassesDone'
  BY <1>1, <1>5 DEF PassesDone, StableSort, Before, Other
<1>8. PassPhase'
  BY <1>1, <1>5 DEF PassPhase
<1>9. PassRuns'
  <2>1. DigitKeys(buffer'[input'], pass') = g
    BY <1>1
  <2>2. indices' = [b \in Bucket |-> LowerCount(g, b) + BucketCount(g, b, emitted')]
    BY <1>1, <1>4
  <2>3. 1..emitted' = {}
    BY <1>1
  <2> HIDE DEF g
  <2> QED
    BY <1>1, <1>3, <2>1, <2>2, <2>3 DEF PassRuns, Indices
<1> QED
  BY <1>6, <1>7, <1>8, <1>9

LEMMA EmitStep ==
  ASSUME RadixInv, Emit
  PROVE  RadixInv'
<1> USE DEF RadixInv
<1> PICK in : buffer[input] = in
  OBVIOUS
<1> PICK dest : buffer[Other] = dest
  OBVIOUS
<1> PICK g : DigitKeys(in, pass) = g
  OBVIOUS
<1> PICK o : Other = o
  OBVIOUS
<1>1. /\ indices # <<>> /\ emitted < Length /\ emitted' = emitted + 1
      /\ UNCHANGED <<input, pass, counts, unsorted>>
  BY DEF Emit
<1>2. /\ in \in Keys /\ dest \in Keys /\ g \in Keys /\ pass \in Nat
      /\ o \in 1..2 /\ input \in 1..2 /\ o # input /\ 3 - input = o
  BY OtherBuffer DEF Other
<1>3. emitted \in 0..Length - 1 /\ emitted \in Nat /\ emitted + 1 \in Pos
  <2>1. emitted \in 0..Length
    BY DEF RadixTypes
  <2> QED
    BY <1>1, <2>1, RadixConstants DEF Pos
<1> PICK bid : Digit(in[emitted + 1], pass) = bid
  OBVIOUS
<1>4. bid \in Bucket /\ bid \in Nat /\ g[emitted + 1] = bid
  <2>1. in[emitted + 1] \in Nat
    BY <1>2, <1>3 DEF Keys
  <2>2. Digit(in[emitted + 1], pass) \in Bucket
    BY <1>2, <2>1, LowDigits
  <2>3. g[emitted + 1] = Digit(in[emitted + 1], pass)
    BY <1>3 DEF DigitKeys
  <2> QED
    BY <2>2, <2>3, RadixConstants
<1>5. indices = [b \in Bucket |-> LowerCount(g, b) + BucketCount(g, b, emitted)]
  BY <1>1 DEF PassRuns, Indices
<1>6. indices[bid] + 1 = Place(g, emitted + 1) /\ Place(g, emitted + 1) \in Pos
  <2>1. Place(g, emitted + 1) = LowerCount(g, bid) + BucketCount(g, bid, emitted) + 1
    BY <1>2, <1>3, <1>4, NextPlace
  <2>2. indices[bid] = LowerCount(g, bid) + BucketCount(g, bid, emitted)
    BY <1>4, <1>5
  <2> QED
    BY <1>2, <1>3, <2>1, <2>2, PlaceRange
<1> PICK at : Place(g, emitted + 1) = at
  OBVIOUS
<1>7. /\ buffer' = [buffer EXCEPT ![o] = [dest EXCEPT ![at] = in[emitted + 1]]]
      /\ indices' = [indices EXCEPT ![bid] = @ + 1]
  <2>1. /\ buffer' = [buffer EXCEPT ![Other][indices[Digit(in[emitted + 1], pass)] + 1]
                                      = in[emitted + 1]]
        /\ indices' = [indices EXCEPT ![Digit(in[emitted + 1], pass)] = @ + 1]
    BY DEF Emit
  <2> QED
    BY <1>6, <2>1
<1>8. /\ buffer'[input] = in
      /\ buffer'[o] = [dest EXCEPT ![at] = in[emitted + 1]]
      /\ buffer'[o] \in Keys
      /\ buffer' \in [1..2 -> Keys]
  <2>1. buffer \in [1..2 -> Keys]
    BY DEF RadixTypes
  <2>2. in[emitted + 1] \in Nat /\ at \in Pos
    BY <1>2, <1>3, <1>6 DEF Keys
  <2>3. [dest EXCEPT ![at] = in[emitted + 1]] \in Keys
    BY <1>2, <2>2 DEF Keys
  <2> QED
    BY <1>2, <1>7, <2>1, <2>3
<1>9. indices' = [b \in Bucket |-> LowerCount(g, b) + BucketCount(g, b, emitted + 1)]
  <2>1. ASSUME NEW b \in Bucket
        PROVE  indices'[b] = LowerCount(g, b) + BucketCount(g, b, emitted + 1)
    <3>1. b \in Nat /\ emitted \in 0..Length
      BY <1>3, RadixConstants
    <3>2. LowerCount(g, b) \in Nat /\ BucketCount(g, b, emitted) \in Nat
      BY <1>2, <3>1, BucketCounts
    <3>3. BucketCount(g, b, emitted + 1)
            = IF bid = b THEN BucketCount(g, b, emitted) + 1 ELSE BucketCount(g, b, emitted)
      BY <1>2, <1>3, <1>4, <3>1, BucketCountNext
    <3>4. indices[b] = LowerCount(g, b) + BucketCount(g, b, emitted)
      BY <1>5
    <3>5. indices'[b] = IF bid = b THEN indices[b] + 1 ELSE indices[b]
      BY <1>4, <1>5, <1>7
    <3> QED
      BY <3>2, <3>3, <3>4, <3>5
  <2>2. indices' = [b \in Bucket |-> indices'[b]]
    BY <1>5, <1>7
  <2> QED
    BY <2>1, <2>2
<1>10. ASSUME NEW q \in 1..emitted + 1
       PROVE  Emitted(buffer'[o], in, pass, q)
  <2>1. q \in Pos /\ Place(g, q) \in Pos
    <3>1. q \in Pos
      BY <1>3, RadixConstants DEF Pos
    <3> QED
      BY <1>2, <3>1, PlaceRange
  <2>2. CASE q = emitted + 1
    <3>1. buffer'[o][at] = in[q]
      BY <1>2, <1>6, <1>8, <2>2 DEF Keys
    <3> QED
      BY <2>2, <3>1 DEF Emitted
  <2>3. CASE q # emitted + 1
    <3>1. q \in 1..emitted
      BY <1>3, <2>3
    <3>2. Emitted(dest, in, pass, q)
      BY <1>1, <3>1 DEF PassRuns
    <3>3. Place(g, q) # at
      BY <1>2, <1>3, <2>1, <2>3, PlaceOrder
    <3>4. buffer'[o][Place(g, q)] = dest[Place(g, q)]
      BY <1>2, <1>8, <2>1, <3>3 DEF Keys
    <3> QED
      BY <3>2, <3>4 DEF Emitted
  <2> QED
    BY <2>2, <2>3
<1>11. indices' # <<>> /\ counts # <<>>
  <2>1. 0 \in DOMAIN indices'
    BY <1>9, RadixConstants
  <2> QED
    BY <1>1, <2>1 DEF PassPhase
<1>12. Other' = o
  BY <1>1, <1>2 DEF Other
<1>13. RadixTypes'
  <2>1. unsorted' \in Keys /\ input' \in 1..2 /\ pass' \in 0..Passes + 1
    BY <1>1 DEF RadixTypes
  <2>2. emitted' \in 0..Length
    BY <1>1, <1>3, RadixConstants
  <2> QED
    BY <1>8, <2>1, <2>2 DEF RadixTypes, Keys, Pos
<1>14. PassesDone'
  <2>1. ~(pass > Passes)
    BY <1>2, <1>11, RadixConstants DEF PassPhase
  <2>2. pass <= Passes => StableSort(in, unsorted, pass)
    BY DEF PassesDone
  <2>3. pass' <= Passes => StableSort(buffer'[input'], unsorted', pass')
    BY <1>1, <1>8, <2>2
  <2>4. pass' <= Passes => (input' = 1 <=> pass' % 2 = 0)
    BY <1>1 DEF PassesDone
  <2> QED
    BY <1>1, <1>11, <2>1, <2>3, <2>4 DEF PassesDone, StableSort, Before
<1>15. PassPhase'
  BY <1>1, <1>11 DEF PassPhase
<1>16. PassRuns'
  <2>1. buffer'[input'] = in /\ pass' = pass
    BY <1>1, <1>8
  <2>2. DigitKeys(buffer'[input'], pass') = g
    BY <2>1
  <2>3. counts' = [b \in Bucket |-> BucketCount(g, b, Length)]
    BY <1>1, <1>11 DEF PassRuns
  <2>4. indices' = [b \in Bucket |-> LowerCount(g, b) + BucketCount(g, b, emitted')]
    BY <1>1, <1>9
  <2>5. \A q \in 1..emitted' : Emitted(buffer'[Other'], in, pass, q)
    BY <1>1, <1>10, <1>12
  <2> QED
    BY <2>1, <2>2, <2>3, <2>4, <2>5 DEF PassRuns, Indices
<1> QED
  BY <1>13, <1>14, <1>15, <1>16

LEMMA SwapStep ==
  ASSUME RadixInv, SwapBuffers
  PROVE  RadixInv'
<1> USE DEF RadixInv
<1>1. /\ indices # <<>> /\ emitted = Length
      /\ input' = Other /\ pass' = pass + 1
      /\ counts' = <<>> /\ indices' = <<>> /\ emitted' = 0
      /\ buffer' = buffer /\ unsorted' = unsorted
  BY DEF SwapBuffers
<1>2. /\ Other \in 1..2 /\ input \in 1..2 /\ Other # input
      /\ buffer[input] \in Keys /\ buffer[Other] \in Keys
      /\ pass \in Nat /\ Other = 3 - input
  BY OtherBuffer DEF Other
<1>3. pass < Passes /\ pass + 1 \in 1..Passes /\ Passes \in Nat
  BY <1>1, <1>2, RadixConstants DEF PassPhase
<1>4. StableSort(buffer[input], unsorted, pass)
  BY <1>2, <1>3 DEF PassesDone
<1>5. StableSort(buffer[Other], unsorted, pass + 1)
  <2>1. \A i \in Pos : Emitted(buffer[Other], buffer[input], pass, i)
    BY <1>1 DEF PassRuns, Pos
  <2>2. unsorted \in Keys
    BY DEF RadixTypes
  <2> QED
    BY <1>2, <1>4, <2>1, <2>2, SortedByNext
<1>6. Other' = input
  BY <1>1, <1>2 DEF Other
<1>7. RadixTypes'
  <2>1. buffer' \in [1..2 -> Keys] /\ unsorted' \in Keys
    BY <1>1 DEF RadixTypes
  <2>2. input' \in 1..2 /\ pass' \in 0..Passes + 1 /\ emitted' \in 0..Length
    BY <1>1, <1>2, <1>3, RadixConstants
  <2> QED
    BY <2>1, <2>2 DEF RadixTypes, Keys, Pos
<1>8. PassesDone'
  <2>1. StableSort(buffer'[input'], unsorted', pass')
    BY <1>1, <1>5
  <2>2. StableSort(buffer'[Other'], unsorted', pass' - 1)
    <3>1. pass' - 1 = pass
      BY <1>1, <1>2
    <3> QED
      BY <1>1, <1>4, <1>6, <3>1
  <2>3. input' = 1 <=> pass' % 2 = 0
    <3>1. input = 1 <=> pass % 2 = 0
      BY <1>2, <1>3 DEF PassesDone
    <3>2. (pass + 1) % 2 = 0 <=> pass % 2 # 0
      BY <1>2
    <3> QED
      BY <1>1, <1>2, <3>1, <3>2
  <2>4. ~(pass' > Passes)
    BY <1>1, <1>3
  <2> QED
    BY <2>1, <2>2, <2>3, <2>4 DEF PassesDone, StableSort, Before
<1>9. PassPhase' /\ PassRuns'
  BY <1>1 DEF PassPhase, PassRuns
<1> QED
  BY <1>7, <1>8, <1>9

LEMMA CopyStep ==
  ASSUME RadixInv, CopyBack
  PROVE  RadixInv'
<1> USE DEF RadixInv
<1>1. /\ pass = Passes /\ pass' = Passes + 1
      /\ buffer' = [buffer EXCEPT ![1] = buffer[2]]
      /\ UNCHANGED <<input, counts, indices, emitted, unsorted>>
  BY DEF CopyBack
<1>2. pass \in 1..Passes /\ Passes \in Nat
  BY <1>1, RadixConstants
<1>3. counts = <<>> /\ indices = <<>>
  BY <1>1, <1>2 DEF PassPhase
<1>4. input = 1 /\ Other = 2
  <2>1. input = 1
    BY <1>1, <1>2, RadixConstants DEF PassesDone
  <2> QED
    BY <2>1 DEF Other
<1>5. StableSort(buffer[2], unsorted, Passes - 1)
  BY <1>1, <1>2, <1>3, <1>4 DEF PassesDone
<1>6. buffer'[1] = buffer[2] /\ buffer' \in [1..2 -> Keys]
  BY <1>1 DEF RadixTypes
<1>7. RadixTypes'
  <2>1. pass' \in 0..Passes + 1
    BY <1>1, <1>2
  <2> QED
    BY <1>1, <1>6, <2>1 DEF RadixTypes, Keys, Pos
<1>8. PassesDone'
  <2>1. StableSort(buffer'[1], unsorted', Passes - 1)
    BY <1>1, <1>5, <1>6
  <2>2. ~(pass' <= Passes) /\ pass' \notin 1..Passes
    BY <1>1, <1>2
  <2> QED
    BY <2>1, <2>2 DEF PassesDone, StableSort, Before
<1>9. PassPhase' /\ PassRuns'
  BY <1>1, <1>3 DEF PassPhase, PassRuns
<1> QED
  BY <1>7, <1>8, <1>9

LEMMA RadixStep ==
  ASSUME RadixInv, [RadixNext]_radixVars
  PROVE  RadixInv'
<1>1. CASE CountBuckets
  BY <1>1, CountStep
<1>2. CASE ScanCounts
  BY <1>2, ScanStep
<1>3. CASE Emit
  BY <1>3, EmitStep
<1>4. CASE SwapBuffers
  BY <1>4, SwapStep
<1>5. CASE CopyBack
  BY <1>5, CopyStep
<1>6. CASE UNCHANGED radixVars
  <2>1. UNCHANGED <<buffer, input, pass, counts, indices, emitted, unsorted>>
    BY <1>6 DEF radixVars
  <2>2. RadixTypes'
    BY <2>1 DEF RadixInv, RadixTypes, Keys, Pos
  <2>3. PassesDone'
    BY <2>1 DEF RadixInv, PassesDone, StableSort, Before, Other
  <2>4. PassPhase'
    BY <2>1 DEF RadixInv, PassPhase
  <2>5. PassRuns'
    BY <2>1 DEF RadixInv, PassRuns, Indices, DigitKeys, Emitted, Other
  <2> QED
    BY <2>2, <2>3, <2>4, <2>5 DEF RadixInv
<1> QED
  BY <1>1, <1>2, <1>3, <1>4, <1>5, <1>6 DEF RadixNext

(* Whatever the array, the base and the even number of passes: after every  *)
(* pass `in' is the array sorted, stably, by the digits seen so far, and    *)
(* the caller is left with the array sorted by all digits but the highest.  *)
THEOREM PassesSortHolds == RadixSpec => []PassesSort
<1>1. RadixInv => PassesSort
  BY DEF RadixInv, PassesDone, PassesSort
<1> QED
  BY <1>1, RadixInitially, RadixStep, PTL DEF RadixSpec
=============================================================================
