------------------------------ MODULE FlatMap ------------------------------
(***************************************************************************)
(* wip/v1_flat_map.h: a hash map with open addressing and linear probing.  *)
(* bucket[h] is what m_bitmaps and m_buckets say of slot h: Free, or the   *)
(* pair constructed there.  A key is looked for from its hash on, up to    *)
(* the first free slot; erase frees a slot and leaves no mark in it, so it *)
(* may cut the probe sequences of keys that were placed beyond the slot.   *)
(*                                                                         *)
(* A table without buckets is count = 0 and the empty function; the        *)
(* moved-from map is the same.  insert_or_assign is not part of the model: *)
(* it assigns a value to a pair with a const key, which does not compile.  *)
(***************************************************************************)
EXTENDS Integers, FiniteSets

CONSTANTS
  Key, Val, Default, Absent, Done,
  Free,          \* a slot whose bit is clear
  Hash,          \* m_hash
  RehashSizes,   \* the arguments callers give to rehash and reserve
  MaxBuckets     \* bound: no table is made with more buckets

ASSUME FlatMapAssumption ==
  /\ Hash \in [Key -> Nat]
  /\ RehashSizes \subseteq Nat /\ MaxBuckets \in Nat
  /\ Default \in Val
  /\ Free \notin [key : Key, val : Val]

VARIABLES
  count,     \* m_bucket_count
  bucket,    \* m_bitmaps and m_buckets
  size,      \* m_size
  ret,       \* what the last operation returned
  cut,       \* history: slots freed by erase since the table was made or emptied
  harmed     \* history: since the map was empty, an erase has freed a slot that
             \* the probe of another stored key had passed

vars == <<count, bucket, size, ret, cut, harmed>>

Pair(k, v) == [key |-> k, val |-> v]
Taken(b) == {h \in DOMAIN b : b[h] # Free}
Capacity == (count + 1) \div 2
NoTable == [h \in {} |-> Free]

-----------------------------------------------------------------------------
(* The slots looked at for a key of hash x in a table b of n > 0 slots, in *)
(* this order.                                                             *)
Probe(n, x, i) == (x + i) % n

(* bucket_index_on stops where it finds the key, or a free slot.           *)
StopsAt(b, n, k, i) ==
  LET s == b[Probe(n, Hash[k], i)] IN s # Free => s.key = k

(* In a full table without the key it would go round for ever.             *)
ProbeEnds(b, n, k) == n > 0 => \E i \in 0..n - 1 : StopsAt(b, n, k, i)

IndexOn(b, n, k) ==
  LET i == CHOOSE j \in 0..n - 1 : /\ StopsAt(b, n, k, j)
                                   /\ \A l \in 0..j - 1 : ~StopsAt(b, n, k, l)
  IN Probe(n, Hash[k], i)

Index(k) == IndexOn(bucket, count, k)
Found(k) == count > 0 /\ bucket[Index(k)] # Free
Terminates(k) == ProbeEnds(bucket, count, k)

-----------------------------------------------------------------------------
Init ==
  /\ count = 0 /\ bucket = NoTable /\ size = 0
  /\ ret = Done /\ cut = {} /\ harmed = FALSE

Larger(a, b) == IF a >= b THEN a ELSE b

(* The number of buckets rehash(n) asks for, and reserve(n).               *)
RehashTo(n) == Larger(n, 2 * size)
ReserveTo(n) == IF n >= Capacity THEN RehashTo(Larger(2 * n, 2 * count)) ELSE 0

(* Faulty variant: the old index is kept modulo the new size.              *)
MovedInPlace(b, n) ==
  LET Upto[h \in 0..count] ==
        IF h = 0 THEN b
        ELSE IF bucket[h - 1] = Free THEN Upto[h - 1]
        ELSE [Upto[h - 1] EXCEPT ![(h - 1) % n] = bucket[h - 1]]
  IN Upto[count]

(* rehash's loop: the old slots in order, each pair to where a probe of    *)
(* the new table stops.  Of two pairs with one key the later one is        *)
(* constructed over the earlier one.                                       *)
Moved(b, n) ==
  LET Upto[h \in 0..count] ==
        IF h = 0 THEN b
        ELSE IF bucket[h - 1] = Free THEN Upto[h - 1]
        ELSE [Upto[h - 1] EXCEPT ![IndexOn(Upto[h - 1], n, bucket[h - 1].key)] = bucket[h - 1]]
  IN Upto[count]

(* The table after rehash to n buckets; 0 leaves it alone.                 *)
Count(n) == IF n = 0 THEN count ELSE n
Table(n) == IF n = 0 THEN bucket ELSE Moved([h \in 0..n - 1 |-> Free], n)
Cut(n) == IF n = 0 THEN cut ELSE {}

Resize(n) ==
  /\ n <= MaxBuckets
  /\ count' = Count(n) /\ bucket' = Table(n) /\ cut' = Cut(n)
  /\ ret' = Done
  /\ UNCHANGED <<size, harmed>>

Rehash(n) == Resize(RehashTo(n))
Reserve(n) == Resize(ReserveTo(n))
ShrinkToFit == Resize(IF count > 2 * size THEN RehashTo(0) ELSE 0)

-----------------------------------------------------------------------------
(* A pair for k where its probe stops, in the table made for n buckets.    *)
Construct(k, v, n) ==
  LET h == IndexOn(Table(n), Count(n), k) IN
    /\ bucket' = [Table(n) EXCEPT ![h] = Pair(k, v)]
    /\ cut' = Cut(n) \ {h}
    /\ count' = Count(n)
    /\ size' = size + 1
    /\ UNCHANGED harmed

(* Faulty variant: the value of a key that is there is overwritten, as     *)
(* insert_or_assign would.                                                 *)
InsertAssigns(k, v) ==
  LET n == ReserveTo(size + 1)
      t == Table(n)
  IN
  /\ n <= MaxBuckets /\ ProbeEnds(t, Count(n), k)
  /\ IF t[IndexOn(t, Count(n), k)] = Free
     THEN Construct(k, v, n) /\ ret' = TRUE
     ELSE /\ bucket' = [t EXCEPT ![IndexOn(t, Count(n), k)] = Pair(k, v)]
          /\ count' = Count(n) /\ cut' = Cut(n)
          /\ ret' = FALSE
          /\ UNCHANGED <<size, harmed>>

(* insert reserves first, whether or not the key is there.                 *)
Insert(k, v) ==
  LET n == ReserveTo(size + 1)
      t == Table(n)
  IN
  /\ n <= MaxBuckets /\ ProbeEnds(t, Count(n), k)
  /\ IF t[IndexOn(t, Count(n), k)] = Free
     THEN Construct(k, v, n) /\ ret' = TRUE
     ELSE /\ count' = Count(n) /\ bucket' = t /\ cut' = Cut(n)
          /\ ret' = FALSE
          /\ UNCHANGED <<size, harmed>>

(* Faulty variant: operator[] never makes room.                            *)
NoGrowth == IF count = 0 THEN 2 ELSE 0

(* operator[] makes room only for a new key, and later than insert.        *)
Growth == IF size + 1 > Capacity THEN ReserveTo(size + 1) ELSE 0

Subscript(k) ==
  /\ Terminates(k) /\ Growth <= MaxBuckets
  /\ IF Found(k)
     THEN ret' = bucket[Index(k)].val /\ UNCHANGED <<count, bucket, size, cut, harmed>>
     ELSE ret' = Default /\ Construct(k, Default, Growth)

(* m[k] = v, and at(k) = v for a key that is there.                        *)
Assign(k, v) ==
  /\ Terminates(k) /\ Growth <= MaxBuckets
  /\ ret' = v
  /\ IF Found(k)
     THEN bucket' = [bucket EXCEPT ![Index(k)].val = v] /\ UNCHANGED <<count, size, cut, harmed>>
     ELSE Construct(k, v, Growth)

(* The slots the probe of the pair in slot g has passed.                   *)
Before(g) ==
  LET Steps == CHOOSE i \in 0..count - 1 : Probe(count, Hash[bucket[g].key], i) = g
  IN {Probe(count, Hash[bucket[g].key], i) : i \in 0..Steps - 1}
Passed(h) == \E g \in Taken(bucket) : h \in Before(g)

(* Faulty variant: the size of a map that is erased from stays.            *)
EraseUncounted(k) ==
  /\ Terminates(k)
  /\ ret' = Found(k)
  /\ IF Found(k)
     THEN /\ bucket' = [bucket EXCEPT ![Index(k)] = Free]
          /\ cut' = cut \cup {Index(k)}
          /\ harmed' = (harmed \/ Passed(Index(k)))
     ELSE UNCHANGED <<bucket, cut, harmed>>
  /\ UNCHANGED <<count, size>>

(* erase(k), and erase(find(k)).                                           *)
Erase(k) ==
  /\ Terminates(k)
  /\ ret' = Found(k)
  /\ IF Found(k)
     THEN /\ bucket' = [bucket EXCEPT ![Index(k)] = Free]
          /\ cut' = cut \cup {Index(k)}
          /\ harmed' = (harmed \/ Passed(Index(k)))
          /\ size' = size - 1
     ELSE UNCHANGED <<bucket, cut, size, harmed>>
  /\ UNCHANGED count

(* find, whose end() is Absent.                                            *)
Find(k) ==
  /\ Terminates(k)
  /\ ret' = IF Found(k) THEN bucket[Index(k)].val ELSE Absent
  /\ UNCHANGED <<count, bucket, size, cut, harmed>>

(* at throws where find returns end().                                     *)
At(k) == Find(k)

Contains(k) ==
  /\ Terminates(k)
  /\ ret' = Found(k)
  /\ UNCHANGED <<count, bucket, size, cut, harmed>>

Clear ==
  /\ bucket' = [h \in DOMAIN bucket |-> Free]
  /\ size' = 0 /\ cut' = {} /\ harmed' = FALSE
  /\ ret' = Done
  /\ UNCHANGED count

(* The map is moved from, by a constructor or an assignment (its own too). *)
MoveFrom ==
  /\ count' = 0 /\ bucket' = NoTable /\ size' = 0 /\ cut' = {} /\ harmed' = FALSE
  /\ ret' = Done

Next ==
  \/ \E k \in Key :
       Subscript(k) \/ Erase(k) \/ Find(k) \/ At(k) \/ Contains(k)
         \/ \E v \in Val : Insert(k, v) \/ Assign(k, v)
  \/ \E n \in RehashSizes : Rehash(n) \/ Reserve(n)
  \/ ShrinkToFit \/ Clear \/ MoveFrom

Spec == Init /\ [][Next]_vars

-----------------------------------------------------------------------------
(* Properties                                                              *)

(* A stored pair is found again from its key's hash on: every slot the     *)
(* probe has to pass is taken, or an erase has freed it since the table    *)
(* was made.  Growing, moving the pairs and taking freed slots again cuts  *)
(* no probe sequence.                                                      *)
ProbeChain == \A g \in Taken(bucket) : \A h \in Before(g) :
  bucket[h] # Free \/ h \in cut

(* No table is filled so far that the probe of an absent key finds no end, *)
(* except a table of one bucket, which rehash(1) makes.                    *)
ProbesEnd == \A k \in Key : count = 1 \/ Terminates(k)

(* m_size counts the pairs, each key once; after a harmful erase keys may  *)
(* be there twice, and a rehash that merges them leaves m_size too large,  *)
(* but never too small: --m_size does not wrap.                            *)
Counted ==
  /\ Cardinality(Taken(bucket)) <= size
  /\ harmed \/ Cardinality({bucket[h].key : h \in Taken(bucket)}) = size

(* What a caller sees of the map.                                          *)
Contents == [k \in {j \in Key : Terminates(j) /\ Found(j)} |-> bucket[Index(k)].val]
Abstract == INSTANCE FiniteMap WITH map <- Contents, answer <- ret

(* Until an erase frees a slot that the probe of another key has passed,   *)
(* every operation is the finite map's, and rehashing cannot be seen.      *)
RefinesFiniteMap ==
  [][~harmed' => [Abstract!Next]_<<Contents, ret>>]_vars
=============================================================================
