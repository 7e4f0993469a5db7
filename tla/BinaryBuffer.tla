---------------------------- MODULE BinaryBuffer ----------------------------
(***************************************************************************)
(* condense/BinaryBuffer.h: BinaryWriter fills a span, BinaryExtensive-    *)
(* Writer a vector that it makes longer, BinaryReader takes values out     *)
(* again.  The i-th value written is the bytes <<i, 1>>, ..., <<i, size>>. *)
(* Readers start when writing is over: a reader's span would not follow a  *)
(* vector that is resized.  (Offsets stay within the buffer, so adding a   *)
(* size to one never exceeds the 64 bits of a size_t.)                     *)
(***************************************************************************)
EXTENDS Integers, Sequences

CONSTANTS
  TypeSizes,    \* the sizeof of the types that are written and read
  MaxLength,    \* bound: the longest buffer
  Zero          \* a byte that was not written

ASSUME BinaryAssumption == TypeSizes \subseteq Nat \ {0} /\ MaxLength \in Nat

VARIABLES
  extensive,    \* which of the writers is used
  bytes,        \* the buffer
  writer,       \* the writer's offset
  reader,       \* the reader's offset
  wrote,        \* history: the sizes of the values written
  got           \* history: what was read, each a sequence of bytes

binaryVars == <<extensive, bytes, writer, reader, wrote, got>>

Value(i, n) == [b \in 1..n |-> <<i, b>>]
Filled(n) == [i \in 1..n |-> Zero]

(* memcpy to an offset.                                                    *)
Put(s, off, v) == [i \in DOMAIN s |-> IF i - off \in DOMAIN v THEN v[i - off] ELSE s[i]]

BinaryInit ==
  /\ extensive \in BOOLEAN
  /\ bytes \in {Filled(n) : n \in 0..MaxLength}
  /\ writer = 0 /\ reader = 0
  /\ wrote = <<>> /\ got = <<>>

(* BinaryWriter::write throws where the value does not fit; a smaller one  *)
(* may fit then.                                                           *)
Write(n) ==
  /\ ~extensive /\ got = <<>>
  /\ IF writer + n > Len(bytes) THEN UNCHANGED <<bytes, writer, wrote>>
     ELSE /\ bytes' = Put(bytes, writer, Value(Len(wrote) + 1, n))
          /\ writer' = writer + n
          /\ wrote' = Append(wrote, n)
  /\ UNCHANGED <<extensive, reader, got>>

(* Faulty variant: the vector becomes as long as the value.                *)
ExtensiveWriteShort(n) ==
  /\ extensive /\ got = <<>> /\ writer + n <= MaxLength
  /\ LET s == IF writer + n > Len(bytes)
              THEN [i \in 1..n |-> IF i <= Len(bytes) THEN bytes[i] ELSE Zero] ELSE bytes
     IN bytes' = Put(s, writer, Value(Len(wrote) + 1, n))
  /\ writer' = writer + n
  /\ wrote' = Append(wrote, n)
  /\ UNCHANGED <<extensive, reader, got>>

(* BinaryExtensiveWriter::write makes room for just this value.            *)
ExtensiveWrite(n) ==
  /\ extensive /\ got = <<>> /\ writer + n <= MaxLength
  /\ LET s == IF writer + n > Len(bytes)
              THEN bytes \o Filled(writer + n - Len(bytes)) ELSE bytes
     IN bytes' = Put(s, writer, Value(Len(wrote) + 1, n))
  /\ writer' = writer + n
  /\ wrote' = Append(wrote, n)
  /\ UNCHANGED <<extensive, reader, got>>

(* BinaryReader::read throws at the end of the buffer.                     *)
Read(n) ==
  /\ IF reader + n > Len(bytes) THEN UNCHANGED <<reader, got>>
     ELSE /\ got' = Append(got, SubSeq(bytes, reader + 1, reader + n))
          /\ reader' = reader + n
  /\ UNCHANGED <<extensive, bytes, writer, wrote>>

BinaryNext == \E n \in TypeSizes : Write(n) \/ ExtensiveWrite(n) \/ Read(n)

BinarySpec == BinaryInit /\ [][BinaryNext]_binaryVars

-----------------------------------------------------------------------------
(* Property                                                                *)

(* Whoever reads the types that were written gets the values that were     *)
(* written, up to the first other type: the cursors agree, calls that      *)
(* throw leave them where they were, and growing a vector that held        *)
(* something before loses nothing.                                         *)
RoundTrip == \A i \in DOMAIN got :
  (i \in DOMAIN wrote /\ \A j \in 1..i : Len(got[j]) = wrote[j])
    => got[i] = Value(i, wrote[i])
=============================================================================
