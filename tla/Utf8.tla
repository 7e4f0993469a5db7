-------------------------------- MODULE Utf8 --------------------------------
(***************************************************************************)
(* constl/utf8.h.  decode_utf8_string counts the code points of its input  *)
(* with decode_utf8_len, stops before a code point whose bytes have not    *)
(* all arrived, decodes the counted ones with decode_utf8 and returns how  *)
(* many bytes are left over.  So a caller can decode a stream chunk by     *)
(* chunk and put the leftover bytes in front of the next chunk, which is   *)
(* what this module does: text is sent, encoded, over the wire.            *)
(*                                                                         *)
(* A char32_t is a natural number and a char8_t one below 256; shifts and  *)
(* masks are divisions and remainders, and the conversion to char8_t is    *)
(* the remainder of 256.                                                   *)
(***************************************************************************)
EXTENDS Integers, Sequences

CONSTANTS
  CodePoints,   \* code points that are sent
  StrayBytes,   \* bytes that begin no code point, sent as they are
  MaxText       \* bound: the longest text

(* encode_utf8 has no upper limit: from 2^21 on the lead byte overflows.   *)
Encodable == {cp \in Nat : cp < 2097152}

ASSUME Utf8Assumption ==
  /\ CodePoints \subseteq Encodable
  /\ StrayBytes \subseteq 128..191 \cup 248..255
  /\ MaxText \in Nat

VARIABLES
  text,         \* history: the code points sent, U+FFFD for a stray byte
  wire,         \* the encoded bytes not yet fed to the decoder
  tail,         \* the bytes the last decode_utf8_string left over
  decoded       \* everything decode_utf8_string has produced

utf8Vars == <<text, wire, tail, decoded>>

Replacement == 65533

(* 1011_1111 & b, and where the bits of a lead byte say it is one.         *)
Low6(b) == b % 64
Lead4(b) == b \div 8 = 30
Lead3(b) == b \div 16 = 14
Lead2(b) == b \div 32 = 6

(* Faulty variant: a byte from 0xF8 on is taken for the lead of four.      *)
DecodeLenLax(b) ==
  IF b >= 240 THEN 4 ELSE IF Lead3(b) THEN 3 ELSE IF Lead2(b) THEN 2 ELSE 1

DecodeLen(b) ==
  IF Lead4(b) THEN 4 ELSE IF Lead3(b) THEN 3 ELSE IF Lead2(b) THEN 2 ELSE 1

(* decode_utf8 at position i: the code point, and the position after it.   *)
(* The bytes after the lead are not looked at for being continuations.     *)
DecodeAt(in, i) ==
  LET b == in[i] IN
    IF b < 128 THEN [cp |-> b, next |-> i + 1]
    ELSE IF Lead4(b) THEN
      [cp |-> (b % 8) * 262144 + Low6(in[i + 1]) * 4096 + Low6(in[i + 2]) * 64 + Low6(in[i + 3]),
       next |-> i + 4]
    ELSE IF Lead3(b) THEN
      [cp |-> (b % 16) * 4096 + Low6(in[i + 1]) * 64 + Low6(in[i + 2]), next |-> i + 3]
    ELSE IF Lead2(b) THEN [cp |-> (b % 32) * 64 + Low6(in[i + 1]), next |-> i + 2]
    ELSE [cp |-> Replacement, next |-> i + 1]

EncodeLen(cp) ==
  IF cp >= 65536 THEN 4 ELSE IF cp >= 2048 THEN 3 ELSE IF cp >= 128 THEN 2 ELSE 1

Continuation(x) == 128 + (x % 64)

Encode(cp) ==
  IF cp >= 65536 THEN <<240 + ((cp \div 262144) % 16), Continuation(cp \div 4096),
                        Continuation(cp \div 64), Continuation(cp)>>
  ELSE IF cp >= 2048 THEN <<224 + cp \div 4096, Continuation(cp \div 64), Continuation(cp)>>
  ELSE IF cp >= 128 THEN <<192 + cp \div 64, Continuation(cp)>>
  ELSE <<cp>>

(* decode_utf8_string's first loop after n turns: the code points counted  *)
(* and where it stands.  Before one whose bytes have not all arrived, and  *)
(* at the end, it stays.                                                   *)
CountLoop(in, n) ==
  LET From[m \in Nat] ==
        IF m = 0 THEN [count |-> 0, at |-> 1]
        ELSE LET at == From[m - 1].at IN
          IF at <= Len(in) /\ DecodeLen(in[at]) <= Len(in) - at + 1
          THEN [count |-> From[m - 1].count + 1, at |-> at + DecodeLen(in[at])]
          ELSE From[m - 1]
  IN From[n]

Counted(in) == CountLoop(in, Len(in)).count
Rest(in) == Len(in) + 1 - CountLoop(in, Len(in)).at

(* ... and n turns of its second, which does not know where the input ends.*)
DecodeLoop(in, n) ==
  LET From[m \in Nat] ==
        IF m = 0 THEN [out |-> <<>>, next |-> 1]
        ELSE LET d == DecodeAt(in, From[m - 1].next)
             IN [out |-> Append(From[m - 1].out, d.cp), next |-> d.next]
  IN From[n]

-----------------------------------------------------------------------------
Utf8Init == text = <<>> /\ wire = <<>> /\ tail = <<>> /\ decoded = <<>>

(* encode_utf8_string of one more code point.                              *)
Send(cp) ==
  /\ Len(text) < MaxText
  /\ text' = Append(text, cp) /\ wire' = wire \o Encode(cp)
  /\ UNCHANGED <<tail, decoded>>

SendStray(b) ==
  /\ Len(text) < MaxText
  /\ text' = Append(text, Replacement) /\ wire' = Append(wire, b)
  /\ UNCHANGED <<tail, decoded>>

(* The next n bytes arrive and are decoded behind those left over.         *)
Feed(n) ==
  LET in == tail \o SubSeq(wire, 1, n) IN
    /\ decoded' = decoded \o DecodeLoop(in, Counted(in)).out
    /\ tail' = SubSeq(in, Len(in) - Rest(in) + 1, Len(in))
    /\ wire' = SubSeq(wire, n + 1, Len(wire))
    /\ UNCHANGED text

Utf8Next ==
  \/ \E cp \in CodePoints : Send(cp)
  \/ \E b \in StrayBytes : SendStray(b)
  \/ \E n \in 1..Len(wire) : Feed(n)

Utf8Spec == Utf8Init /\ [][Utf8Next]_utf8Vars

-----------------------------------------------------------------------------
(* Property                                                                *)

(* Wherever the chunks of a stream are cut, what has been decoded is the   *)
(* text sent up to there, and all of it when everything has arrived: the   *)
(* decoder's two loops and the encoder agree on where code points begin,   *)
(* a stray byte costs one U+FFFD and nothing of its neighbours, and        *)
(* encode_utf8_string has room for just what encode_utf8 writes.           *)
StreamDecodes ==
  /\ decoded = SubSeq(text, 1, Len(decoded))
  /\ wire = <<>> => decoded = text /\ tail = <<>>
  /\ \A i \in DOMAIN text : Len(Encode(text[i])) = EncodeLen(text[i])
=============================================================================
