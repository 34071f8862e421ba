------------------------------- MODULE Codec --------------------------------
(***************************************************************************)
(* The small codecs: ldbd packets (protocol/ldbd.cpp), base64 (module Base64),  *)
(* crc16 and split (include/util/lidig_crc.h).  Bytes are numbers; ldbd's are   *)
(* below LdbdByte, so that its fields overflow within the bounds.              *)
(***************************************************************************)
EXTENDS Base64, Bitwise

CONSTANT LdbdByte   \* 256

-----------------------------------------------------------------------------
(* ldbd: version, type, and three fields of 2, 4 and 4 bytes. *)

LDBD_VERSION == 1
ldbd_type_json == 1
LDBD_HEADER_SIZE == 12

\* Mutated form: the bytes are not swapped.
hton_Host(n, k) == [i \in 1..k |-> (n \div (LdbdByte ^ (i - 1))) % LdbdByte]

\* htons and htonl, with the truncation of what is assigned to the field.
hton(n, k) == [i \in 1..k |-> (n \div (LdbdByte ^ (k - i))) % LdbdByte]

ntoh(s) == FoldLeft(LAMBDA v, b : LdbdByte * v + b, 0, s)

encode_packet(data, format, message_id) ==
    <<LDBD_VERSION, ldbd_type_json>> \o hton(format, 2) \o hton(message_id, 4) \o hton(Len(data), 4) \o data

\* parser_head: the size in the header is that of the rest of the text.
parser_head(text) ==
    /\ Len(text) >= LDBD_HEADER_SIZE
    /\ text[1] = LDBD_VERSION
    /\ ntoh(SubSeq(text, 9, LDBD_HEADER_SIZE)) = Len(text) - LDBD_HEADER_SIZE

\* The data, or the empty string.
parser_ldbd(text) == IF parser_head(text) THEN SubSeq(text, LDBD_HEADER_SIZE + 1, Len(text)) ELSE <<>>

\* A packet gives its data back whatever its format and id, unless its size does
\* not fit the header; a packet that is cut, or goes on, gives nothing.
LdbdWhole(data) ==
    \A f \in {0, LdbdByte, LdbdByte ^ 2 - 1}, id \in {0, 5, LdbdByte ^ 4} :
        LET p == encode_packet(data, f, id)
            fits == Len(data) < LdbdByte ^ 4
        IN /\ parser_ldbd(p) = IF fits THEN data ELSE <<>>
           /\ fits => /\ \A k \in 0..Len(p) - 1 : ~parser_head(SubSeq(p, 1, k))
                      /\ ~parser_head(Append(p, 0))

-----------------------------------------------------------------------------
(* crc16, the lowest bit first. *)

CrcBit(multinomial, crc) == IF crc % 2 = 1 THEN (crc \div 2) ^^ multinomial ELSE crc \div 2

\* Mutated form: the checksum begins with 0.
CrcInit_Zero == 0

CrcInit == 65535

crc16(data, multinomial) ==
    FoldLeft(LAMBDA crc, b : FoldLeft(LAMBDA c, k : CrcBit(multinomial, c), crc ^^ b, <<1, 2, 3, 4, 5, 6, 7, 8>>), CrcInit, data)

\* With its checksum after it, low byte first, a message checks to 0; one with a
\* changed bit, or with zeros before it, has another checksum.
CrcCatches(data, multinomial) ==
    LET crc == crc16(data, multinomial)
    IN /\ crc16(data \o <<crc % 256, crc \div 256>>, multinomial) = 0
       /\ \A k \in DOMAIN data, b \in {1, 16, 128} : crc16([data EXCEPT ![k] = @ ^^ b], multinomial) # crc
       /\ crc16(<<0>> \o data, multinomial) # crc

-----------------------------------------------------------------------------
(* split *)

\* Where delim is found in s from position i on, 0 for npos.
find(s, delim, i) ==
    LET P == {p \in i..Len(s) - Len(delim) + 1 : SubSeq(s, p, p + Len(delim) - 1) = delim}
    IN IF P = {} THEN 0 ELSE CHOOSE p \in P : \A r \in P : p <= r

\* Mutated form: the search goes on one character after the delimiter found.
Next1_After(pos, delim) == pos + 1

Next1(pos, delim) == pos + Len(delim)

\* The pieces found from position i on.
RECURSIVE SplitFrom(_, _, _)
SplitFrom(s, delim, i) ==
    LET pos == find(s, delim, i)
    IN IF pos = 0 THEN <<>> ELSE <<SubSeq(s, i, pos - 1)>> \o SplitFrom(s, delim, Next1(pos, delim))

split(str, delim) == IF str = <<>> THEN <<>> ELSE SplitFrom(str \o delim, delim, 1)

\* A part of delim that it both begins and ends with.
HasBorder(delim) == \E k \in 1..Len(delim) - 1 : SubSeq(delim, 1, k) = SubSeq(delim, Len(delim) - k + 1, Len(delim))

\* The pieces, with the delimiter between them, are the text, and none of them
\* holds the delimiter.  (A delimiter that overlaps itself may be found across
\* the end of the text.)
SplitRejoins(str, delim) ==
    str # <<>> /\ ~HasBorder(delim) =>
        LET r == split(str, delim)
        IN /\ r # <<>>
           /\ FlattenSeq([k \in DOMAIN r |-> IF k = 1 THEN r[k] ELSE delim \o r[k]]) = str
           /\ \A k \in DOMAIN r : find(r[k], delim, 1) = 0
=============================================================================
