------------------------------- MODULE Base64 -------------------------------
(***************************************************************************)
(* base64_encode and base64_decode (util/base64.cpp).  A character is its      *)
(* value 0..63, Pad, or Other; a byte is a number.                            *)
(***************************************************************************)
EXTENDS Integers, Sequences, SequencesExt

Pad == 64
Other == 65

ByteAt(s, i) == IF i \in DOMAIN s THEN s[i] ELSE 0

\* Mutated form: the last group is not padded.
Padding_None(n) == <<>>

Padding(n) == CASE n % 3 = 1 -> <<Pad, Pad>> [] n % 3 = 2 -> <<Pad>> [] OTHER -> <<>>

\* The characters of n bytes: six bits each, the last ones filled up with zeros.
base64_encode(in) ==
    LET n == Len(in)
        bits(k) == LET b == (3 * k) \div 4 IN  \* the character k begins in the byte after b
                   CASE k % 4 = 0 -> ByteAt(in, b + 1) \div 4
                     [] k % 4 = 1 -> 16 * (ByteAt(in, b + 1) % 4) + ByteAt(in, b + 2) \div 16
                     [] k % 4 = 2 -> 4 * (ByteAt(in, b + 1) % 16) + ByteAt(in, b + 2) \div 64
                     [] OTHER -> ByteAt(in, b + 1) % 64
    IN [k \in 1..(4 * n + 2) \div 3 |-> bits(k - 1)] \o Padding(n)

\* The text up to the first padding.
UpToPad(in) == LET p == SelectInSeq(in, LAMBDA c : c = Pad) IN IF p = 0 THEN in ELSE SubSeq(in, 1, p - 1)

\* Nothing for a length or a character that cannot be.  A byte needs two
\* characters; bits that are left over are dropped.
base64_decode(in) ==
    LET s == UpToPad(in)
        byte(j) == LET k == j + (j \div 3) IN
                   CASE j % 3 = 0 -> 4 * s[k + 1] + s[k + 2] \div 16
                     [] j % 3 = 1 -> 16 * (s[k + 1] % 16) + s[k + 2] \div 4
                     [] OTHER -> 64 * (s[k + 1] % 4) + s[k + 2]
    IN IF Len(in) % 4 # 0 \/ Other \in ToSet(s) THEN <<>>
       ELSE [j \in 1..(3 * Len(s)) \div 4 |-> byte(j - 1)]

\* Every string of bytes survives, in a text that is a multiple of four long and
\* of which every part that is cut off anywhere else is refused.
Base64Survives(in) ==
    LET t == base64_encode(in)
    IN /\ base64_decode(t) = in
       /\ Len(t) = 4 * ((Len(in) + 2) \div 3)
       /\ \A k \in DOMAIN t : k % 4 # 0 => base64_decode(SubSeq(t, 1, k)) = <<>>
       /\ \A k \in DOMAIN t : t[k] # Pad => base64_decode([t EXCEPT ![k] = Other]) = <<>>
=============================================================================
