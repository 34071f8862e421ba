------------------------------ MODULE JsonText ------------------------------
(***************************************************************************)
(* Strings and numbers of JSON texts (util/lib_json): how json_writer.cpp     *)
(* writes them and json_reader.cpp (OurReader) reads them back.  Characters   *)
(* are bytes, texts are sequences of bytes.                                  *)
(***************************************************************************)
EXTENDS Integers, Sequences, SequencesExt

CONSTANTS maxLargestInt, maxLargestUInt     \* 2^63 - 1 and 2^64 - 1

Quote == 34
Backslash == 92
REPLACEMENT_CHARACTER == 65533

\* The escapes of one letter: the character and its letter.
Escapes == {<<34, 34>>, <<92, 92>>, <<8, 98>>, <<12, 102>>, <<10, 110>>, <<13, 114>>, <<9, 116>>}

\* A walk over text from place a to place b, where a step sets the next place.
Walk(step(_, _), x, a, b) ==
  FoldLeft(LAMBDA y, i : IF i # y.next \/ ~y.ok THEN y ELSE step(y, i), x, [k \in 1..b + 1 - a |-> a + k - 1])

-----------------------------------------------------------------------------
(* UTF-8 *)

codePointToUTF8(cp) ==
  LET low(k) == 128 + ((cp \div k) % 64) IN
  CASE cp <= 127 -> <<cp>>
    [] cp \in 128..2047 -> <<192 + cp \div 64, low(1)>>
    [] cp \in 2048..65535 -> <<224 + cp \div 4096, low(64), low(1)>>
    [] cp \in 65536..1114111 -> <<240 + cp \div 262144, low(4096), low(64), low(1)>>
    [] OTHER -> <<>>

\* Mutated form: the first code point of three bytes is taken for oversized.
Oversized_Edge == <<128, 2049, 65536>>

\* The least code points of two, three and four bytes.
Oversized == <<128, 2048, 65536>>

\* The code point at place i, and the bytes it takes.
utf8ToCodepoint(s, i) ==
  LET first == s[i]
      more == CASE first < 224 -> 1 [] first \in 224..239 -> 2 [] OTHER -> 3
      lead == first % (CASE more = 1 -> 32 [] more = 2 -> 16 [] OTHER -> 8)
      cp == FoldLeft(LAMBDA c, k : c * 64 + (s[i + k] % 64), lead, [k \in 1..more |-> k])
  IN IF first < 128 THEN <<first, 1>>
     ELSE IF first >= 248 \/ i + more > Len(s) THEN <<REPLACEMENT_CHARACTER, 1>>
     ELSE <<IF cp < Oversized[more] \/ (more = 2 /\ cp \in 55296..57343) THEN REPLACEMENT_CHARACTER ELSE cp,
                     more + 1>>

-----------------------------------------------------------------------------
(* Strings *)

toHex16Bit(x) == [k \in 1..4 |-> LET d == (x \div 16 ^ (4 - k)) % 16 IN IF d < 10 THEN 48 + d ELSE 87 + d]
appendHex(x) == <<Backslash, 117>> \o toHex16Bit(x)

\* A code point as the writer puts it in a string.
Escaped(cp) ==
  CASE cp < 32 -> appendHex(cp)
    [] cp \in 32..127 -> <<cp>>
    [] cp \in 128..65535 -> appendHex(cp)
    [] OTHER -> appendHex(55296 + (((cp - 65536) \div 1024) % 1024)) \o appendHex(56320 + ((cp - 65536) % 1024))

doesAnyCharRequireEscaping(s) == \E i \in DOMAIN s : s[i] \in {Quote, Backslash} \/ s[i] < 32 \/ s[i] > 127

QuoteStep(s, y, i) ==
  LET esc == {e \in Escapes : e[1] = s[i]}
      cp == utf8ToCodepoint(s, i)
  IN IF esc # {} THEN [y EXCEPT !.text = @ \o <<Backslash, (CHOOSE e \in esc : TRUE)[2]>>, !.next = i + 1]
     ELSE [y EXCEPT !.text = @ \o Escaped(cp[1]), !.next = i + cp[2]]

\* emitUTF8 is false.
valueToQuotedStringN(s) ==
  IF ~doesAnyCharRequireEscaping(s) THEN <<Quote>> \o s \o <<Quote>>
  ELSE <<Quote>> \o Walk(LAMBDA y, i : QuoteStep(s, y, i), [text |-> <<>>, next |-> 1, ok |-> TRUE], 1, Len(s)).text
       \o <<Quote>>

\* The place after the string that begins before place i, 0 if it does not end.
readString(s, i) ==
  LET w == Walk(LAMBDA y, k : IF s[k] = Quote THEN [y EXCEPT !.ok = FALSE]
                              ELSE [y EXCEPT !.next = k + (IF s[k] = Backslash THEN 2 ELSE 1)],
                [next |-> i, ok |-> TRUE], i, Len(s))
  IN IF w.ok THEN 0 ELSE w.next + 1

HexValue(c) == CASE c \in 48..57 -> c - 48 [] c \in 97..102 -> c - 87 [] c \in 65..70 -> c - 55 [] OTHER -> -1

\* The four digits at place i, -1 if there are not four before the end.
decodeUnicodeEscapeSequence(s, i, end) ==
  IF end - i < 4 \/ \E k \in 0..3 : HexValue(s[i + k]) < 0 THEN -1
  ELSE FoldLeft(LAMBDA u, k : u * 16 + HexValue(s[i + k - 1]), 0, <<1, 2, 3, 4>>)

\* The code point escaped at place i (after the u) and the place after it.
decodeUnicodeCodePoint(s, i, end) ==
  LET u == decodeUnicodeEscapeSequence(s, i, end)
      low == decodeUnicodeEscapeSequence(s, i + 6, end)
  IN IF u \notin 55296..56319 THEN <<u, i + 4>>
     ELSE IF end - (i + 4) >= 6 /\ s[i + 4] = Backslash /\ s[i + 5] = 117 /\ low >= 0 THEN
            <<65536 + (u % 1024) * 1024 + (low % 1024), i + 10>>
     ELSE <<-1, i>>

StringStep(s, end, y, i) ==
  LET esc == {e \in Escapes \cup {<<47, 47>>} : e[2] = s[i + 1]}
      cp == decodeUnicodeCodePoint(s, i + 2, end)
  IN IF s[i] # Backslash THEN [y EXCEPT !.text = Append(@, s[i]), !.next = i + 1]
     ELSE IF i + 1 = end THEN [y EXCEPT !.ok = FALSE]
     ELSE IF esc # {} THEN [y EXCEPT !.text = Append(@, (CHOOSE e \in esc : TRUE)[1]), !.next = i + 2]
     ELSE IF s[i + 1] = 117 /\ cp[1] >= 0 THEN [y EXCEPT !.text = @ \o codePointToUTF8(cp[1]), !.next = cp[2]]
     ELSE [y EXCEPT !.ok = FALSE]

\* The characters of the string s, quotes included in s.
decodeString(s) ==
  Walk(LAMBDA y, i : StringStep(s, Len(s), y, i), [text |-> <<>>, next |-> 2, ok |-> TRUE], 2, Len(s) - 1)

\* A string of any code points is written in ASCII, ends where the reader looks
\* for its end, and is read back as it was.
StringRoundTrip(cps) ==
  LET s == FoldLeft(LAMBDA t, cp : t \o codePointToUTF8(cp), <<>>, cps)
      q == valueToQuotedStringN(s)
      d == decodeString(q)
  IN /\ \A i \in DOMAIN q : q[i] \in 32..127
     /\ readString(q \o <<44, Quote>>, 2) = Len(q) + 1
     /\ d.ok /\ d.text = s /\ d.next = Len(q)

-----------------------------------------------------------------------------
(* Numbers *)

minLargestInt == -maxLargestInt - 1
Minus == 45

\* Mutated form: the last digit of the largest number is not looked at.
LastDigit_Any(negative) == 9

\* The last digit of the largest number of that sign.
LastDigit(negative) == IF negative THEN (-minLargestInt) % 10 ELSE maxLargestUInt % 10

\* An integer, or the real number the text is read as if it does not fit.
decodeNumber(s) ==
  LET negative == s[1] = Minus
      from == IF negative THEN 2 ELSE 1
      threshold == IF negative THEN (-minLargestInt) \div 10 ELSE maxLargestUInt \div 10
      step(y, i) ==
        LET digit == s[i] - 48 IN
        IF \/ digit \notin 0..9
           \/ y.value >= threshold /\ (y.value > threshold \/ i < Len(s) \/ digit > LastDigit(negative))
        THEN [y EXCEPT !.ok = FALSE]
        ELSE [y EXCEPT !.value = @ * 10 + digit, !.next = i + 1]
      w == Walk(step, [value |-> 0, next |-> from, ok |-> TRUE], from, Len(s))
  IN IF ~w.ok THEN [type |-> "real", value |-> 0]
     ELSE IF negative THEN [type |-> "int", value |-> (-(w.value \div 10)) * 10 - (w.value % 10)]
     ELSE [type |-> IF w.value <= maxLargestInt THEN "int" ELSE "uint", value |-> w.value]

\* As many digits as the largest number needs.
uintToString(v) ==
  LET digits == CASE v < 10 -> 1 [] v \in 10..99 -> 2 [] OTHER -> 3
  IN [k \in 1..digits |-> 48 + ((v \div 10 ^ (digits - k)) % 10)]

valueToString(n) ==
  IF n.value = minLargestInt THEN <<Minus>> \o uintToString(maxLargestInt + 1)
  ELSE IF n.value < 0 THEN <<Minus>> \o uintToString(-n.value) ELSE uintToString(n.value)

\* A number of digits is read as the integer it is exactly if that fits into
\* the largest types, and is then written with the same value.
NumberIsExact(s) ==
  LET negative == s[1] = Minus
      digits == SelectSeq(s, LAMBDA c : c # Minus)
      abs == FoldLeft(LAMBDA v, c : v * 10 + c - 48, 0, digits)
      exact == IF negative THEN -abs ELSE abs
      n == decodeNumber(s)
  IN /\ n.type # "real" <=> exact \in minLargestInt..maxLargestUInt
     /\ n.type # "real" => n.value = exact /\ decodeNumber(valueToString(n)).value = exact
     /\ n.type = "uint" <=> exact \in maxLargestInt + 1..maxLargestUInt
=============================================================================
