------------------------------ MODULE LogText -------------------------------
(***************************************************************************)
(* The texts of fn_log (include/util/fn_log.h).  What it puts into a log line: *)
(* numbers, the date, and the pieces of a LogStream in a buffer of LOG_SIZE    *)
(* characters; characters are bytes, a double is a number of hundred-         *)
(* thousandths, time is in hours, Day of them a day.  And how it reads its     *)
(* configuration: Lex turns a line into a key and a value, ParseLogger,       *)
(* ParseChannel and ParseDevice turn lines into channels and devices.         *)
(***************************************************************************)
EXTENDS Integers, Sequences, SequencesExt, FiniteSetsExt

CONSTANTS
  LOG_SIZE,   \* 1000
  Reserve,    \* 30: the room that a number is given
  Day,        \* 24
  ChangeAt,   \* the moment at which the local clock is changed
  ChangeBy,   \* and by how much
  MAX_DEVICE_SIZE     \* of Channel

ASSUME LogTextAssumption ==
  /\ LOG_SIZE \in Nat /\ LOG_SIZE >= 2 /\ Reserve \in Nat \ {0}
  /\ Day \in Nat \ {0} /\ ChangeAt \in Int /\ ChangeBy \in Int

-----------------------------------------------------------------------------
(* Numbers *)

Pair(n) == <<48 + (n % 100) \div 10, 48 + (n % 10)>>
Pairs[n \in Nat] == IF n < 100 THEN 1 ELSE 1 + Pairs[n \div 100]
Zeros(n) == [k \in 1..Max({n, 0}) |-> 48]

\* Mutated form: the zero before an odd number of digits stays.
Stripped_Not(s) == s

\* The pairs begin with a zero if the number of digits is odd.
Stripped(s) == IF s[1] = 48 THEN Tail(s) ELSE s

write_dec_unsafe(wide, n) ==
  LET k == Pairs[n]
      s == Stripped(FlattenSeq([i \in 1..k |-> Pair(n \div (100 ^ (k - i)))]))
  IN Zeros(wide - Len(s)) \o s

\* The width of a negative number counts the sign.
write_dec_signed(wide, n) == IF n < 0 THEN <<45>> \o write_dec_unsafe(wide - 1, -n) ELSE write_dec_unsafe(wide, n)

HexDigit(d) == IF d < 10 THEN 48 + d ELSE 55 + d

\* The digits that the highest bit asks for; for 0, where __builtin_clzll is
\* undefined, none or one.
RealWide(n, none) == IF n = 0 THEN (IF none THEN 0 ELSE 1) ELSE Min({k \in 1..7 : n < 16 ^ k})

write_hex_unsafe(wide, n, none) ==
  LET w == Max({wide, RealWide(n, none)}) IN [i \in 1..w |-> HexDigit((n \div (16 ^ (w - i))) % 16)]

\* Four digits; from those of a positive number the zeros at the end are taken.
Fraction(negative, f) ==
  LET s == write_dec_unsafe(4, f)
      wide == Max({k \in 1..4 : k = 1 \/ s[k] # 48})
  IN IF negative THEN s ELSE SubSeq(s, 1, wide)

\* write_double_unsafe and write_float_unsafe, from a ten-thousandth on.
write_double_unsafe(n) ==
  LET m == IF n < 0 THEN -n ELSE n
      f == (m % 100000) \div 10
  IN (IF n < 0 THEN <<45>> ELSE <<>>) \o write_dec_unsafe(0, m \div 100000)
     \o (IF f > 0 THEN <<46>> \o Fraction(n < 0, f) ELSE <<>>)

Digit(c) == IF c >= 65 THEN c - 55 ELSE c - 48
ValueOf(base, s) == FoldLeft(LAMBDA v, c : base * v + Digit(c), 0, s)

\* A number is written in as few digits as its width allows and reads back as
\* itself, a double as its first four decimals.
NumberReadsBack(n) ==
  LET dec(w) == write_dec_unsafe(w, n)
      d == write_double_unsafe(-n)
      p == {i \in DOMAIN d : d[i] = 46}
      point == IF p = {} THEN Len(d) + 1 ELSE Max(p)
      e == write_double_unsafe(n)
  IN /\ \A w \in {0, 2, 4} : /\ ValueOf(10, dec(w)) = n
                             /\ Len(dec(w)) = Max({w, 1, Min({k \in 1..10 : k = 10 \/ n < 10 ^ k})})
                             /\ \A none \in BOOLEAN : ValueOf(16, write_hex_unsafe(w, n, none)) = n
     /\ n > 0 => write_dec_signed(3, -n) = <<45>> \o dec(2)
     /\ n >= 10 => /\ ValueOf(10, SubSeq(d, 2, point - 1)) = n \div 100000
                   /\ point <= Len(d) => ValueOf(10, SubSeq(d, point + 1, Len(d))) = (n % 100000) \div 10 /\ Len(d) = point + 4
                   /\ point > Len(d) => n % 100000 < 10
                   /\ IsPrefix(e, Tail(d)) /\ ToSet(SubSeq(d, Len(e) + 2, Len(d))) \subseteq {48}
                   /\ point <= Len(d) => Last(e) # 48

-----------------------------------------------------------------------------
(* The date.  A thread keeps the date of the last day and when it began. *)

Offset(t) == IF t < ChangeAt THEN 0 ELSE ChangeBy
NoDate == [date |-> 0, begin |-> 0, at |-> 0]

\* Mutated form: a clock that goes back is not noticed.
Expired_Never(day_second) == day_second >= Day

Expired(day_second) == day_second < 0 \/ day_second >= Day

\* The day, and its first hour by the clock as it is at t.
Renewed(t) == LET local == t + Offset(t) IN [date |-> local \div Day, begin |-> t - (local % Day), at |-> t]

\* The date and the hour printed for t.  The field at is when the date was cached.
write_date_unsafe(cache, t) ==
  LET c == IF Expired(t - cache.begin) THEN Renewed(t) ELSE cache
  IN [cache |-> c, date |-> c.date, hour |-> t - c.begin]

\* What a thread has printed at the first k of these times.
Prints(times) ==
  LET p[k \in 0..Len(times)] == IF k = 0 THEN [cache |-> NoDate, date |-> 0, hour |-> 0]
                                ELSE write_date_unsafe(p[k - 1].cache, times[k])
  IN p

\* What a thread prints at these times is the local time, by the clock as it was
\* when the thread last renewed its date, which was within a day: times that go
\* back and changes of the clock lead to no other.
DatesAreLocal(times) ==
  \A i \in DOMAIN times :
    LET p == Prints(times)[i] IN
    /\ p.date * Day + p.hour = times[i] + Offset(p.cache.at)
    /\ p.hour \in 0..Day - 1 /\ \E k \in 1..i : times[k] = p.cache.at
    /\ times[i] - p.cache.at \in -Day..Day

-----------------------------------------------------------------------------
(* The pieces of a line.  A stream is [text, len]: content_ as far as it was   *)
(* written, and content_len_, which LOG_FORMAT may move past the buffer.  A    *)
(* piece is [op, s].                                                          *)

Put1(x, s) == [text |-> x.text \o s, len |-> x.len + Len(s)]

write_buffer(x, s) ==
  IF s # <<>> /\ x.len < LOG_SIZE THEN Put1(x, SubSeq(s, 1, Min({Len(s), LOG_SIZE - x.len}))) ELSE x

\* Mutated form: only the end of the buffer is looked at.
HasRoom_End(x) == x.len <= LOG_SIZE

HasRoom(x) == x.len + Reserve <= LOG_SIZE

\* A number, a pointer or a double: all or nothing.
write_number(x, s) == IF HasRoom(x) THEN Put1(x, s) ELSE x

\* snprintf writes what there is room for and returns what it would have written.
LOG_FORMAT(x, s) == [text |-> x.text \o SubSeq(s, 1, Min({Len(s), Max({0, LOG_SIZE - x.len - 1})})),
                     len |-> x.len + Len(s)]

\* The line as PushChannel leaves it.
PushedLine(x) == SubSeq(x.text, 1, Min({x.len, LOG_SIZE - 2})) \o <<10>>

Piece1(x, p) == CASE p.op = "number" -> write_number(x, p.s)
                  [] p.op = "format" -> LOG_FORMAT(x, p.s)
                  [] OTHER -> write_buffer(x, p.s)

\* The stream after the first k pieces.
Streams(pieces) ==
  LET x[k \in 0..Len(pieces)] == IF k = 0 THEN [text |-> <<>>, len |-> 0] ELSE Piece1(x[k - 1], pieces[k])
  IN x

\* The pieces of which the stream took something.
Took(pieces) == {k \in DOMAIN pieces : Len(Streams(pieces)[k].text) > Len(Streams(pieces)[k - 1].text)}

\* What would be in the stream if it had room: the kept ones of the first k pieces.
Wholes(pieces) ==
  LET w[k \in 0..Len(pieces)] == IF k = 0 THEN <<>>
                                 ELSE IF k \in Took(pieces) THEN w[k - 1] \o pieces[k].s ELSE w[k - 1]
  IN w

\* Nothing is written past the buffer; the line is what was streamed, cut at the
\* end of the buffer and without the numbers for which there was no room: a
\* number is never cut.
LineHolds(pieces) ==
  LET n == Len(pieces)
      x == Streams(pieces)
      line == PushedLine(x[n])
  IN /\ Len(x[n].text) <= LOG_SIZE /\ Len(line) <= LOG_SIZE - 1 /\ Last(line) = 10
     /\ IsPrefix(Front(line), Wholes(pieces)[n])
     /\ \A k \in Took(pieces) : pieces[k].op = "number" => Len(x[k].text) < Len(line)
     /\ \A k \in DOMAIN pieces \ Took(pieces) : pieces[k].op = "text" /\ pieces[k].s # <<>> => Len(x[k].text) = LOG_SIZE

-----------------------------------------------------------------------------
(* Lex.  Characters are given by their class: "a" a lower-case letter that     *)
(* begins a reserved key, "A" any other character of a value, "_" a blank, "q" *)
(* a quote, "n" a line end, "0" the end of the text, "x" a character that is   *)
(* not allowed; "-", ":" and "#" are themselves.                              *)

Blank == {"_", "q"}
Ends == {"n", "0", "#"}

\* ParseReserve: the key with these first two letters and this length.
ParseReserve(first, second, len) ==
    IF len < 2 THEN "NULL"
    ELSE IF first = "c" /\ second = "h" THEN "CHANNEL"
    ELSE IF first = "c" /\ second = "a" THEN IF len > 8 THEN "CATEGORY_EXTEND" ELSE "CATEGORY"
    ELSE IF first = "d" /\ second = "e" THEN "DEVICE"
    ELSE IF first = "d" /\ second = "i" THEN "DISABLE"
    ELSE IF first = "p" /\ second = "r" THEN "PRIORITY"
    ELSE IF first = "p" /\ second = "a" THEN "PATH"
    ELSE IF first \in {"f", "h", "l", "r", "o", "s", "u"} THEN
            [f |-> "FILE", h |-> "HOT_UPDATE", l |-> "LIMIT_SIZE", r |-> "ROLLBACK",
             o |-> "OUT_TYPE", s |-> "SYNC", u |-> "UDP_ADDR"][first]
    ELSE "NULL"

\* The key of which only the class of its first letter is known.
KeyOf(s) == IF s.first = "a" THEN ParseReserve("f", "i", s.len) ELSE "NULL"

LexBegin == [block |-> "BLANK", type |-> "NULL", blank |-> 0, first |-> "", len |-> 0,
             val |-> 0, ret |-> "", taken |-> 0]

\* What the end of a key and of a value do to the block.
LexPre(s, ch) ==
    CASE s.block = "KEY" /\ ch # "a" ->
            [s EXCEPT !.block = "PRE_SEP", !.ret = IF KeyOf(s) = "NULL" THEN "ILLEGAL_KEY" ELSE ""]
      [] s.block = "VAL" /\ ch \in Ends \cup {"q"} -> [s EXCEPT !.block = "CLEAN"]
      [] OTHER -> s

\* The end of a line is right after a value or on a line without a key.
LexEnd(s, ch) ==
    IF ch \notin Ends \/ s.ret # "" THEN s
    ELSE IF s.block = "BLANK" THEN [s EXCEPT !.block = "CLEAN", !.type = "BLANK"]
    ELSE IF s.block = "CLEAN" THEN s
    ELSE [s EXCEPT !.ret = "NOT_CLOSURE"]

\* Mutated form: a separator may follow a blank key.
LexProc_AnySep(s, ch) ==
    CASE ch = ":" -> [s EXCEPT !.block = "PRE_VAL"]
      [] ch \in Blank -> IF s.block = "BLANK" THEN [s EXCEPT !.blank = @ + 1] ELSE s
      [] ch = "n" -> [s EXCEPT !.ret = "NONE"]
      [] ch = "0" -> [s EXCEPT !.ret = "NONE"]
      [] ch \in {"a", "A"} -> IF s.block = "PRE_VAL" THEN [s EXCEPT !.block = "VAL", !.val = s.taken] ELSE s
      [] OTHER -> s

\* The character itself.
LexProc(s, ch) ==
    IF ch \in Blank THEN IF s.block = "BLANK" THEN [s EXCEPT !.blank = @ + 1] ELSE s
    ELSE IF ch = "n" THEN [s EXCEPT !.ret = "NONE"]
    ELSE IF ch = "0" THEN IF s.type # "BLANK" THEN [s EXCEPT !.ret = "NONE", !.taken = @ - 1]
                     ELSE [s EXCEPT !.ret = "NONE", !.type = "EOF"]
    ELSE IF ch = "-" /\ s.block = "BLANK" THEN [s EXCEPT !.block = "PRE_KEY", !.type = "ARRAY"]
    ELSE IF ch = ":" /\ s.block = "PRE_SEP" THEN [s EXCEPT !.block = "PRE_VAL"]
    ELSE IF ch \in {"-", ":"} /\ s.block # "VAL" THEN [s EXCEPT !.ret = "ILLEGAL_CHARACTER"]
    ELSE IF ch \in {"a", "A"} /\ s.block \in {"BLANK", "PRE_KEY"} THEN
            [s EXCEPT !.block = "KEY", !.first = ch, !.len = 1]
    ELSE IF ch \in {"a", "A"} /\ s.block = "KEY" THEN [s EXCEPT !.len = @ + 1]
    ELSE IF ch \in {"a", "A"} /\ s.block = "PRE_VAL" THEN [s EXCEPT !.block = "VAL", !.val = s.taken]
    ELSE IF ch \in {"a", "A"} /\ s.block = "PRE_SEP" THEN [s EXCEPT !.ret = "ILLEGAL_CHARACTER"]
    ELSE IF ch = "x" /\ s.block # "CLEAN" THEN [s EXCEPT !.ret = "ILLEGAL_CHARACTER"]
    ELSE s

LexChar(s, ch) ==
    LET t == [s EXCEPT !.taken = @ + 1]
        e == LexEnd(LexPre(t, ch), ch)
    IN IF s.ret # "" THEN s
       ELSE IF s.block = "CLEAN" /\ ch \notin {"n", "0"} THEN t
       ELSE IF e.ret # "" THEN e ELSE LexProc(e, ch)

\* Lex, on the text from its current position on.
Lex(text) == FoldLeft(LexChar, LexBegin, text)

-----------------------------------------------------------------------------
(* The grammar Lex is to accept, without reference to how it works *)

All(s, a, b, set) == \A i \in a .. b : s[i] \in set
IsComment(s, a) == a > Len(s) \/ s[a] = "#"

\* A line that says nothing: blanks and a comment.
NoEntry(s) == \E a \in 1 .. Len(s) + 1 : All(s, 1, a - 1, Blank) /\ IsComment(s, a)

\* blanks [-] blanks key blanks : blanks value [comment or quote and anything]:
\* the key from k to m, the separator at c, the value from v to w.
Indent(s, k) ==
    \E d \in 1 .. k : All(s, 1, d - 1, Blank) /\ All(s, d + 1, k - 1, Blank) /\ (d = k \/ s[d] = "-")
IsEntry(s) ==
    \E k \in 1 .. Len(s), c \in {i \in 1 .. Len(s) : s[i] = ":"} :
        /\ Indent(s, k)
        /\ \E m \in k + 1 .. c - 1 : All(s, k, m, {"a"}) /\ All(s, m + 1, c - 1, Blank)
        /\ \E v \in c + 1 .. Len(s) :
              /\ s[v] \in {"a", "A"} /\ All(s, c + 1, v - 1, Blank)
              /\ \E w \in v .. Len(s) : All(s, v, w, {"a", "A", "-", ":", "_"})
                                       /\ (w = Len(s) \/ s[w + 1] \in {"#", "q"})

\* Lex accepts exactly the lines that are empty, a comment, or one key with one
\* value, and finds the indentation and the beginning of the value.
LexAcceptsLines(s) ==
    LET r == Lex(Append(s, "n"))
    IN /\ r.ret # ""
       /\ r.ret = "NONE" <=> (NoEntry(s) \/ IsEntry(s))
       /\ r.ret = "NONE" => (r.type = "BLANK" <=> NoEntry(s)) /\ r.taken = Len(s) + 1
       /\ r.ret = "NONE" /\ r.type # "BLANK" =>
            /\ s[r.val] \in {"a", "A"} /\ All(s, 1, r.blank, Blank) /\ s[r.blank + 1] \notin Blank
            /\ Lex(Append(s, "0")).ret = "NONE" /\ Lex(Append(s, "0")).taken = Len(s)

-----------------------------------------------------------------------------
(* ParseLogger, ParseChannel, ParseDevice: a line is [blank, array, key, val] *)

\* The nested loops of the three functions: the channel and the device being
\* read end with the first line that is not indented more than their own.
ParseBegin == [hot_update |-> FALSE, channels |-> <<>>, mode |-> "logger", cblank |-> 0, dblank |-> 0, ret |-> "NONE"]

\* Mutated form: a device ends only with a line that is indented less.
ModeOf_Loose(p, line) ==
    IF p.mode = "device" /\ line.blank >= p.dblank THEN "device"
    ELSE IF p.mode # "logger" /\ line.blank > p.cblank THEN "channel"
    ELSE "logger"

ModeOf(p, line) ==
    IF p.mode = "device" /\ line.blank > p.dblank THEN "device"
    ELSE IF p.mode # "logger" /\ line.blank > p.cblank THEN "channel"
    ELSE "logger"

ParseDeviceLine(p, line) ==
    LET c == Len(p.channels)
        d == Len(p.channels[c].devices)
    IN IF line.key = "OUT_TYPE" /\ line.val = 0 THEN [p EXCEPT !.ret = "UNDEFINED_DEVICE_TYPE"]
       ELSE IF line.key \in {"OUT_TYPE", "PRIORITY"} THEN
                [p EXCEPT !.channels[c].devices[d][line.key] = line.val]
       ELSE [p EXCEPT !.ret = "UNDEFINED_DEVICE_KEY"]

ParseChannelLine(p, line) ==
    LET c == Len(p.channels)
        size == Len(p.channels[c].devices)
    IN IF line.key = "PRIORITY" THEN [p EXCEPT !.channels[c].PRIORITY = line.val]
       ELSE IF line.key # "DEVICE" THEN [p EXCEPT !.ret = "UNDEFINED_CHANNEL_KEY"]
       ELSE IF ~line.array THEN [p EXCEPT !.ret = "DEVICE_NOT_ARRAY"]
       ELSE IF size >= MAX_DEVICE_SIZE THEN [p EXCEPT !.ret = "DEVICE_INDEX_OUT_MAX"]
       ELSE IF line.val # size THEN [p EXCEPT !.ret = "DEVICE_INDEX_NOT_SEQUENCE"]
       ELSE [p EXCEPT !.channels[c].devices = Append(@, [OUT_TYPE |-> 0, PRIORITY |-> 0]),
                     !.mode = "device", !.dblank = line.blank]

ParseLoggerLine(p, line) ==
    IF line.key = "HOT_UPDATE" THEN [p EXCEPT !.hot_update = line.val # 0]
    ELSE IF line.key # "CHANNEL" THEN [p EXCEPT !.ret = "UNDEFINED_GLOBAL_KEY"]
    ELSE IF ~line.array THEN [p EXCEPT !.ret = "CHANNEL_NOT_ARRAY"]
    ELSE IF line.val # Len(p.channels) THEN [p EXCEPT !.ret = "CHANNEL_INDEX_NOT_SEQUENCE"]
    ELSE [p EXCEPT !.channels = Append(@, [PRIORITY |-> 0, devices |-> <<>>]),
                  !.mode = "channel", !.cblank = line.blank]

ParseLine(p, line) ==
    LET q == [p EXCEPT !.mode = ModeOf(p, line)]
    IN IF p.ret # "NONE" THEN p
       ELSE CASE q.mode = "device" -> ParseDeviceLine(q, line)
              [] q.mode = "channel" -> ParseChannelLine(q, line)
              [] OTHER -> ParseLoggerLine(q, line)

\* ParseLogger, on a text whose lines Lex accepts; blank lines are passed over.
ParseLogger(lines) ==
    LET p == FoldLeft(ParseLine, ParseBegin, lines)
    IN IF p.ret = "NONE" /\ p.channels = <<>> THEN [p EXCEPT !.ret = "NO_ANY_CHANNEL"] ELSE p

-----------------------------------------------------------------------------
(* The same by indentation: a line belongs to the headers it is under *)

Heads(lines, i, key) ==
    {h \in 1 .. i - 1 : lines[h].key = key /\ lines[h].array /\ \A j \in h + 1 .. i : lines[j].blank > lines[h].blank}

\* The configuration is accepted exactly if every line is one that the headers
\* it is indented under may hold, and channels and devices are numbered from 0
\* in order; then there is one channel and one device per header.
ConfigByIndent(lines) ==
    LET chan(i) == Heads(lines, i, "CHANNEL")
        devs(i) == Heads(lines, i, "DEVICE")
        before(i, key) == Cardinality({h \in 1 .. i - 1 : lines[h].key = key})
        right(i) ==
            CASE chan(i) = {} ->
                    \/ lines[i].key = "HOT_UPDATE"
                    \/ lines[i].key = "CHANNEL" /\ lines[i].array /\ lines[i].val = before(i, "CHANNEL")
              [] chan(i) # {} /\ devs(i) = {} ->
                    \/ lines[i].key = "PRIORITY"
                    \/ /\ lines[i].key = "DEVICE" /\ lines[i].array
                       /\ LET size == Cardinality({h \in 1 .. i - 1 : lines[h].key = "DEVICE" /\ chan(h) = chan(i)})
                          IN lines[i].val = size /\ size < MAX_DEVICE_SIZE
              [] OTHER -> lines[i].key = "PRIORITY" \/ (lines[i].key = "OUT_TYPE" /\ lines[i].val # 0)
        p == ParseLogger(lines)
    IN /\ p.ret = "NONE" <=> (before(Len(lines) + 1, "CHANNEL") > 0 /\ \A i \in DOMAIN lines : right(i))
       /\ p.ret = "NONE" =>
            /\ Len(p.channels) = before(Len(lines) + 1, "CHANNEL")
            /\ FoldLeft(LAMBDA n, c : n + Len(c.devices), 0, p.channels) = before(Len(lines) + 1, "DEVICE")
=============================================================================
