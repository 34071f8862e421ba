------------------------------ MODULE MCParsers -----------------------------
(***************************************************************************)
(* The pure algorithms, each on every input up to a bound: fn_log's           *)
(* configuration lines and log lines, http_parser, JsonCpp's texts, documents and values.   *)
(* An input grows by one item at a time; the parser's two runs, on whole      *)
(* reads and on single units, grow together.  kind tells what the input is.   *)
(***************************************************************************)
EXTENDS LogText, HttpParser, JsonText, JsonDoc, JsonValue, Codec

CONSTANTS MaxChars, MaxLines, MaxUrl, MaxPieces, MaxPoints, MaxDigits, MaxTokens, MaxNumber, MaxLogs, MaxStreamed, MaxData, MaxBytes, MaxSplit

VARIABLES kind, text, whole, single

vars == <<kind, text, whole, single, vvars>>

\* Lines of a configuration: headers in and out of order and at several depths.
Line(blank, array, key, v) == [blank |-> blank, array |-> array, key |-> key, val |-> v]
Lines == {Line(b, TRUE, k, v) : b \in {0, 2, 4}, k \in {"CHANNEL", "DEVICE"}, v \in {0, 1}}
         \cup {Line(b, FALSE, "PRIORITY", 1) : b \in {0, 2, 4}}
         \cup {Line(2, FALSE, "DEVICE", 0), Line(6, FALSE, "OUT_TYPE", 0),
               Line(4, FALSE, "OUT_TYPE", 1), Line(0, FALSE, "HOT_UPDATE", 1)}

\* Reads: first lines, headers, bodies and chunks, whole or broken.
Pieces ==
  {<<"G","_","/","_","V1","R","N">>, <<"CON","_","a",":","1","_","V1","R","N">>,
   <<"G","_","g",":","/","/","a","@","g","/","_","V0","N">>, <<"V1","_","S2","_","g","R","N">>,
   <<"V1","_","S1","R","N">>, <<"V0","_","S4","_","N">>, <<"G","_","/","R","N">>,
   <<"c","l",":","_","2","R","N">>, <<"c","l",":","1","9","_","N">>, <<"c","l",":","9","9","R","N">>,
   <<"c","l",":","R","N","_","1","N">>, <<"_","1","R","N">>, <<"t","e",":","c","d","R","N">>,
   <<"t","e",":","g",",","_","c","d","R","N">>, <<"t","e",":","c","d",",","g","N">>,
   <<"c","n",":","k","a",",","u","g","R","N">>, <<"c","n",":","c","s","R","N">>, <<"u","g",":","g","R","N">>,
   <<"a","g",":","R","N">>, <<"a","g","g","g","g","g","g","g","g",":","g","g","g","g","g","g","R","N">>,
   <<"a",":","g","^","R","N">>, <<"R","N">>, <<"N">>, <<"g">>, <<"g","g","G","_","/","N">>,
   <<"2","R","N","g","g","R","N">>, <<"1",";","g","R","N","g","R","N","0","R","N">>, <<"2","R","N","g">>,
   <<"0","R","N","R","N">>, <<"c","l",":","0","R","N","R","N">>}

\* Code points at the edges of their encodings and of the escapes.
Points == {0, 8, 31, 32, 34, 47, 92, 97, 117, 127, 128, 2047, 2048, 55295, 57344, 65533, 65535, 65536, 66560, 1114111}

\* Every number of every type, the doubles past the ends and some halves.
Numbers == {Scalar("int", 2 * n) : n \in minInt64..maxInt64} \cup {Scalar("uint", 2 * n) : n \in 0..maxUInt64}
           \cup {Scalar("real", h) : h \in {Double(n) : n \in 2 * minInt64..2 * maxUInt64}}
           \cup {Scalar("real", h) : h \in {-9, -7, -1, 1, 3, 7, 9, 15}}
Others == {[t |-> "string", h |-> 0, s |-> s, map |-> <<>>] : s \in {<<>>, <<1>>, <<2>>, <<1, 1>>}}
          \cup {Array(m) : m \in UNION {[D -> Stored] : D \in SUBSET (0..1)}}
          \cup {NullValue, Scalar("boolean", 0), Scalar("boolean", 2)}
Values == Others \cup {Scalar("int", -2), Scalar("int", 2), Scalar("uint", 2), Scalar("real", 1), Scalar("real", 2)}

\* Numbers up to MaxNumber and at the ends of their digits.
LogValues == 0..MaxNumber \cup {n + d : n \in {9999, 10 ^ 5, 10 ^ 6, 65536, 4 * 10 ^ 5, 123456 * 1000, 2 ^ 24}, d \in {-1, 0, 1, 10}}

\* What is streamed: texts of several lengths, a number as long as the longest
\* is in the code's room, a short one.
Streamed == {[op |-> "text", s |-> [k \in 1..n |-> 97]] : n \in {0, 1, 3, LOG_SIZE}}
            \cup {[op |-> "number", s |-> [k \in 1..n |-> 49]] : n \in {1, Reserve - 2}}

Absolute == <<"g", ":", "/", "/">>

MCInit ==
  /\ \/ kind \in {"lex", "yaml", "url", "http", "string", "number", "doc", "value", "logdate", "logline", "ldbd", "base64", "crc", "split"} /\ text = <<>>
     \/ kind = "url" /\ text \in {Absolute, Absolute \o <<"[", "a", "%">>}
     \/ kind = "convert" /\ text \in {<<v>> : v \in Numbers \cup Others}
     \/ kind = "compare" /\ text \in Values \X Values \X Values
     \/ kind = "lognumber" /\ text \in {<<n>> : n \in LogValues}
  /\ whole = http_parser_init /\ single = http_parser_init
  /\ ValueInit

\* One more character, line, code point, digit or token.
Grow(k, max, items) == kind = k /\ Len(text) < max /\ \E c \in items : text' = Append(text, c)

\* A document grows only while what it begins with may still be one.
Open == text = <<>> \/ \E r \in {parse(text)} : r.ok \/ (~r.st.throw /\ Len(text) + 1 \in r.st.errs)

MoreText ==
  /\ \/ Grow("lex", MaxChars, {"a", "A", "-", ":", "_", "q", "#", "x"})
     \/ Grow("yaml", MaxLines, Lines)
     \/ Grow("url", IF Len(text) > 3 /\ SubSeq(text, 1, 4) = Absolute THEN MaxUrl + 4 ELSE MaxUrl,
             {"a", "g", "0", "1", "/", ":", "?", "#", "@", "[", "]", "%", "=", "*", "_", "."})
     \/ Grow("string", MaxPoints, Points)
     \/ Grow("number", MaxDigits, IF text = <<>> THEN {45} \cup 48..57 ELSE 48..57)
     \/ kind = "doc" /\ Open /\ Grow("doc", MaxTokens, {"{", "}", "[", "]", ",", ":", "a", "b", "q", "1", "x", "N", "C", "L"})
     \/ Grow("logdate", MaxLogs, Day..5 * Day)
     \/ /\ kind = "logline" /\ (text # <<>> => Last(text).op # "format")
        /\ Grow("logline", MaxStreamed, Streamed \cup {[p EXCEPT !.op = "format"] : p \in Streamed})
     \/ Grow("ldbd", MaxData, {1})
     \/ Grow("base64", MaxBytes, {0, 1, 63, 64, 170, 255})
     \/ Grow("crc", MaxBytes - 2, {0, 1, 90, 128, 255})
     \/ Grow("split", MaxSplit, {"a", "b", "_"})
  /\ UNCHANGED <<kind, whole, single, vvars>>

Read1(q, piece) == FoldLeft(LAMBDA r, ch : http_parser_execute(r, <<ch>>), q, piece)

MoreReads ==
  /\ kind = "http" /\ Len(text) < MaxPieces /\ whole.errno = "OK" /\ text' = Append(text, "")
  /\ \/ \E p \in Pieces : whole' = http_parser_execute(whole, p) /\ single' = Read1(single, p)
     \/ Len(text) = MaxPieces - 1 /\ whole' = http_parser_eof(whole) /\ single' = http_parser_eof(single)
  /\ UNCHANGED <<kind, vvars>>

MoreCalls == kind = "value" /\ ValueNext /\ UNCHANGED <<kind, text, whole, single>>

MCNext == MoreText \/ MoreReads \/ MoreCalls
MCSpec == MCInit /\ [][MCNext]_vars

-----------------------------------------------------------------------------
\* fn_log's Lex on every line of up to MaxChars characters: it accepts exactly
\* the lines of its grammar and finds the indentation and the value.
LexLines == kind = "lex" => LexAcceptsLines(text)

\* fn_log's ParseLogger on every configuration of up to MaxLines lines: it
\* builds the channels and the devices that the indentation shows.
ConfigLines == kind = "yaml" => ConfigByIndent(text)

\* fn_log's write_dec_unsafe, write_hex_unsafe and write_double_unsafe: what they
\* write reads back as the number.
LogNumbers == kind = "lognumber" => NumberReadsBack(text[1])

\* fn_log's write_date_unsafe on every sequence of times: the cached day is never
\* a wrong one.
LogDates == kind = "logdate" => DatesAreLocal(text)

\* LogStream and PushChannel on every sequence of pieces: no write leaves the
\* buffer and no number is cut.
LogLines == kind = "logline" => LineHolds(text)

\* http_parser_parse_url on every text: fields are what the delimiters enclose.
UrlFields == kind = "url" => UrlBetweenDelimiters(text)

\* http_parser_execute: where the reads end does not matter.
ReadsDoNotMatter == SplitIndependent(whole, single)

\* http_parser_execute: the body of a message is the one its headers announce.
BodyAsAnnounced == FramedAsDeclared(whole)

\* JsonCpp: a string that is written and read again is the same string.
StringsSurvive == kind = "string" => StringRoundTrip(text)

\* JsonCpp: integers at the limits of their types are read and written exactly.
NumbersSurvive == kind = "number" /\ text \notin {<<>>, <<45>>} => NumberIsExact(text)

\* JsonCpp: what the reader accepts is JSON, with its depth limited.
DocumentsAccepted == kind = "doc" => AcceptsJson(text)

\* JsonCpp: writing what was read, comments included, and reading it again gives
\* the same value.
DocumentsSurvive == kind = "doc" => RewriteKeepsValue(text)

\* JsonCpp: isX, asX and isConvertibleTo agree on every number and type.
ConversionsOf == kind = "convert" => ConversionsAgree(text[1])

\* JsonCpp: operator<, operator== and compare are one total order.
OrderOf == kind = "compare" => ComparesInOrder(text[1], text[2], text[3])

\* ldbd: a packet of every size is read back whole or not at all.
PacketsWhole == kind = "ldbd" => LdbdWhole(text)

\* base64: every string of up to MaxBytes bytes survives.
BytesSurvive == kind = "base64" => Base64Survives(text)

\* lidig_crc::crc16 with the multinomials of Modbus and of CCITT.
ErrorsCaught == kind = "crc" => CrcCatches(text, 40961) /\ CrcCatches(text, 33800)

\* lidig_crc::split: the pieces make up the text again.
PiecesRejoin ==
  kind = "split" => \A d \in {<<"_">>, <<"a", "_">>, <<"a", "b">>, <<"a", "a", "b">>, <<"a", "a">>} : SplitRejoins(text, d)

\* fn_log's texts: its configuration is read as it is indented, and its lines hold
\* what was logged.
LoggerTexts == LexLines /\ ConfigLines /\ LogNumbers /\ LogDates /\ LogLines

\* http_parser: messages, bodies and addresses are found whatever the reads.
HttpTexts == ReadsDoNotMatter /\ BodyAsAnnounced /\ UrlFields

\* JsonCpp: texts survive writing and reading, values convert and compare
\* consistently, and an array used in order has no holes.
JsonSurvives == /\ StringsSurvive /\ NumbersSurvive /\ DocumentsAccepted /\ DocumentsSurvive
                /\ ConversionsOf /\ OrderOf /\ WholeWhenUsedInOrder

\* ldbd, base64, crc16 and split undo or detect what they should.
CodecsAgree == PacketsWhole /\ BytesSurvive /\ ErrorsCaught /\ PiecesRejoin
=============================================================================
