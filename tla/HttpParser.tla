----------------------------- MODULE HttpParser -----------------------------
(***************************************************************************)
(* http_parser_execute (util/http_parser.cpp), strict and not lenient, with  *)
(* callbacks that return 0.  A read is a sequence of units.  "G" is the name *)
(* of a method, "CON" that of CONNECT, "V0" and "V1" are HTTP/1.0 and        *)
(* HTTP/1.1, "S1", "S2" and "S4" the status codes 101, 200 and 204; any other *)
(* unit is a character: "R" and "N" end lines, "_" is a blank, "^" one that   *)
(* no header may hold, the others are themselves.  The words that the header *)
(* states match are spelled in two letters.                                  *)
(***************************************************************************)
EXTENDS HttpUrl, FiniteSetsExt

CONSTANTS
  ULLONG_MAX,       \* the largest content length: one less than a power of 2
  max_header_size

Eol == {"R", "N"}
Num == ("0" :> 0) @@ ("1" :> 1) @@ ("2" :> 2) @@ ("9" :> 9)
Hex == Num @@ ("a" :> 10) @@ ("c" :> 12) @@ ("d" :> 13) @@ ("e" :> 14)
Token == DOMAIN Hex \cup {"g", "k", "l", "n", "s", "t", "u"}

Word == [connection |-> <<"c", "n">>, content_length |-> <<"c", "l">>,
         transfer_encoding |-> <<"t", "e">>, upgrade |-> <<"u", "g">>,
         chunked |-> <<"c", "d">>, keep_alive |-> <<"k", "a">>, close |-> <<"c", "s">>]

\* What the parser keeps between reads; out holds the callbacks it has made.
http_parser_init ==
  [state |-> "start_req_or_res", h |-> "general", index |-> 0, flags |-> {}, length |-> ULLONG_MAX,
   nread |-> 0, type |-> "BOTH", method |-> "", minor |-> 0, status |-> "", upgrade |-> FALSE,
   errno |-> "OK", out |-> <<>>]

\* A data callback for an element that the callback before it began continues it.
Data == {"url", "status", "header_field", "header_value", "body"}
Call(q, cb, text) ==
  LET n == Len(q.out) IN
  IF cb \in Data /\ n > 0 /\ q.out[n].cb = cb
  THEN [q EXCEPT !.out[n].text = @ \o text]
  ELSE [q EXCEPT !.out = Append(@, [cb |-> cb, text |-> text])]

-----------------------------------------------------------------------------
(* Functions of the parser's flags *)

http_message_needs_eof(q) ==
  /\ q.type = "RESPONSE" /\ q.status \notin {"S1", "S4"}
  /\ "CHUNKED" \notin q.flags
  /\ "TRANSFER_ENCODING" \in q.flags \/ q.length = ULLONG_MAX

http_should_keep_alive(q) ==
  /\ IF q.minor > 0 THEN "close" \notin q.flags ELSE "keep_alive" \in q.flags
  /\ ~http_message_needs_eof(q)

NEW_MESSAGE(q) == IF http_should_keep_alive(q) THEN "start_req_or_res" ELSE "dead"

-----------------------------------------------------------------------------
(* header_states *)

\* One more letter of the word w: the state if it fails, if it is complete.
Matching(q, w, ch, fail, done) ==
  LET i == q.index + 1 IN
  [q EXCEPT !.index = i, !.h = IF i >= Len(Word[w]) \/ ch # Word[w][i + 1] THEN fail
                               ELSE IF i = Len(Word[w]) - 1 THEN done ELSE @]

\* The first letter of a header's name.
FieldStart(q, ch) ==
  [q EXCEPT !.state = "header_field", !.index = 0,
            !.h = CASE ch = "c" -> "C" [] ch = "t" -> "m_transfer_encoding"
                    [] ch = "u" -> "m_upgrade" [] OTHER -> "general"]

\* The next one.
FieldChar(q, ch) ==
  CASE q.h = "C" -> IF ch = "n" THEN Matching(q, "connection", ch, "general", "connection")
                    ELSE Matching(q, "content_length", ch, "general", "content_length")
    [] q.h = "m_transfer_encoding" ->
         LET r == Matching(q, "transfer_encoding", ch, "general", "transfer_encoding")
         IN IF r.h = "transfer_encoding" THEN [r EXCEPT !.flags = @ \cup {"TRANSFER_ENCODING"}] ELSE r
    [] q.h = "m_upgrade" -> Matching(q, "upgrade", ch, "general", "upgrade")
    [] OTHER -> [q EXCEPT !.h = "general"]

\* The first character of a value, or of its next line.
ConnectionToken(ch, other) ==
  CASE ch = "k" -> "m_keep_alive" [] ch = "c" -> "m_close" [] ch = "u" -> "m_c_upgrade" [] OTHER -> other

ValueStart(q, ch) ==
  LET r == [q EXCEPT !.state = "header_value", !.index = 0] IN
  CASE q.h = "upgrade" -> [r EXCEPT !.flags = @ \cup {"UPGRADE"}, !.h = "general"]
    [] q.h = "transfer_encoding" -> [r EXCEPT !.h = IF ch = "c" THEN "m_chunked" ELSE "te_token"]
    [] q.h = "content_length" ->
         IF ch \notin DOMAIN Num THEN [r EXCEPT !.errno = "INVALID_CONTENT_LENGTH"]
         ELSE IF "CONTENTLENGTH" \in q.flags THEN [r EXCEPT !.errno = "UNEXPECTED_CONTENT_LENGTH"]
         ELSE [r EXCEPT !.flags = @ \cup {"CONTENTLENGTH"}, !.length = Num[ch], !.h = "content_length_num"]
    [] q.h = "connection" -> [r EXCEPT !.h = ConnectionToken(ch, "c_token")]
    [] q.h \in {"te_token_start", "content_length_ws", "c_token_start"} -> r
    [] OTHER -> [r EXCEPT !.h = "general"]

\* Mutated form: the limit is tested on the new length.
Times_Late(q, ch, base) ==
  LET new == (q.length * base + Hex[ch]) % (ULLONG_MAX + 1) IN
  IF new > ULLONG_MAX THEN [q EXCEPT !.errno = "INVALID_CONTENT_LENGTH"]
  ELSE [q EXCEPT !.length = new]

\* One more digit of a length.
Times(q, ch, base) ==
  IF q.length > (ULLONG_MAX - base) \div base THEN [q EXCEPT !.errno = "INVALID_CONTENT_LENGTH"]
  ELSE [q EXCEPT !.length = (q.length * base + Hex[ch]) % (ULLONG_MAX + 1)]

\* The next character of a value.
ValueChar(q, ch) ==
  LET to(h) == [q EXCEPT !.h = h]
      again(h) == [q EXCEPT !.h = h, !.index = 0]
  IN IF q.errno # "OK" THEN q
     ELSE IF q.h = "general" THEN q
     ELSE IF q.h = "content_length_num" /\ ch = "_" THEN to("content_length_ws")
     ELSE IF q.h = "content_length_num" /\ ch \in DOMAIN Num THEN Times(q, ch, 10)
     ELSE IF q.h = "content_length_ws" /\ ch = "_" THEN q
     ELSE IF q.h \in {"content_length_num", "content_length_ws"} THEN [q EXCEPT !.errno = "INVALID_CONTENT_LENGTH"]
     ELSE IF q.h = "te_token_start" THEN IF ch = "c" THEN to("m_chunked") ELSE IF ch \in Token THEN to("te_token")
                                    ELSE IF ch = "_" THEN q ELSE to("general")
     ELSE IF q.h = "m_chunked" THEN Matching(q, "chunked", ch, "te_token", "chunked")
     ELSE IF q.h = "te_token" THEN IF ch = "," THEN again("te_token_start") ELSE q
     ELSE IF q.h = "chunked" THEN IF ch = "_" THEN q ELSE to("te_token")
     ELSE IF q.h = "c_token_start" THEN IF ch = "_" THEN q
                                   ELSE to(ConnectionToken(ch, IF ch \in Token THEN "c_token" ELSE "general"))
     ELSE IF q.h = "m_keep_alive" THEN Matching(q, "keep_alive", ch, "c_token", "keep_alive")
     ELSE IF q.h = "m_close" THEN Matching(q, "close", ch, "c_token", "close")
     ELSE IF q.h = "m_c_upgrade" THEN Matching(q, "upgrade", ch, "c_token", "c_upgrade")
     ELSE IF q.h = "c_token" THEN IF ch = "," THEN again("c_token_start") ELSE q
     ELSE IF q.h \in {"keep_alive", "close", "c_upgrade"} THEN
            CASE ch = "," -> [again("c_token_start") EXCEPT !.flags = @ \cup {q.h}]
              [] ch = "_" -> q
              [] OTHER -> to("c_token")
     ELSE to("general")

\* The end of a header: what its value says.
HeaderFlags(q) ==
  CASE q.h \in {"keep_alive", "close", "c_upgrade"} -> [q EXCEPT !.flags = @ \cup {q.h}]
    [] q.h = "chunked" -> [q EXCEPT !.flags = @ \cup {"CHUNKED"}]
    [] OTHER -> q

-----------------------------------------------------------------------------
(* One read.  x is [q, mark, from, next]: the parser, the element at hand and *)
(* its first place in the read, and the next place to look at.               *)

UrlStates == {"schema", "schema_slash", "schema_slash_slash", "server_start", "server", "server_with_at",
              "path", "query_string_start", "query_string", "fragment_start", "fragment"}

\* Mutated form: a read that begins after the @ of a URL sets no mark.
MarkAtStart_NoAt(state) ==
  CASE state \in {"header_field", "header_value"} -> state
    [] state \in UrlStates \ {"server_with_at"} -> "url"
    [] state = "res_status" -> "status"
    [] OTHER -> ""

\* The element that goes on at the beginning of a read.
MarkAtStart(state) ==
  CASE state \in {"header_field", "header_value"} -> state
    [] state \in UrlStates -> "url"
    [] state = "res_status" -> "status"
    [] OTHER -> ""

MARK(x, cb, i) == IF x.mark = "" THEN [x EXCEPT !.mark = cb, !.from = i] ELSE x
To(x, state) == [x EXCEPT !.q.state = state]
Error(x, errno) == [x EXCEPT !.q.errno = errno]
Notify(x, cb) == [x EXCEPT !.q = Call(@, cb, <<>>)]

\* The element at hand ends before place i.
CALLBACK_DATA(x, d, i) ==
  IF x.mark = "" THEN x ELSE [x EXCEPT !.q = Call(@, x.mark, SubSeq(d, x.from, i - 1)), !.mark = ""]

COUNT_HEADER_SIZE(x, n) ==
  LET y == [x EXCEPT !.q.nread = @ + n] IN
  IF y.q.nread > max_header_size THEN Error(y, "HEADER_OVERFLOW") ELSE y

Complete(x) == Notify(To(x, NEW_MESSAGE(x.q)), "message_complete")

\* The rest of the read is in another protocol.
Upgraded(x) == [Complete(x) EXCEPT !.q.errno = "UPGRADED"]

\* The beginning of a message and its first line.
StartLine(x, ch) ==
  LET y == [x EXCEPT !.q.flags = {}, !.q.length = ULLONG_MAX] IN
  CASE ch \in Eol -> x
    [] ch \in {"V0", "V1"} ->
         Notify([To(y, "res_http_end") EXCEPT !.q.type = "RESPONSE", !.q.minor = IF ch = "V1" THEN 1 ELSE 0],
                "message_begin")
    [] ch \in {"G", "CON"} ->
         Notify([To(y, "req_method") EXCEPT !.q.type = "REQUEST", !.q.method = ch], "message_begin")
    [] OTHER -> Error(y, "INVALID_METHOD")

ResponseLine(x, d, i) ==
  LET ch == d[i]
      s == x.q.state
  IN IF s = "res_http_end" THEN IF ch = "_" THEN To(x, "res_first_status_code") ELSE Error(x, "INVALID_VERSION")
     ELSE IF s = "res_first_status_code" THEN
            IF ch = "_" THEN x ELSE IF ch \notin {"S1", "S2", "S4"} THEN Error(x, "INVALID_STATUS")
            ELSE [To(x, "res_status_code") EXCEPT !.q.status = ch]
     ELSE IF s = "res_status_code" /\ ch = "_" THEN To(x, "res_status_start")
     ELSE IF s = "res_status_code" /\ ch \notin Eol THEN Error(x, "INVALID_STATUS")
     ELSE IF s = "res_status_start" /\ ch \notin Eol THEN To(MARK(x, "status", i), "res_status")
     ELSE IF s \in {"res_status_code", "res_status_start", "res_status"} /\ ch \in Eol THEN
            To(CALLBACK_DATA(MARK(x, "status", i), d, i),
               IF ch = "R" THEN "res_line_almost_done" ELSE "header_field_start")
     ELSE IF s = "res_status" THEN x
     ELSE IF ch = "N" THEN To(x, "header_field_start") ELSE Error(x, "STRICT")

RequestLine(x, d, i) ==
  LET ch == d[i]
      s == x.q.state
      endline == IF ch = "R" THEN "req_line_almost_done" ELSE "header_field_start"
      url(y) == LET t == To(y, parse_url_char(y.q.state, ch))
                IN IF t.q.state = "dead" THEN Error(t, "INVALID_URL") ELSE t
  IN IF s = "req_method" THEN IF ch = "_" THEN To(x, "spaces_before_url") ELSE Error(x, "INVALID_METHOD")
     ELSE IF s = "spaces_before_url" THEN
            IF ch = "_" THEN x
            ELSE url(MARK(IF x.q.method = "CON" THEN To(x, "server_start") ELSE x, "url", i))
     ELSE IF s \in {"schema", "schema_slash", "schema_slash_slash", "server_start"} THEN
            IF ch \in Eol \cup {"_"} THEN Error(x, "INVALID_URL") ELSE url(x)
     ELSE IF s \in UrlStates /\ ch = "_" THEN To(CALLBACK_DATA(x, d, i), "req_http_start")
     ELSE IF s \in UrlStates /\ ch \in Eol THEN [To(CALLBACK_DATA(x, d, i), endline) EXCEPT !.q.minor = 0]
     ELSE IF s \in UrlStates THEN url(x)
     ELSE IF s = "req_http_start" /\ ch \in {"V0", "V1"} THEN
            [To(x, "req_http_end") EXCEPT !.q.minor = IF ch = "V1" THEN 1 ELSE 0]
     ELSE IF s = "req_http_start" THEN IF ch = "_" THEN x ELSE Error(x, "INVALID_CONSTANT")
     ELSE IF s = "req_http_end" THEN IF ch \in Eol THEN To(x, endline) ELSE Error(x, "INVALID_VERSION")
     ELSE IF ch = "N" THEN To(x, "header_field_start") ELSE Error(x, "LF_EXPECTED")

\* The body after the headers, if it is not chunked.
IdentityBody(x) ==
  IF "TRANSFER_ENCODING" \in x.q.flags THEN
         IF x.q.type = "REQUEST" THEN Error(x, "INVALID_TRANSFER_ENCODING") ELSE To(x, "body_identity_eof")
  ELSE IF x.q.length = 0 THEN Complete(x)
  ELSE IF x.q.length # ULLONG_MAX THEN To(x, "body_identity")
  ELSE IF http_message_needs_eof(x.q) THEN To(x, "body_identity_eof") ELSE Complete(x)

\* s_headers_almost_done and s_headers_done.
HeadersDone(x) ==
  LET upgrade == IF {"UPGRADE", "c_upgrade"} \subseteq x.q.flags
                 THEN x.q.type = "REQUEST" \/ x.q.status = "S1"
                 ELSE x.q.method = "CON"
      y == [Notify([x EXCEPT !.q.upgrade = upgrade], "headers_complete") EXCEPT !.q.nread = 0]
      hasBody == "CHUNKED" \in x.q.flags \/ x.q.length \notin {0, ULLONG_MAX}
  IN IF "TRAILING" \in x.q.flags THEN LET z == Complete(Notify(x, "chunk_complete"))
                                      IN IF z.q.upgrade THEN [z EXCEPT !.q.errno = "UPGRADED"] ELSE z
     ELSE IF {"TRANSFER_ENCODING", "CONTENTLENGTH"} \subseteq x.q.flags THEN Error(x, "UNEXPECTED_CONTENT_LENGTH")
     ELSE IF upgrade /\ (x.q.method = "CON" \/ ~hasBody) THEN Upgraded(y)
     ELSE IF "CHUNKED" \in x.q.flags THEN To(y, "chunk_size_start")
     ELSE IdentityBody(y)

\* The places from i on, up to one that is not in the set.
Span(d, i, set) == LET at == {j \in i..Len(d) : d[j] \notin set} IN
                   IF at = {} THEN Len(d) + 1 ELSE CHOOSE j \in at : \A k \in at : j <= k

HeaderField(x, d, i) ==
  LET j == Span(d, i, Token)
      y == COUNT_HEADER_SIZE([x EXCEPT !.q = FoldLeft(FieldChar, @, SubSeq(d, i, j - 1)), !.next = j + 1],
                             IF j > Len(d) THEN j - 1 - i ELSE j - i)
  IN IF y.q.errno # "OK" \/ j > Len(d) THEN y
     ELSE IF d[j] = ":" THEN To(CALLBACK_DATA(y, d, j), "header_value_discard_ws")
     ELSE Error(y, "INVALID_HEADER_TOKEN")

\* A line feed is looked at again in s_header_almost_done.
HeaderValue(x, d, i) ==
  LET j == Span(d, i, Range(d) \ {"R", "N", "^"})
      y == [x EXCEPT !.q = FoldLeft(ValueChar, @, SubSeq(d, i, j - 1)), !.next = j + 1]
      size == IF j > Len(d) THEN j - 1 - i ELSE j - i
  IN IF y.q.errno # "OK" THEN y
     ELSE IF j > Len(d) THEN COUNT_HEADER_SIZE(y, size)
     ELSE IF d[j] = "^" THEN Error(y, "INVALID_HEADER_TOKEN")
     ELSE IF d[j] = "R" THEN COUNT_HEADER_SIZE(To(CALLBACK_DATA(y, d, j), "header_almost_done"), size)
     ELSE LET z == COUNT_HEADER_SIZE(y, size)
          IN IF z.q.errno # "OK" THEN z ELSE To(CALLBACK_DATA(z, d, j), "header_value_lws")

\* The states of a header other than the two that take several characters.
HeaderStart(x, d, i) ==
  LET ch == d[i] IN
  CASE ch = "R" -> To(x, "headers_almost_done")
    [] ch = "N" -> HeadersDone(x)
    [] ch \in Token -> [MARK(x, "header_field", i) EXCEPT !.q = FieldStart(@, ch)]
    [] OTHER -> Error(x, "INVALID_HEADER_TOKEN")

HeaderRest(x, d, i) ==
  LET ch == d[i]
      s == x.q.state
      value == [MARK(x, "header_value", i) EXCEPT !.q = ValueStart(@, ch)]
      fold == [x EXCEPT !.q.h = IF @ = "content_length_num" THEN "content_length_ws" ELSE @]
      expect(state, errno) == IF ch = "N" THEN To(x, state) ELSE Error(x, errno)
  IN IF s = "header_field_start" THEN HeaderStart(x, d, i)
     ELSE IF s = "header_value_discard_ws" THEN
            CASE ch = "_" -> x
              [] ch = "R" -> To(x, "header_value_discard_ws_almost_done")
              [] ch = "N" -> To(x, "header_value_discard_lws")
              [] OTHER -> value
     ELSE IF s = "header_almost_done" THEN expect("header_value_lws", "LF_EXPECTED")
     ELSE IF s = "header_value_lws" /\ ch = "_" THEN
            [MARK(fold, "header_value", i) EXCEPT !.q = ValueStart(@, ch)]
     ELSE IF s = "header_value_lws" THEN HeaderStart(To([x EXCEPT !.q = HeaderFlags(@)], "header_field_start"), d, i)
     ELSE IF s = "header_value_discard_ws_almost_done" THEN expect("header_value_discard_lws", "STRICT")
     ELSE IF s = "header_value_discard_lws" /\ ch = "_" THEN To(x, "header_value_discard_ws")
     ELSE IF s = "header_value_discard_lws" /\ x.q.h = "content_length" THEN Error(x, "INVALID_CONTENT_LENGTH")
     ELSE IF s = "header_value_discard_lws" THEN
            HeaderStart(To(CALLBACK_DATA(MARK([x EXCEPT !.q = HeaderFlags(@)], "header_value", i), d, i),
                           "header_field_start"), d, i)
     ELSE IF ch = "N" THEN HeadersDone(x) ELSE Error(x, "STRICT")

\* The part of a body or a chunk that the read holds.
ToRead(x, d, i) == IF x.q.length <= Len(d) + 1 - i THEN x.q.length ELSE Len(d) + 1 - i

Body(x, d, i) ==
  LET s == x.q.state
      n == ToRead(x, d, i)
      y == [MARK(x, "body", i) EXCEPT !.q.length = @ - n, !.next = i + n]
  IN IF s = "body_identity_eof" THEN [MARK(x, "body", i) EXCEPT !.next = Len(d) + 1]
     ELSE IF y.q.length > 0 THEN y
     ELSE IF s = "chunk_data" THEN To(y, "chunk_data_almost_done")
     ELSE LET z == Complete(CALLBACK_DATA(y, d, i + n))
          IN IF z.q.upgrade THEN [z EXCEPT !.q.errno = "UPGRADED"] ELSE z

\* s_chunk_data_almost_done.
ChunkData(x, d, i) ==
  IF d[i] = "R" THEN CALLBACK_DATA(To(x, "chunk_data_done"), d, i) ELSE Error(x, "STRICT")

Chunk(x, d, i) ==
  LET ch == d[i]
      s == x.q.state
  IN IF s = "chunk_size_start" THEN
            IF ch \notin DOMAIN Hex THEN Error(x, "INVALID_CHUNK_SIZE")
            ELSE IF x.q.nread # 1 THEN Error(x, "ASSERT")
            ELSE [To(x, "chunk_size") EXCEPT !.q.length = Hex[ch]]
     ELSE IF s \in {"chunk_size", "chunk_parameters"} /\ ch = "R" THEN To(x, "chunk_size_almost_done")
     ELSE IF s = "chunk_size" /\ ch \in DOMAIN Hex THEN [x EXCEPT !.q = Times(@, ch, 16)]
     ELSE IF s = "chunk_size" THEN IF ch \in {";", "_"} THEN To(x, "chunk_parameters") ELSE Error(x, "INVALID_CHUNK_SIZE")
     ELSE IF s = "chunk_parameters" THEN x
     ELSE IF s = "chunk_size_almost_done" /\ ch = "N" THEN
            Notify(IF x.q.length = 0 THEN [To(x, "header_field_start") EXCEPT !.q.flags = @ \cup {"TRAILING"}, !.q.nread = 0]
                   ELSE [To(x, "chunk_data") EXCEPT !.q.nread = 0], "chunk_header")
     ELSE IF s = "chunk_data_done" /\ ch = "N" THEN
            Notify([To(x, "chunk_size_start") EXCEPT !.q.nread = 0], "chunk_complete")
     ELSE Error(x, "STRICT")

ResponseStates == {"res_http_end", "res_first_status_code", "res_status_code", "res_status_start", "res_status",
                   "res_line_almost_done"}
RequestStates == UrlStates \cup {"req_method", "spaces_before_url", "req_http_start", "req_http_end", "req_line_almost_done"}
BodyStates == {"body_identity", "body_identity_eof", "chunk_data"}
NotCounted == BodyStates \cup {"chunk_data_almost_done", "chunk_data_done"}

\* The character at place i, and with it all that its state takes.
Char(x0, d, i) ==
  LET y == [x0 EXCEPT !.next = i + 1]
      x == IF y.q.state \in NotCounted THEN y ELSE COUNT_HEADER_SIZE(y, 1)
      s == x.q.state
  IN IF x.q.errno # "OK" THEN x
     ELSE IF s = "dead" THEN IF d[i] \in Eol THEN x ELSE Error(x, "CLOSED_CONNECTION")
     ELSE IF s = "start_req_or_res" THEN StartLine(x, d[i])
     ELSE IF s \in ResponseStates THEN ResponseLine(x, d, i)
     ELSE IF s \in RequestStates THEN RequestLine(x, d, i)
     ELSE IF s = "header_field" THEN HeaderField(x, d, i)
     ELSE IF s = "header_value" THEN HeaderValue(x, d, i)
     ELSE IF s \in BodyStates THEN Body(x, d, i)
     ELSE IF s = "chunk_data_almost_done" THEN ChunkData(x, d, i)
     ELSE IF s \in {"chunk_size_start", "chunk_size", "chunk_parameters", "chunk_size_almost_done", "chunk_data_done"} THEN
            Chunk(x, d, i)
     ELSE HeaderRest(x, d, i)

\* http_parser_execute on the read d; an element that goes on is given as far
\* as the read holds it.
http_parser_execute(q, d) ==
  LET x == FoldLeft(LAMBDA y, i : IF y.q.errno # "OK" \/ i # y.next THEN y ELSE Char(y, d, i),
                    [q |-> q, mark |-> MarkAtStart(q.state), from |-> 1, next |-> 1],
                    [i \in 1..Len(d) |-> i])
  IN IF x.q.errno # "OK" THEN x.q ELSE CALLBACK_DATA(x, d, Len(d) + 1).q

\* The end of the connection.
http_parser_eof(q) ==
  IF q.errno # "OK" \/ q.state \in {"dead", "start_req_or_res"} THEN q
  ELSE IF q.state = "body_identity_eof" THEN Call(q, "message_complete", <<>>)
  ELSE [q EXCEPT !.errno = "INVALID_EOF_STATE"]
-----------------------------------------------------------------------------
(* The properties, of two parsers: one that was given whole reads, one that   *)
(* was given the same text one unit at a time                                *)

Notifications(q) == SelectSeq(q.out, LAMBDA c : c.cb \notin Data)

\* What the parser makes of a text, to the callbacks and the state it is left
\* in, does not depend on where the reads end; an error may be another one.
SplitIndependent(whole, split) ==
  /\ whole.errno = "OK" \/ split.errno = "OK" => whole = split
  /\ Notifications(whole) = Notifications(split)
  /\ "ASSERT" \notin {whole.errno, split.errno}

\* The values of the headers of one name that were given between callbacks a and b.
Headers(q, a, b, w) ==
  {k \in a..b : q.out[k].cb = "header_value" /\ q.out[k - 1].text = Word[w]}
LastToken(text, w) ==
  LET t == SelectSeq(text, LAMBDA ch : ch # "_")
      n == Len(Word[w])
  IN Len(t) >= n /\ SubSeq(t, Len(t) - n + 1, Len(t)) = Word[w] /\ (Len(t) = n \/ t[Len(t) - n] = ",")
Decimal(text) == FoldLeft(LAMBDA v, ch : IF ch = "_" THEN v ELSE 10 * v + Num[ch], 0, text)

\* A complete message has the body that its headers announce: as many units as
\* its one Content-Length says, or the chunks that its Transfer-Encoding
\* announces, never both; a request without either has none.
FramedAsDeclared(q) ==
  \A m, c \in DOMAIN q.out :
    /\ q.out[m].cb = "message_begin" /\ q.out[c].cb = "message_complete" /\ m < c
    /\ \A k \in m..c - 1 : q.out[k].cb # "message_complete"
    => LET done == CHOOSE k \in m..c : q.out[k].cb = "headers_complete"
           cl == Headers(q, m, done, "content_length")
           te == Headers(q, m, done, "transfer_encoding")
           body == {k \in done..c : q.out[k].cb = "body"}
           chunked == \E k \in done..c : q.out[k].cb = "chunk_header"
       IN /\ cl = {} \/ te = {}
          /\ \A k \in cl : /\ cl = {k}
                          /\ \/ q.upgrade /\ c = Len(q.out)
                             \/ Decimal(q.out[k].text) = MapThenSumSet(LAMBDA j : Len(q.out[j].text), body)
          /\ chunked => \E k \in te : LastToken(q.out[k].text, "chunked")
          /\ q.out[m + 1].cb = "url" /\ cl \cup te = {} => body = {}
=============================================================================
