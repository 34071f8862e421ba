---------------------------- MODULE HttpSession -----------------------------
(***************************************************************************)
(* The receiving side of lidig_http_session (network/                      *)
(* lidig_http_session.cpp) with the http_parser it drives.  The peer sends *)
(* a script of messages as a stream of units; TCP hands them over in reads *)
(* of any size, and http_parser_execute turns each read into callbacks.    *)
(* A text (URL, reason, header field or value) is TextLen characters and a *)
(* terminator; its content is known by the characters' places.  No text    *)
(* and no body reads like the beginning of a message.                      *)
(***************************************************************************)
EXTENDS Integers, Sequences, SequencesExt

CONSTANTS
  TextLen,      \* characters of a text
  Script        \* the scripts the peer may follow: sequences of messages

\* A message as its sender means it (see the stream, below).
Message == [kind : {"request", "response"}, slash : BOOLEAN, heads : Nat, body : Nat, eof : BOOLEAN]

\* A body that ends with the connection is the last thing on it.
ASSUME HttpAssumption ==
  /\ TextLen \in Nat \ {0}
  /\ Script \subseteq Seq(Message)
  /\ \A s \in Script : \A m \in DOMAIN s : s[m].eof => m = Len(s)

VARIABLES
  script,           \* the messages the peer sends
  units,            \* the stream they make
  pos,              \* units that have been handed to the parser
  left,             \* units of the current read still to be parsed
  state,            \* parser_: "start" between messages, "msg", "eof" in a
                    \* body that ends with the connection
  field_,
  recv_header_map_, \* a set of [k, v]
  recv_body_str_,
  packets,          \* history: the calls of on_packet
  hurt,             \* history: messages with a text split between two reads,
                    \* or of which units were dropped
  stream            \* "open", "closed" by the application, "ended" by the peer

vars == <<script, units, pos, left, state, field_, recv_header_map_, recv_body_str_,
          packets, hurt, stream>>

-----------------------------------------------------------------------------
(* The stream.  A message is [kind, slash, heads, body, eof]: a request or a *)
(* response; whether every character of its URL is a slash, or only the      *)
(* first; its number of headers; the length of its body; whether its body    *)
(* ends with the connection.                                                 *)
Text(kind) == [i \in 1..TextLen + 1 |-> [kind |-> kind, i |-> i]]

Mark(kind) == <<[kind |-> kind, i |-> 1]>>

Elements(msg) ==
  <<Mark("start"), Text(IF msg.kind = "request" THEN "url" ELSE "status")>>
  \o [h \in 1..2 * msg.heads |-> Text(IF h % 2 = 1 THEN "field" ELSE "value")]
  \o <<Mark("end"), [i \in 1..msg.body |-> [kind |-> "body", i |-> i]]>>

\* Every unit knows its message m and its element e.
Units(msgs) ==
  FlattenSeq([m \in DOMAIN msgs |->
    FlattenSeq([e \in DOMAIN Elements(msgs[m]) |->
      [i \in DOMAIN Elements(msgs[m])[e] |->
         [m |-> m, e |-> e, kind |-> Elements(msgs[m])[e][i].kind, i |-> i]]])])

Next1 == units[pos + 1]
Msg == script[Next1.m]

\* A string is characters lo..hi of a text; all empty strings are the same.
Str(m, e, lo, hi) == IF hi < lo THEN <<>> ELSE <<m, e, lo, hi>>

put(map, k, v) == {x \in map : x.k # k} \cup {[k |-> k, v |-> v]}

Init ==
  /\ script \in Script
  /\ units = Units(script)
  /\ pos = 0
  /\ left = 0
  /\ state = "start"
  /\ field_ = <<>>
  /\ recv_header_map_ = {}
  /\ recv_body_str_ = <<>>
  /\ packets = <<>>
  /\ hurt = {}
  /\ stream = "open"

-----------------------------------------------------------------------------
\* A read of n units.
on_read(n) ==
  /\ stream = "open"
  /\ left = 0
  /\ left' = n
  /\ UNCHANGED <<script, units, pos, state, field_, recv_header_map_, recv_body_str_,
                 packets, hurt, stream>>

\* The parser goes on after n units.
Advance(n) == pos' = pos + n /\ left' = left - n

\* An error: the rest of the read is dropped and the parser starts afresh.
Fail ==
  /\ Advance(left)
  /\ state' = "start"
  /\ hurt' = hurt \cup {units[q].m : q \in pos + 1 .. pos + left}

\* The characters of the text at hand that this read holds, and the units
\* they take; the terminator ends the text.
Rest == TextLen + 1 - Next1.i
Chars == IF left > Rest THEN Rest ELSE left
Taken == IF left > Rest THEN Rest + 1 ELSE left
Fragment == Str(Next1.m, Next1.e, Next1.i, Next1.i + Chars - 1)
Split == IF Chars = TextLen THEN hurt ELSE hurt \cup {Next1.m}

\* A data callback for one fragment of a text of this kind.
TextCallback(kind) ==
  /\ left > 0
  /\ state = "msg"
  /\ Next1.kind = kind
  /\ UNCHANGED <<script, units, recv_body_str_, packets, stream>>

\* Between messages the parser skips line ends; anything else but the
\* beginning of a message is an error.
LineEnd == Next1.kind = "end" \/ (Next1.kind = "value" /\ Next1.i = TextLen + 1)

skip_line_end ==
  /\ left > 0
  /\ state = "start"
  /\ LineEnd
  /\ Advance(1)
  /\ hurt' = hurt \cup {Next1.m}
  /\ UNCHANGED <<script, units, state, field_, recv_header_map_, recv_body_str_,
                 packets, stream>>

parse_error ==
  /\ left > 0
  /\ state = "start"
  /\ Next1.kind # "start" /\ ~LineEnd
  /\ Fail
  /\ UNCHANGED <<script, units, field_, recv_header_map_, recv_body_str_, packets, stream>>

\* Mutated form: the header map of the previous message is kept.
on_message_begin_KeepsMap ==
  /\ left > 0
  /\ state = "start"
  /\ Next1.kind = "start"
  /\ state' = "msg"
  /\ recv_body_str_' = <<>>
  /\ Advance(1)
  /\ UNCHANGED <<script, units, field_, recv_header_map_, packets, hurt, stream>>

on_message_begin ==
  /\ left > 0
  /\ state = "start"
  /\ Next1.kind = "start"
  /\ state' = "msg"
  /\ recv_header_map_' = {}
  /\ recv_body_str_' = <<>>
  /\ Advance(1)
  /\ UNCHANGED <<script, units, field_, packets, hurt, stream>>

\* http_parser_parse_url accepts what begins with a slash.
parse_url_ok == Chars > 0 /\ (Next1.i = 1 \/ Msg.slash)

\* on_url: Method and Path; a URL that does not parse is an error.
on_url ==
  /\ TextCallback("url")
  /\ recv_header_map_' = put(put(recv_header_map_, <<"Method">>, <<Next1.m>>), <<"Path">>, Fragment)
  /\ IF parse_url_ok
     THEN Advance(Taken) /\ hurt' = Split /\ UNCHANGED state
     ELSE Fail
  /\ UNCHANGED field_

on_status ==
  /\ TextCallback("status")
  /\ recv_header_map_' = put(put(recv_header_map_, <<"Status">>, <<Next1.m>>), <<"Reason">>, Fragment)
  /\ Advance(Taken)
  /\ hurt' = Split
  /\ UNCHANGED <<state, field_>>

\* on_header_field and on_header_value replace what they had.
on_header_field ==
  /\ TextCallback("field")
  /\ field_' = Fragment
  /\ Advance(Taken)
  /\ hurt' = Split
  /\ UNCHANGED <<state, recv_header_map_>>

on_header_value ==
  /\ TextCallback("value")
  /\ recv_header_map_' = put(recv_header_map_, field_, Fragment)
  /\ Advance(Taken)
  /\ hurt' = Split
  /\ UNCHANGED <<state, field_>>

\* on_message_complete: the packet goes to the application, which may close
\* the session.
on_message_complete(body) ==
  /\ state' = "start"
  /\ packets' = Append(packets, [m |-> Next1.m, map |-> recv_header_map_, body |-> body])
  /\ stream' \in {stream, "closed"}

\* on_headers_complete: the message is complete if it has no body to wait for.
on_headers_complete ==
  /\ left > 0
  /\ state = "msg"
  /\ Next1.kind = "end"
  /\ Advance(1)
  /\ IF Msg.eof THEN state' = "eof" /\ UNCHANGED <<packets, stream>>
     ELSE IF Msg.body = 0 THEN on_message_complete(recv_body_str_)
     ELSE UNCHANGED <<state, packets, stream>>
  /\ UNCHANGED <<script, units, field_, recv_header_map_, recv_body_str_, hurt>>

\* Mutated form: all that is missing of the body, whatever the read holds.
BodyHere_Missing == Msg.body + 1 - Next1.i

\* The units of the body at hand that this read holds.
BodyHere ==
  LET rest == Msg.body + 1 - Next1.i IN IF left > rest THEN rest ELSE left

BodyFragment == [b \in 1..BodyHere |-> <<Next1.m, Next1.i + b - 1>>]

\* Mutated form: a fragment of the body replaces the previous ones.
on_body_Replaces ==
  /\ left > 0
  /\ state = "msg"
  /\ Next1.kind = "body"
  /\ recv_body_str_' = BodyFragment
  /\ Advance(BodyHere)
  /\ IF Next1.i + BodyHere > Msg.body
     THEN on_message_complete(recv_body_str_')
     ELSE UNCHANGED <<state, packets, stream>>
  /\ UNCHANGED <<script, units, field_, recv_header_map_, hurt>>

\* on_body appends; the last fragment completes the message.
on_body ==
  /\ left > 0
  /\ state = "msg"
  /\ Next1.kind = "body"
  /\ recv_body_str_' = recv_body_str_ \o BodyFragment
  /\ Advance(BodyHere)
  /\ IF Next1.i + BodyHere > Msg.body
     THEN on_message_complete(recv_body_str_')
     ELSE UNCHANGED <<state, packets, stream>>
  /\ UNCHANGED <<script, units, field_, recv_header_map_, hurt>>

\* A body that ends with the connection takes the whole read.
on_body_eof ==
  /\ left > 0
  /\ state = "eof"
  /\ recv_body_str_' = recv_body_str_ \o [b \in 1..left |-> <<units[pos + b].m, units[pos + b].i>>]
  /\ Advance(left)
  /\ UNCHANGED <<script, units, state, field_, recv_header_map_, packets, hurt, stream>>

\* The end of the stream: lidig_stream closes and on_read is not called, so
\* that the parser does not see it.
end_of_stream ==
  /\ stream = "open"
  /\ left = 0
  /\ stream' = "ended"
  /\ UNCHANGED <<script, units, pos, left, state, field_, recv_header_map_,
                 recv_body_str_, packets, hurt>>

Next ==
  \/ \E n \in 1..Len(units) - pos : on_read(n)
  \/ skip_line_end
  \/ parse_error
  \/ on_message_begin
  \/ on_url
  \/ on_status
  \/ on_header_field
  \/ on_header_value
  \/ on_headers_complete
  \/ on_body
  \/ on_body_eof
  \/ end_of_stream

Spec == Init /\ [][Next]_vars

-----------------------------------------------------------------------------
\* Type invariant of the parser's position, the read and the session.
TypeOK ==
  /\ pos \in 0..Len(units)
  /\ left \in 0..Len(units) - pos
  /\ state \in {"start", "msg", "eof"}
  /\ hurt \subseteq DOMAIN script

Whole(m, e) == Str(m, e, 1, TextLen)

\* The map a message should give: the first two entries, then its headers.
WholeMap(m) ==
  LET req == script[m].kind = "request" IN
  {[k |-> <<IF req THEN "Method" ELSE "Status">>, v |-> <<m>>],
   [k |-> <<IF req THEN "Path" ELSE "Reason">>, v |-> Whole(m, 2)]}
  \cup {[k |-> Whole(m, 2 * h + 1), v |-> Whole(m, 2 * h + 2)] : h \in 1..script[m].heads}

WholeBody(m) == [b \in 1..script[m].body |-> <<m, b>>]

\* However the stream is cut into reads, and whatever was lost to errors before,
\* a packet has the whole body of one message, no header of another, and
\* packets come in the order of the messages, once each.
PacketOfOneMessage ==
  /\ TypeOK
  /\ \A k \in DOMAIN packets :
       /\ packets[k].body = WholeBody(packets[k].m)
       /\ \A x \in packets[k].map : x.v # <<>> => x.v[1] = packets[k].m
       /\ k > 1 => packets[k - 1].m < packets[k].m

\* All units of message m have been parsed.
Parsed(m) == \A q \in pos + 1 .. Len(units) : units[q].m > m

\* A message whose texts were not split between reads, and that was not caught
\* in the error of another, is delivered with its whole header map, at once.
IntactAreDelivered ==
  \A m \in DOMAIN script :
    Parsed(m) /\ m \notin hurt /\ ~script[m].eof =>
      \E k \in DOMAIN packets : packets[k].m = m /\ packets[k].map = WholeMap(m)

\* What http_parser.h says of the callbacks (a string may come in any number
\* of them) should not change what the application gets.
HeadersAreWhole ==
  \A k \in DOMAIN packets : packets[k].map = WholeMap(packets[k].m)
=============================================================================
