------------------------------ MODULE HttpUrl -------------------------------
(***************************************************************************)
(* http_parser_parse_url (util/http_parser.cpp), which lidig_http_client and *)
(* lidig_http_session::on_url call, compared with the shape of a URL.  A      *)
(* character is given by its class: "a" a letter that is a hexadecimal digit, *)
(* "g" any other letter, digits, "=" a character of a user's name only, "*"   *)
(* a character of a path only, "_" a blank; the others are themselves.        *)
(***************************************************************************)
EXTENDS Integers, Sequences, SequencesExt

CONSTANT MaxPort     \* 65535

Digits == {"0", "1"}
Letters == {"a", "g"}
HostChar == Digits \cup Letters \cup {"."}
UserChar == HostChar \cup {":", "%", "="}
UrlChar == UserChar \cup {"/", "*", "@", "[", "]"}

\* The state after one character.
parse_url_char(s, ch) ==
  CASE s = "spaces_before_url" /\ ch \in {"/", "*"} -> "path"
    [] s \in {"spaces_before_url", "schema"} /\ ch \in Letters -> "schema"
    [] s = "schema" /\ ch = ":" -> "schema_slash"
    [] s = "schema_slash" /\ ch = "/" -> "schema_slash_slash"
    [] s = "schema_slash_slash" /\ ch = "/" -> "server_start"
    [] s \in {"server_start", "server", "server_with_at"} ->
         CASE ch = "/" -> "path"
           [] ch = "?" -> "query_string_start"
           [] ch = "@" -> IF s = "server_with_at" THEN "dead" ELSE "server_with_at"
           [] ch \in UserChar \cup {"[", "]"} -> "server"
           [] OTHER -> "dead"
    [] s = "path" /\ ch \in UrlChar -> "path"
    [] s = "path" /\ ch = "?" -> "query_string_start"
    [] s \in {"query_string_start", "query_string"} /\ ch \in UrlChar \cup {"?"} -> "query_string"
    [] s \in {"path", "query_string_start", "query_string"} /\ ch = "#" -> "fragment_start"
    [] s \in {"fragment_start", "fragment"} /\ ch \in UrlChar \cup {"?", "#"} ->
         IF s = "fragment_start" /\ ch = "#" THEN "fragment_start" ELSE "fragment"
    [] OTHER -> "dead"

UrlField == [schema |-> "SCHEMA", server_with_at |-> "HOST", server |-> "HOST", path |-> "PATH",
             query_string |-> "QUERY", fragment |-> "FRAGMENT"]

NoUrl == [f \in {"SCHEMA", "HOST", "PORT", "PATH", "QUERY", "FRAGMENT", "USERINFO"} |-> <<0, 0>>]

\* A field is <<off, len>>, <<0, 0>> when it is not set; offsets count from 1.
Longer(f) == <<f[1], f[2] + 1>>

\* One character of the loop of http_parser_parse_url.
UrlStep(x, ch, i) ==
  LET s == parse_url_char(x.s, ch)
      uf == UrlField[s]
      y == [x EXCEPT !.s = s, !.found_at = @ \/ s = "server_with_at"]
  IN IF x.s = "dead" THEN x
     ELSE IF s \notin DOMAIN UrlField THEN y
     ELSE IF uf = x.uf THEN [y EXCEPT !.u[uf] = Longer(@)]
     ELSE [y EXCEPT !.u[uf] = <<i, 1>>, !.uf = uf]

\* The state of the host after one character.
http_parse_host_char(s, ch) ==
  CASE s \in {"userinfo", "userinfo_start"} /\ ch = "@" -> "host_start"
    [] s \in {"userinfo", "userinfo_start"} /\ ch \in UserChar -> "userinfo"
    [] s = "host_start" /\ ch = "[" -> "host_v6_start"
    [] s \in {"host_start", "host"} /\ ch \in HostChar -> "host"
    [] s \in {"host", "host_v6_end"} /\ ch = ":" -> "host_port_start"
    [] s \in {"host_v6", "host_v6_zone"} /\ ch = "]" -> "host_v6_end"
    [] s \in {"host_v6", "host_v6_start"} /\ ch \in Digits \cup {"a", ":", "."} -> "host_v6"
    [] s = "host_v6" /\ ch = "%" -> "host_v6_zone_start"
    [] s \in {"host_v6_zone", "host_v6_zone_start"} /\ ch \in HostChar \cup {"%"} -> "host_v6_zone"
    [] s \in {"host_port", "host_port_start"} /\ ch \in Digits -> "host_port"
    [] OTHER -> "dead"

\* One character of the loop of http_parse_host.
HostStep(x, ch, i) ==
  LET s == http_parse_host_char(x.s, ch)
      begin == s # x.s
      at(f) == [x EXCEPT !.s = s, !.u[f] = IF begin THEN <<i, 1>> ELSE Longer(@)]
  IN IF x.s = "dead" THEN x
     ELSE CASE s \in {"host", "host_v6"} -> [x EXCEPT !.s = s, !.u.HOST = <<IF begin THEN i ELSE @[1], @[2] + 1>>]
            [] s \in {"host_v6_zone_start", "host_v6_zone"} -> [x EXCEPT !.s = s, !.u.HOST = Longer(@)]
            [] s = "host_port" -> at("PORT")
            [] s = "userinfo" -> at("USERINFO")
            [] OTHER -> [x EXCEPT !.s = s]

Over(step(_, _, _), x, text, a, b) ==
  FoldLeft(LAMBDA y, i : step(y, text[i], i), x, [k \in 1..b + 1 - a |-> a + k - 1])

\* Mutated form: a host that ends before its port is accepted.
HostEnds_Early == {"host", "host_v6_end", "host_port", "host_port_start"}

HostEnds == {"host", "host_v6_end", "host_port"}

http_parse_host(u, text, found_at) ==
  Over(HostStep, [s |-> IF found_at THEN "userinfo_start" ELSE "host_start",
                  u |-> [u EXCEPT !.HOST = <<u.HOST[1], 0>>]],
       text, u.HOST[1], u.HOST[1] + u.HOST[2] - 1)

PortValue(text, f) ==
  FoldLeft(LAMBDA v, ch : 10 * v + (IF ch = "1" THEN 1 ELSE 0), 0, SubSeq(text, f[1], f[1] + f[2] - 1))

Unset == <<0, 0>>

\* The fields, or NoUrl when the text is refused; is_connect is 0 in all calls.
http_parser_parse_url(text) ==
  LET x == Over(UrlStep, [s |-> "spaces_before_url", u |-> NoUrl, uf |-> "", found_at |-> FALSE],
                text, 1, Len(text))
      h == IF x.u.HOST = Unset THEN [s |-> "host", u |-> x.u] ELSE http_parse_host(x.u, text, x.found_at)
  IN IF \/ text = <<>> \/ x.s = "dead"
        \/ x.u.SCHEMA # Unset /\ x.u.HOST = Unset
        \/ h.s \notin HostEnds
        \/ h.u.PORT # Unset /\ PortValue(text, h.u.PORT) > MaxPort
     THEN NoUrl ELSE h.u

-----------------------------------------------------------------------------
(* The shape of a URL, found from its delimiters *)

First(text, a, set) == LET at == {i \in a..Len(text) : text[i] \in set} IN
                       IF at = {} THEN Len(text) + 1 ELSE CHOOSE i \in at : \A j \in at : i <= j
Within(text, a, b, set) == \A i \in a..b : text[i] \in set
Piece(a, b) == IF b < a THEN Unset ELSE <<a, b + 1 - a>>

\* host, or [v6] or [v6%zone], from a to b; its name from NameFrom to NameTo.
IsHost(text, a, b) ==
  \/ a <= b /\ Within(text, a, b, HostChar)
  \/ /\ b - a >= 2 /\ text[a] = "[" /\ text[b] = "]"
     /\ \E z \in a + 2..b :
          /\ Within(text, a + 1, z - 1, Digits \cup {"a", ":", "."})
          /\ \/ z = b
             \/ text[z] = "%" /\ z + 1 < b /\ Within(text, z + 1, b - 1, HostChar \cup {"%"})

\* [user@]host[:port] from a to b, with the user's name before h and the host
\* before p.
Authority(text, a, b) ==
  {<<h, p>> \in (a..b + 1) \X (a..b + 1) :
     /\ h = a \/ (text[h - 1] = "@" /\ Within(text, a, h - 2, UserChar))
     /\ IsHost(text, h, p - 1)
     /\ \/ p = b + 1
        \/ /\ text[p] = ":" /\ p < b /\ Within(text, p + 1, b, Digits)
           /\ PortValue(text, <<p + 1, b - p>>) <= MaxPort}

\* A text is accepted exactly if it is a path, or schema://authority with or
\* without a path, followed by a query and a fragment; every field is then the
\* piece between its delimiters, so that no two fields overlap and none reaches
\* outside of the text.
UrlBetweenDelimiters(text) ==
  LET n == Len(text)
      colon == First(text, 1, {":"})
      absolute == /\ colon > 1 /\ Within(text, 1, colon - 1, Letters)
                  /\ colon + 2 <= n /\ text[colon + 1] = "/" /\ text[colon + 2] = "/"
      auth == colon + 3
      path == IF absolute THEN First(text, auth, {"/", "?"}) ELSE 1
      split == IF absolute THEN Authority(text, auth, path - 1) ELSE {}
      query == First(text, path, {"?", "#"})
      frag == First(text, path, {"#"})
      pound == First(text, frag, Range(text) \ {"#"})
      u == http_parser_parse_url(text)
  IN /\ u # NoUrl <=>
          /\ n > 0 /\ Within(text, path, n, UrlChar \cup {"?", "#"})
          /\ absolute \/ text[1] \in {"/", "*"}
          /\ absolute => split # {}
     /\ u # NoUrl =>
          /\ u.PATH = Piece(path, query - 1)
          /\ u.QUERY = Piece(query + 1, frag - 1)
          /\ u.FRAGMENT = Piece(pound, n)
          /\ u.SCHEMA = IF absolute THEN Piece(1, colon - 1) ELSE Unset
          /\ absolute => \E <<h, p>> \in split :
               /\ u.USERINFO = Piece(auth, h - 2)
               /\ u.HOST = IF text[h] = "[" THEN Piece(h + 1, p - 2) ELSE Piece(h, p - 1)
               /\ u.PORT = Piece(p + 1, path - 1)
=============================================================================
