------------------------------ MODULE HttpClient ------------------------------
(***************************************************************************)
(* The sending side of HTTP: lidig_http_client (network/lidig_http_client.cpp) *)
(* and lidig_http_session's send_data (network/lidig_http_session.cpp).  What   *)
(* a request is made of is collected in the object until a connection is there *)
(* to send it on; each piece is marked with the request it was meant for.  The *)
(* application asks for no second connection while one is being made or open   *)
(* (libuv's handle would be initialised twice).                                *)
(***************************************************************************)
EXTENDS Integers, Sequences

CONSTANT MaxAsked   \* bound: requests the application makes

ASSUME HttpClientAssumption == MaxAsked \in Nat

VARIABLES
    link,        \* the connection: "none", "connecting", "open"
    method,      \* method_ and request_url_: the request they are of, 0 if cleared
    send_header, \* send_header_map_: requests whose own header is in it
    send_body,   \* send_body_str_: requests whose body is in it
    wire,        \* messages handed to async_write: [method, header, body, alive]
    request,     \* requests made so far
    broken       \* ghost: requests whose attempt has failed

clientVars == <<link, method, send_header, send_body, wire, request, broken>>

ClientInit ==
    /\ link = "none" /\ method = 0 /\ send_header = {} /\ send_body = {}
    /\ wire = <<>> /\ request = 0 /\ broken = {}

-----------------------------------------------------------------------------
\* Mutant: the body is kept for the next message.
send_data_Keeps(m, header, body, alive) ==
    /\ wire' = Append(wire, [method |-> m, header |-> header, body |-> body, alive |-> alive])
    /\ send_header' = {} /\ send_body' = body /\ method' = 0

\* send_data: everything collected goes out, and is forgotten whether
\* async_write can send it or not.
send_data(m, header, body, alive) ==
    /\ wire' = Append(wire, [method |-> m, header |-> header, body |-> body, alive |-> alive])
    /\ send_header' = {} /\ send_body' = {} /\ method' = 0

\* send_request, after the application added a header and a body of its own.
\* A URL that cannot be parsed ends it with only method_ set; one without a
\* host is sent on the connection as it is; otherwise connect, which may be
\* refused at once.
send_request(url, refused) ==
    /\ request < MaxAsked /\ link # "connecting" /\ (url = "host" => link = "none")
    /\ request' = request + 1
    /\ LET header == send_header \cup {request'}
           body == send_body \cup {request'}
       IN CASE url = "bad" -> /\ method' = request' /\ send_header' = header /\ send_body' = body
                              /\ broken' = broken \cup {request'} /\ UNCHANGED <<link, wire>>
            [] url = "path" -> /\ send_data(request', header, body, link = "open")
                               /\ broken' = IF link = "open" THEN broken ELSE broken \cup {request'}
                               /\ UNCHANGED link
            [] OTHER -> /\ method' = request' /\ send_header' = header /\ send_body' = body
                        /\ link' = IF refused THEN "none" ELSE "connecting"
                        /\ broken' = IF refused THEN broken \cup {request'} ELSE broken
                        /\ UNCHANGED wire

\* Mutant: method_ is not looked at.
on_connected_Always(status) ==
    /\ link = "connecting"
    /\ IF status < 0 THEN link' = "none" /\ broken' = broken \cup {method} /\ UNCHANGED <<method, send_header, send_body, wire>>
       ELSE /\ link' = "open" /\ UNCHANGED broken
            /\ send_data(method, send_header, send_body, TRUE)
    /\ UNCHANGED request

\* lidig_http_client::on_connection: a failed attempt changes nothing; with a
\* method the request is sent.
on_connected(status) ==
    /\ link = "connecting"
    /\ IF status < 0 THEN link' = "none" /\ broken' = broken \cup {method} /\ UNCHANGED <<method, send_header, send_body, wire>>
       ELSE /\ link' = "open" /\ UNCHANGED broken
            /\ IF method = 0 THEN UNCHANGED <<method, send_header, send_body, wire>>
               ELSE send_data(method, send_header, send_body, TRUE)
    /\ UNCHANGED request

\* The application connects without a request.
client_connect ==
    /\ link = "none" /\ link' = "connecting"
    /\ UNCHANGED <<method, send_header, send_body, wire, request, broken>>

on_disconnected ==
    /\ link = "open" /\ link' = "none"
    /\ UNCHANGED <<method, send_header, send_body, wire, request, broken>>

ClientNext ==
    \/ \E url \in {"bad", "path", "host"}, refused \in BOOLEAN : send_request(url, refused)
    \/ \E status \in {-1, 0} : on_connected(status)
    \/ client_connect \/ on_disconnected

ClientSpec == ClientInit /\ [][ClientNext]_clientVars

-----------------------------------------------------------------------------
(* Properties *)

\* A request that reaches the wire has its own header and body, and those of
\* another request only if that one's attempt failed before.
OwnBody ==
    \A i \in 1 .. Len(wire) :
        LET m == wire[i] IN /\ m.method \in m.body /\ m.body = m.header
                            /\ m.body \ {m.method} \subseteq broken

\* No request is sent twice: what was sent is not sent again with a later
\* connection.
SentOnce == \A i, j \in 1 .. Len(wire) : i # j => wire[i].method # wire[j].method /\ wire[i].body \cap wire[j].body = {}

\* One message per request, made of that request: across refused, failed and
\* repeated connections.
RequestsAreOwn == OwnBody /\ SentOnce
=============================================================================
