---------------------------- MODULE ServerProofs ----------------------------
(***************************************************************************)
(* Proofs about the servers and clients of network/ that share no state: the  *)
(* listening servers (TcpServer), the sending side of HTTP (HttpClient), the   *)
(* JSON-RPC peers (JsonRpc) and the navi_http application (NaviHttp), and about  *)
(* the arrays and the comparisons of the JSON they exchange (JsonValue) and    *)
(* base64 (Base64).                                                           *)
(***************************************************************************)
EXTENDS Base64, HttpSession, NaviHttp, HttpClient, JsonRpc, JsonValue, RecursionLemmas,
        FiniteSetTheorems, SequenceTheorems, TLAPS

(***************************************************************************)
(* lidig_tcp_server, lidig_shell and lidig_usock_server                     *)
(***************************************************************************)
Session == [obj : {"none", "live", "deleted"}, handle : {"raw", "open", "closing", "closed"},
            alive : BOOLEAN, writes : 0 .. MaxWrites, left : BOOLEAN]

\* A connection's object is there exactly while libuv has its handle; nothing is
\* queued on one that is not there; only an open stream is alive.
Sound(x) ==
    /\ x.obj = "none" => x.handle = "raw" /\ x.writes = 0
    /\ x.obj = "live" => x.handle \in {"open", "closing"}
    /\ x.obj = "deleted" => x.handle = "closed" /\ x.writes = 0
    /\ x.alive => x.handle = "open"

\* The inductive invariant of the servers: what a connection is, and that a server
\* with clients listens.
SrvInv ==
    /\ listener \in {"idle", "init", "listening", "closed"}
    /\ sess \in [Sessions -> Session]
    /\ \A s \in Sessions : Sound(sess[s])
    /\ misuse # "deleted connection used"
    /\ ListenerSurvives

LEMMA SrvInvSound == SrvInv => ServersAreSound
BY DEF SrvInv, Session, Sound, ServersAreSound, SrvTypeOK, ConnectionsOutliveHandles

\* async_write queues one write more, on a connection that is alive only.
LEMMA WrittenSound ==
    ASSUME NEW x \in Session, Sound(x), x.writes < MaxWrites
    PROVE  /\ Written(x) \in Session /\ Sound(Written(x))
           /\ Written(x).obj = x.obj /\ Written(x).handle = x.handle /\ Written(x).alive = x.alive
           /\ Written(x).writes \in {x.writes, x.writes + 1} /\ Written(x).left = x.left
BY TcpServerAssumption DEF Session, Sound, Written

\* close leaves the object and what is queued.
LEMMA ClosingSound ==
    ASSUME NEW x \in Session, Sound(x), x.obj = "live"
    PROVE  /\ Closing(x) \in Session /\ Sound(Closing(x))
           /\ Closing(x).obj = "live" /\ Closing(x).handle = "closing"
           /\ ~Closing(x).alive /\ Closing(x).writes = x.writes
BY DEF Session, Sound, Closing

LEMMA SrvInitInv ==
    ASSUME NEW kinds, SrvInit(kinds)
    PROVE  SrvInv
<1>1. NoSession \in Session /\ Sound(NoSession) /\ NoSession.obj = "none"
  BY TcpServerAssumption DEF NoSession, Session, Sound
<1> QED BY <1>1 DEF SrvInit, SrvInv, ListenerSurvives

\* One connection's record changes, to a sound one that is there if it was.
LEMMA OneSession ==
    ASSUME SrvInv, NEW s \in Sessions, NEW x \in Session, Sound(x),
           x.obj = "none" <=> sess[s].obj = "none",
           sess' = [sess EXCEPT ![s] = x], UNCHANGED <<kind, listener, misuse>>
    PROVE  SrvInv'
<1>1. sess' \in [Sessions -> Session] /\ \A t \in Sessions : sess'[t] = IF t = s THEN x ELSE sess[t]
  BY DEF SrvInv
<1>2. \A t \in Sessions : Sound(sess'[t]) /\ (sess'[t].obj = "none" <=> sess[t].obj = "none")
  BY <1>1 DEF SrvInv
<1>3. ListenerSurvives'
  BY <1>2 DEF SrvInv, ListenerSurvives
<1>4. (\A t \in Sessions : Sound(sess[t]))'
  BY <1>2 DEF Sound
<1> QED BY <1>1, <1>3, <1>4 DEF SrvInv

\* What every server's connections do keeps the invariant.
LEMMA SrvStepInv ==
    ASSUME SrvInv, SrvStep
    PROVE  SrvInv'
<1>1. CASE \E result \in {"ok", "bind", "listen"} : listen(result)
  BY <1>1 DEF SrvInv, listen, ListenerSurvives
<1>2. CASE \E s \in Sessions, ok \in BOOLEAN : on_connection(s, ok)
  <2>1. PICK s \in Sessions, ok \in BOOLEAN : on_connection(s, ok)
    BY <1>2
  <2>2. CASE ~ok
    BY <2>1, <2>2 DEF on_connection, SrvInv, ListenerSurvives
  <2>3. CASE ok
    <3> DEFINE x == [NoSession EXCEPT !.obj = "live", !.handle = "open", !.alive = TRUE]
               y == IF kind = "shell" THEN Written(x) ELSE x
    <3>1. x \in Session /\ Sound(x) /\ x.obj = "live" /\ x.writes < MaxWrites
      <4>1. NoSession \in Session
        BY TcpServerAssumption DEF NoSession, Session
      <4>2. x \in Session
        BY <4>1 DEF Session
      <4>3. x.obj = "live" /\ x.handle = "open" /\ x.writes = NoSession.writes
        BY <4>1 DEF Session
      <4>4. NoSession.writes < MaxWrites
        BY TcpServerAssumption DEF NoSession
      <4> HIDE DEF x
      <4> QED BY <4>2, <4>3, <4>4 DEF Sound
    <3>2. y \in Session /\ Sound(y) /\ y.obj = "live"
      <4>1. Written(x) \in Session /\ Sound(Written(x)) /\ Written(x).obj = "live"
        <5> HIDE DEF x
        <5> QED BY <3>1, WrittenSound
      <4> QED BY <3>1, <4>1
    <3>3. sess' = [sess EXCEPT ![s] = y] /\ UNCHANGED <<kind, listener, misuse>> /\ listener = "listening"
      BY <2>1, <2>3 DEF on_connection
    <3> HIDE DEF y
    <3> QED BY <3>2, <3>3 DEF SrvInv, ListenerSurvives
  <2> QED BY <2>2, <2>3
<1>3. CASE \E s \in Sessions : read_error(s)
  <2>1. PICK s \in Sessions : read_error(s)
    BY <1>3
  <2>2. sess[s] \in Session /\ Sound(sess[s]) /\ sess[s].obj = "live"
    BY <2>1 DEF SrvInv, read_error
  <2>3. CASE Owner(s) = "session"
    <3> DEFINE y == [Closing(sess[s]) EXCEPT !.left = TRUE]
    <3>1. Closing(sess[s]) \in Session /\ Sound(Closing(sess[s])) /\ Closing(sess[s]).obj = "live"
      BY <2>2, ClosingSound
    <3>2. y \in Session /\ Sound(y) /\ y.obj = "live"
      BY <3>1 DEF Session, Sound
    <3>3. sess' = [sess EXCEPT ![s] = y] /\ UNCHANGED <<kind, listener, misuse>>
      BY <2>1, <2>3 DEF read_error
    <3> HIDE DEF y
    <3> QED BY <2>2, <3>2, <3>3, OneSession
  <2>4. CASE Owner(s) # "session"
    <3> DEFINE y == [sess[s] EXCEPT !.left = TRUE]
    <3>1. y \in Session /\ Sound(y)
      BY <2>2 DEF Session, Sound
    <3>2. sess' = [sess EXCEPT ![s] = y] /\ listener' = "closed" /\ kind' = "usock" /\ misuse' = misuse
      BY <2>1, <2>4, <2>2 DEF read_error, Owner, Session, SrvInv
    <3> HIDE DEF y
    <3> QED BY <3>1, <3>2 DEF SrvInv, ListenerSurvives
  <2> QED BY <2>3, <2>4
<1>4. CASE \E s \in Sessions : write_cb(s)
  <2>1. PICK s \in Sessions : write_cb(s)
    BY <1>4
  <2> DEFINE y == [sess[s] EXCEPT !.writes = sess[s].writes - 1]
  <2>2. sess[s] \in Session /\ Sound(sess[s]) /\ sess[s].writes > 0
    BY <2>1 DEF SrvInv, write_cb
  <2>3. sess[s].obj = "live"
    BY <2>2 DEF Session, Sound
  <2>4. y \in Session /\ Sound(y) /\ y.obj = "live"
    BY <2>2, <2>3, TcpServerAssumption DEF Session, Sound
  <2>5. sess' = [sess EXCEPT ![s] = y] /\ UNCHANGED <<kind, listener, misuse>>
    BY <2>1, <2>3 DEF write_cb, Touch
  <2> HIDE DEF y
  <2> QED BY <2>3, <2>4, <2>5, OneSession
<1>5. CASE \E s \in Sessions : close_cb(s)
  <2>1. PICK s \in Sessions : close_cb(s)
    BY <1>5
  <2> DEFINE y == [sess[s] EXCEPT !.handle = "closed", !.obj = "deleted"]
  <2>2. sess[s] \in Session /\ Sound(sess[s]) /\ sess[s].handle = "closing" /\ sess[s].writes = 0
    BY <2>1 DEF SrvInv, close_cb
  <2>3. y \in Session /\ Sound(y) /\ y.obj = "deleted" /\ sess[s].obj # "none"
    BY <2>2 DEF Session, Sound
  <2>4. sess' = [sess EXCEPT ![s] = y] /\ UNCHANGED <<kind, listener, misuse>>
    BY <2>1 DEF close_cb
  <2> HIDE DEF y
  <2> QED BY <2>3, <2>4, OneSession
<1> QED BY <1>1, <1>2, <1>3, <1>4, <1>5 DEF SrvStep, SrvDone

\* The lines of a shell and the writes of a Unix-socket server keep it, too.
LEMMA ShellStepInv ==
    ASSUME SrvInv, ShellNext
    PROVE  SrvInv'
<1>1. CASE SrvStep
  BY <1>1, SrvStepInv
<1>2. CASE \E s \in Sessions : \E line \in {"empty", "exit", "help"} : on_client_recv(s, line)
  <2>1. PICK s \in Sessions, line \in {"empty", "exit", "help"} : on_client_recv(s, line)
    BY <1>2
  <2> DEFINE x == sess[s]
             y == exec(s, line)
  <2>2. x \in Session /\ Sound(x) /\ x.obj = "live" /\ x.writes + 2 <= MaxWrites
    BY <2>1 DEF SrvInv, on_client_recv
  <2>3. x.writes < MaxWrites /\ x.writes \in Nat
    BY <2>2, TcpServerAssumption DEF Session
  <2>4. /\ Written(x) \in Session /\ Sound(Written(x)) /\ Written(x).obj = "live"
        /\ Written(x).writes \in {x.writes, x.writes + 1}
    BY <2>2, <2>3, WrittenSound
  <2>5. /\ Closing(Written(x)) \in Session /\ Sound(Closing(Written(x))) /\ Closing(Written(x)).obj = "live"
        /\ Closing(Written(x)).writes = Written(x).writes
    BY <2>4, ClosingSound
  <2>6. y \in {x, Written(x), Closing(Written(x))}
    BY DEF exec, exec_exit
  <2>7. y \in Session /\ Sound(y) /\ y.obj = "live" /\ y.writes < MaxWrites
    <3>1. Written(x).writes < MaxWrites
      BY <2>2, <2>3, <2>4, TcpServerAssumption
    <3> HIDE DEF x, y
    <3> QED BY <2>2, <2>3, <2>4, <2>5, <2>6, <3>1
  <2>8. Written(y) \in Session /\ Sound(Written(y)) /\ Written(y).obj = "live"
    <3> HIDE DEF y
    <3> QED BY <2>7, WrittenSound
  <2>9. sess' = [sess EXCEPT ![s] = Written(y)] /\ UNCHANGED <<kind, listener, misuse>>
    BY <2>1, <2>7 DEF on_client_recv
  <2> HIDE DEF y
  <2> QED BY <2>2, <2>8, <2>9, OneSession
<1>3. CASE \E s \in Sessions : Send(s)
  <2>1. PICK s \in Sessions : Send(s)
    BY <1>3
  <2>2. sess[s] \in Session /\ Sound(sess[s]) /\ sess[s].obj = "live" /\ sess[s].writes < MaxWrites
    BY <2>1 DEF SrvInv, Send
  <2>3. Written(sess[s]) \in Session /\ Sound(Written(sess[s])) /\ Written(sess[s]).obj = "live"
    BY <2>2, WrittenSound
  <2>4. sess' = [sess EXCEPT ![s] = Written(sess[s])] /\ UNCHANGED <<kind, listener, misuse>>
    BY <2>1, <2>2 DEF Send, Touch
  <2> QED BY <2>2, <2>3, <2>4, OneSession
<1> QED BY <1>1, <1>2, <1>3 DEF ShellNext

\* lidig_tcp_server with lidig_shell, and lidig_usock_server, for any number of
\* connections: no connection is used after its end, and the listener survives.
THEOREM ShellSound == ShellSpec => []ServersAreSound
<1>1. SrvInit({"shell", "usock"}) => SrvInv
  BY SrvInitInv
<1>2. SrvInv /\ [ShellNext]_srvVars => SrvInv'
  <2>1. SrvInv /\ UNCHANGED srvVars => SrvInv'
    BY DEF SrvInv, srvVars, ListenerSurvives
  <2> QED BY <2>1, ShellStepInv
<1> QED BY <1>1, <1>2, SrvInvSound, PTL DEF ShellSpec

(***************************************************************************)
(* lidig_http_client                                                        *)
(***************************************************************************)
WireMessage == [method : Nat, header : SUBSET Nat, body : SUBSET Nat, alive : BOOLEAN]

ClientTypeOK ==
    /\ link \in {"none", "connecting", "open"}
    /\ method \in 0 .. request /\ request \in Nat
    /\ send_body \subseteq 1 .. request /\ send_header = send_body
    /\ wire \in Seq(WireMessage)

\* What waits to be sent: with a method, that request's body among others, and
\* those of the others are of attempts that failed; while no connection is being
\* made, all of them are.
WaitingIsOwn ==
    /\ IF method = 0 THEN send_body = {} ELSE method \in send_body
    /\ send_body \ {method} \subseteq broken
    /\ link # "connecting" => send_body \subseteq broken

\* What went out is not waiting any more.
SentIsGone == \A i \in 1 .. Len(wire) : wire[i].body \subseteq (1 .. request) \ send_body

\* The inductive invariant of the client.
ClientInv == ClientTypeOK /\ WaitingIsOwn /\ SentIsGone /\ RequestsAreOwn

\* send_data of a request that has its own body, with bodies that were not sent
\* before, keeps to one message per request.
LEMMA SendDataOwn ==
    ASSUME ClientTypeOK, SentIsGone, RequestsAreOwn, request' \in {request, request + 1},
           NEW m \in 1 .. request', NEW body \in SUBSET (1 .. request'), NEW alive \in BOOLEAN,
           m \in body, body \subseteq send_body \cup {request + 1}, body \ {m} \subseteq broken',
           broken \subseteq broken',
           send_data(m, body, body, alive)
    PROVE  /\ wire' \in Seq(WireMessage) /\ RequestsAreOwn'
           /\ send_header' = {} /\ send_body' = {} /\ method' = 0
           /\ \A i \in 1 .. Len(wire') : wire'[i].body \subseteq 1 .. request'
<1> DEFINE new == [method |-> m, header |-> body, body |-> body, alive |-> alive]
           n == Len(wire)
<1>1. new \in WireMessage /\ new.method = m /\ new.header = body /\ new.body = body
  BY DEF WireMessage, ClientTypeOK
<1>2. wire' = Append(wire, new) /\ send_header' = {} /\ send_body' = {} /\ method' = 0
  BY DEF send_data
<1> HIDE DEF new
<1>3. n \in Nat /\ wire' \in Seq(WireMessage) /\ Len(wire') = n + 1 /\ wire'[n + 1] = new
      /\ \A i \in 1 .. n : wire'[i] = wire[i]
  BY <1>1, <1>2, AppendProperties DEF ClientTypeOK
<1>4. \A i \in 1 .. n : /\ wire[i].body \subseteq (1 .. request) \ send_body
                        /\ wire[i].method \in wire[i].body /\ wire[i].body = wire[i].header
                        /\ wire[i].body \ {wire[i].method} \subseteq broken
  BY DEF SentIsGone, RequestsAreOwn, OwnBody
<1>5. \A i, j \in 1 .. n : i # j => wire[i].method # wire[j].method /\ wire[i].body \cap wire[j].body = {}
  BY DEF RequestsAreOwn, SentOnce
<1>6. request \in Nat /\ send_body \subseteq 1 .. request
  BY DEF ClientTypeOK
<1> HIDE DEF n
<1>7. \A i \in 1 .. n : wire[i].body \cap body = {} /\ wire[i].method # m
  <2> SUFFICES ASSUME NEW i \in 1 .. n PROVE wire[i].body \cap body = {} /\ wire[i].method # m
    OBVIOUS
  <2>1. wire[i].body \subseteq (1 .. request) \ send_body /\ wire[i].method \in wire[i].body
    BY <1>4
  <2>2. request + 1 \notin 1 .. request
    BY <1>6
  <2> QED BY <2>1, <2>2
<1>8. \A i \in 1 .. n + 1 : i \in 1 .. n \/ i = n + 1
  BY <1>3
<1>9. OwnBody'
  <2> SUFFICES ASSUME NEW i \in 1 .. n + 1
               PROVE  /\ wire'[i].method \in wire'[i].body /\ wire'[i].body = wire'[i].header
                      /\ wire'[i].body \ {wire'[i].method} \subseteq broken'
    BY <1>3 DEF OwnBody
  <2>1. CASE i = n + 1
    BY <1>1, <1>3, <2>1
  <2>2. CASE i \in 1 .. n
    BY <1>3, <1>4, <2>2
  <2> QED BY <1>8, <2>1, <2>2
<1>10. SentOnce'
  <2> SUFFICES ASSUME NEW i \in 1 .. n + 1, NEW j \in 1 .. n + 1, i # j
               PROVE  wire'[i].method # wire'[j].method /\ wire'[i].body \cap wire'[j].body = {}
    BY <1>3 DEF SentOnce
  <2>1. CASE i = n + 1 /\ j \in 1 .. n
    BY <1>1, <1>3, <1>7, <2>1
  <2>2. CASE j = n + 1 /\ i \in 1 .. n
    BY <1>1, <1>3, <1>7, <2>2
  <2>3. CASE i \in 1 .. n /\ j \in 1 .. n
    BY <1>3, <1>5, <2>3
  <2> QED BY <1>8, <2>1, <2>2, <2>3
<1>11. \A i \in 1 .. n + 1 : wire'[i].body \subseteq 1 .. request'
  <2> SUFFICES ASSUME NEW i \in 1 .. n + 1 PROVE wire'[i].body \subseteq 1 .. request'
    OBVIOUS
  <2>1. CASE i = n + 1
    BY <1>1, <1>3, <2>1
  <2>2. CASE i \in 1 .. n
    <3>1. 1 .. request \subseteq 1 .. request'
      BY <1>6
    <3> QED BY <1>3, <1>4, <2>2, <3>1
  <2> QED BY <1>8, <2>1, <2>2
<1> QED BY <1>2, <1>3, <1>9, <1>10, <1>11 DEF RequestsAreOwn

\* Nothing is sent: what went out stays as it was.
LEMMA NothingSent ==
    ASSUME ClientInv, UNCHANGED wire, broken \subseteq broken', request' \in {request, request + 1},
           send_body' \subseteq send_body \cup {request + 1}
    PROVE  RequestsAreOwn' /\ SentIsGone'
<1>1. OwnBody'
  BY DEF ClientInv, RequestsAreOwn, OwnBody
<1>2. SentOnce'
  BY DEF ClientInv, RequestsAreOwn, SentOnce
<1>3. SentIsGone'
  <2>1. request \in Nat /\ 1 .. request \subseteq 1 .. request' /\ request + 1 \notin 1 .. request
    BY DEF ClientInv, ClientTypeOK
  <2>2. \A i \in 1 .. Len(wire) : wire[i].body \subseteq (1 .. request) \ send_body
    BY DEF ClientInv, SentIsGone
  <2> QED BY <2>1, <2>2 DEF SentIsGone
<1> QED BY <1>1, <1>2, <1>3 DEF RequestsAreOwn

LEMMA SendRequestInv ==
    ASSUME ClientInv, NEW url \in {"bad", "path", "host"}, NEW refused \in BOOLEAN, send_request(url, refused)
    PROVE  ClientInv'
<1> DEFINE body == send_body \cup {request'}
<1>1. /\ request \in Nat /\ request' = request + 1 /\ link # "connecting"
      /\ send_body \subseteq 1 .. request /\ send_body \subseteq broken
      /\ link \in {"none", "connecting", "open"} /\ wire \in Seq(WireMessage) /\ send_header = send_body
  BY DEF ClientInv, ClientTypeOK, WaitingIsOwn, send_request
<1>2. body \subseteq 1 .. request' /\ request' \in body /\ request' \in 1 .. request' /\ request' # 0
      /\ body \subseteq send_body \cup {request + 1} /\ body \ {request'} \subseteq broken
  BY <1>1
<1>3. CASE url = "path"
  <2>1. /\ send_data(request', body, body, link = "open") /\ UNCHANGED link
        /\ broken' = IF link = "open" THEN broken ELSE broken \cup {request'}
    BY <1>1, <1>3 DEF send_request
  <2>2. broken \subseteq broken'
    BY <2>1
  <2>3. /\ wire' \in Seq(WireMessage) /\ RequestsAreOwn'
        /\ send_header' = {} /\ send_body' = {} /\ method' = 0
        /\ \A i \in 1 .. Len(wire') : wire'[i].body \subseteq 1 .. request'
    <3>1. body \ {request'} \subseteq broken'
      BY <1>2, <2>2
    <3>2. (link = "open") \in BOOLEAN
      OBVIOUS
    <3> HIDE DEF body
    <3> QED BY <1>1, <1>2, <2>1, <2>2, <3>1, <3>2, SendDataOwn DEF ClientInv
  <2> QED BY <1>1, <2>1, <2>3 DEF ClientInv, ClientTypeOK, WaitingIsOwn, SentIsGone
<1>4. CASE url # "path"
  <2>1. /\ method' = request' /\ send_header' = body /\ send_body' = body /\ UNCHANGED wire
        /\ broken' \in {broken, broken \cup {request'}}
        /\ link' # "connecting" => request' \in broken'
        /\ link' \in {"none", "connecting", "open"}
    BY <1>1, <1>4 DEF send_request
  <2>2. RequestsAreOwn' /\ SentIsGone'
    BY <1>1, <1>2, <2>1, NothingSent
  <2>3. WaitingIsOwn'
    BY <1>1, <1>2, <2>1 DEF WaitingIsOwn
  <2> QED BY <1>1, <1>2, <2>1, <2>2, <2>3 DEF ClientInv, ClientTypeOK
<1> QED BY <1>3, <1>4

LEMMA OnConnectedInv ==
    ASSUME ClientInv, NEW status \in {-1, 0}, on_connected(status)
    PROVE  ClientInv'
<1>1. /\ request \in Nat /\ request' = request /\ method \in 0 .. request
      /\ send_body \subseteq 1 .. request /\ wire \in Seq(WireMessage) /\ send_header = send_body
      /\ send_body \ {method} \subseteq broken
      /\ IF method = 0 THEN send_body = {} ELSE method \in send_body
  BY DEF ClientInv, ClientTypeOK, WaitingIsOwn, on_connected
<1>2. CASE status < 0 \/ method = 0
  <2>1. /\ link' \in {"none", "open"} /\ UNCHANGED <<method, send_header, send_body, wire>>
        /\ broken' \in {broken, broken \cup {method}} /\ send_body \subseteq broken'
    <3>1. CASE status < 0
      BY <1>1, <3>1 DEF on_connected
    <3>2. CASE ~(status < 0)
      BY <1>1, <1>2, <3>2 DEF on_connected
    <3> QED BY <3>1, <3>2
  <2>2. RequestsAreOwn' /\ SentIsGone'
    BY <1>1, <2>1, NothingSent
  <2> QED BY <1>1, <2>1, <2>2 DEF ClientInv, ClientTypeOK, WaitingIsOwn
<1>3. CASE ~(status < 0) /\ method # 0
  <2>1. /\ send_data(method, send_body, send_body, TRUE) /\ link' = "open" /\ UNCHANGED broken
    BY <1>1, <1>3 DEF on_connected
  <2>2. /\ wire' \in Seq(WireMessage) /\ RequestsAreOwn'
        /\ send_header' = {} /\ send_body' = {} /\ method' = 0
        /\ \A i \in 1 .. Len(wire') : wire'[i].body \subseteq 1 .. request'
    <3>1. method \in 1 .. request' /\ method \in send_body
      BY <1>1, <1>3
    <3> QED BY <1>1, <2>1, <3>1, SendDataOwn DEF ClientInv
  <2> QED BY <1>1, <2>1, <2>2 DEF ClientInv, ClientTypeOK, WaitingIsOwn, SentIsGone
<1> QED BY <1>2, <1>3

\* lidig_http_client over any number of requests and connections that are refused,
\* fail or close: one message per request, with the body of that request and, at
\* most, those of requests that had failed.
THEOREM ClientSound == ClientSpec => []RequestsAreOwn
<1>1. ClientInit => ClientInv
  BY DEF ClientInit, ClientInv, ClientTypeOK, WaitingIsOwn, SentIsGone, RequestsAreOwn, OwnBody, SentOnce
<1>2. ClientInv /\ [ClientNext]_clientVars => ClientInv'
  <2> SUFFICES ASSUME ClientInv, [ClientNext]_clientVars PROVE ClientInv'
    OBVIOUS
  <2>1. CASE client_connect \/ on_disconnected \/ UNCHANGED clientVars
    <3>1. /\ UNCHANGED <<method, send_header, send_body, wire, request, broken>>
          /\ link' \in {"none", "connecting", "open"} /\ (link' # "connecting" => link # "connecting")
      BY <2>1 DEF client_connect, on_disconnected, clientVars, ClientInv, ClientTypeOK
    <3> QED BY <3>1 DEF ClientInv, ClientTypeOK, WaitingIsOwn, SentIsGone, RequestsAreOwn, OwnBody, SentOnce
  <2> QED BY <2>1, SendRequestInv, OnConnectedInv DEF ClientNext
<1>3. ClientInv => RequestsAreOwn
  BY DEF ClientInv
<1> QED BY <1>1, <1>2, <1>3, PTL DEF ClientSpec

(***************************************************************************)
(* lidig_rpc                                                                *)
(***************************************************************************)
\* A datagram's request was made, and a result comes from such a request.
Caused(d) ==
    /\ d.kind = "request" => d \in calls
    /\ d.kind = "response" =>
         \E c \in calls : /\ c.kind = "request" /\ c.from = d.to /\ c.to = d.from /\ c.body = d.body /\ Served(c)
                          /\ c.id \in {d.id, "none"}

\* The inductive invariant of the datagrams on their way.
RpcInv == \A d \in datagrams : Caused(d)

\* A result on its way belongs to a request of its receiver, for any peers, ids,
\* functions and calls, however datagrams are lost, repeated and overtaken.
THEOREM RpcSound == RpcSpec => []ResponseOfId
<1>1. RpcInit => RpcInv
  BY DEF RpcInit, RpcInv
<1>2. RpcInv /\ [RpcNext]_rpcVars => RpcInv'
  <2> SUFFICES ASSUME RpcInv, [RpcNext]_rpcVars PROVE RpcInv'
    OBVIOUS
  <2>1. CASE UNCHANGED rpcVars
    BY <2>1 DEF RpcInv, rpcVars, Caused, Served
  <2>2. ASSUME NEW d, Post(d), d.kind # "response" PROVE RpcInv'
    BY <2>2 DEF Post, RpcInv, Caused
  <2>3. CASE \E p, q \in Peers, c \in Calls : ask(p, q, c)
    BY <2>2, <2>3 DEF ask, Request
  <2>4. CASE \E p, q \in Peers : foreign(p, q)
    BY <2>2, <2>4 DEF foreign
  <2>5. CASE \E d \in datagrams : lose(d)
    BY <2>5 DEF lose, RpcInv, Caused
  <2>6. CASE \E d \in datagrams : rpc_on_read(d)
    <3>1. PICK d \in datagrams : rpc_on_read(d)
      BY <2>6
    <3>2. calls' = calls
      BY <3>1 DEF rpc_on_read
    <3>3. CASE d.kind = "request" /\ d.id # "text"
      <4>1. PICK a \in Answers(d) : datagrams' \subseteq datagrams \cup {a}
        BY <3>1, <3>3 DEF rpc_on_read
      <4>2. Caused(a)
        <5>1. d \in calls
          BY <3>3 DEF RpcInv, Caused
        <5>2. PICK i \in RequestId(d) : a = [kind |-> IF d.body.method \in Functions /\ Enough(d.body) THEN "response" ELSE "error",
                 from |-> d.to, to |-> d.from, id |-> i,
                 body |-> IF d.body.method \in Functions /\ Enough(d.body) THEN d.body ELSE NoBody]
          BY <4>1 DEF Answers
        <5>3. CASE d.body.method \in Functions /\ Enough(d.body)
          <6>1. a.kind = "response" /\ a.from = d.to /\ a.to = d.from /\ a.id = i /\ a.body = d.body
            BY <5>2, <5>3
          <6>2. Served(d) /\ d.id \in {i, "none"}
            BY <5>2, <5>3 DEF Served, Enough, RequestId
          <6> QED BY <3>3, <5>1, <6>1, <6>2 DEF Caused
        <5>4. CASE ~(d.body.method \in Functions /\ Enough(d.body))
          BY <5>2, <5>4 DEF Caused
        <5> QED BY <5>3, <5>4
      <4> QED BY <3>2, <4>1, <4>2 DEF RpcInv, Caused
    <3>4. CASE ~(d.kind = "request" /\ d.id # "text")
      <4>1. datagrams' \subseteq datagrams
        BY <3>1, <3>4 DEF rpc_on_read
      <4> QED BY <3>2, <4>1 DEF RpcInv, Caused
    <3> QED BY <3>3, <3>4
  <2> QED BY <2>1, <2>3, <2>4, <2>5, <2>6 DEF RpcNext
<1>3. RpcInv => ResponseOfId
  BY DEF RpcInv, Caused, ResponseOfId
<1> QED BY <1>1, <1>2, <1>3, PTL DEF RpcSpec
(***************************************************************************)
(* navi_http                                                                *)
(***************************************************************************)
AllNames == Items \cup {First}

\* A list without duplicates.
Distinct(list) == Cardinality(ToSet(list)) = Len(list)

LEMMA ListFinite ==
    ASSUME NEW V, NEW list \in Seq(V)
    PROVE  /\ IsFiniteSet(ToSet(list)) /\ ToSet(list) \subseteq V
           /\ Cardinality(ToSet(list)) \in Nat /\ Len(list) \in Nat
<1> DEFINE n == Len(list)
<1>1. n \in Nat /\ DOMAIN list = 1 .. n /\ list \in [1 .. n -> V]
  BY LenProperties
<1>2. list \in Surjection(1 .. n, ToSet(list))
  BY <1>1 DEF Surjection, ToSet
<1>3. IsFiniteSet(1 .. n)
  BY <1>1, FS_Interval
<1>4. IsFiniteSet(ToSet(list))
  <2> HIDE DEF n
  <2> QED BY <1>2, <1>3, FS_Surjection
<1> QED BY <1>1, <1>4, FS_CardinalityType DEF ToSet

LEMMA ListAppend ==
    ASSUME NEW V, NEW list \in Seq(V), NEW v \in V
    PROVE  /\ Append(list, v) \in Seq(V) /\ Len(Append(list, v)) = Len(list) + 1
           /\ ToSet(Append(list, v)) = ToSet(list) \cup {v}
           /\ Distinct(list) /\ v \notin ToSet(list) => Distinct(Append(list, v))
<1> DEFINE more == Append(list, v)
           n == Len(list)
<1>1. /\ more \in Seq(V) /\ n \in Nat /\ Len(more) = n + 1 /\ more[n + 1] = v
      /\ \A i \in 1 .. n : more[i] = list[i]
      /\ DOMAIN list = 1 .. n /\ DOMAIN more = 1 .. n + 1
  BY AppendProperties, LenProperties
<1> HIDE DEF more, n
<1>2. ToSet(more) = ToSet(list) \cup {v}
  <2>1. ToSet(more) \subseteq ToSet(list) \cup {v}
    <3> SUFFICES ASSUME NEW i \in 1 .. n + 1 PROVE more[i] \in ToSet(list) \cup {v}
      BY <1>1 DEF ToSet
    <3>1. i \in 1 .. n \/ i = n + 1
      BY <1>1
    <3> QED BY <1>1, <3>1 DEF ToSet
  <2>2. ToSet(list) \subseteq ToSet(more)
    <3>1. \A i \in 1 .. n : i \in 1 .. n + 1
      BY <1>1
    <3> QED BY <1>1, <3>1 DEF ToSet
  <2>3. v \in ToSet(more)
    <3>1. n + 1 \in 1 .. n + 1
      BY <1>1
    <3> QED BY <1>1, <3>1 DEF ToSet
  <2> QED BY <2>1, <2>2, <2>3
<1>3. v \notin ToSet(list) => Cardinality(ToSet(more)) = Cardinality(ToSet(list)) + 1
  BY <1>2, ListFinite, FS_AddElement
<1> QED BY <1>1, <1>2, <1>3 DEF Distinct, more, n

LEMMA EmptyDistinct == Distinct(<<>>) /\ ToSet(<<>>) = {}
<1>1. ToSet(<<>>) = {}
  BY DEF ToSet
<1> QED BY <1>1, FS_EmptySet DEF Distinct

\* Contains looks through the whole list.
LEMMA ContainsIsIn ==
    ASSUME NEW V, NEW list \in Seq(V), NEW v
    PROVE  Contains(list, v) <=> v \in ToSet(list)
BY LenProperties DEF Contains, ToSet

\* The names of one list that are not in root_ yet are appended to it, each once.
LEMMA MergedNames ==
    ASSUME NEW names \in Seq(AllNames), root \in Seq(AllNames), Distinct(root)
    PROVE  /\ Merged(names) \in Seq(AllNames) /\ Distinct(Merged(names))
           /\ ToSet(Merged(names)) = ToSet(root) \cup ToSet(names)
<1> DEFINE n == Len(names)
           W == [i \in 0 .. n |-> {r \in Seq(AllNames) : /\ Distinct(r)
                                                         /\ ToSet(r) = ToSet(root) \cup {names[k] : k \in 1 .. i}}]
           g == [i \in 1 .. n |-> [r \in W[i - 1] |-> IF Contains(r, names[i]) THEN r ELSE Append(r, names[i])]]
           Plain(f) == f = [i \in 0 .. n |-> IF i = 0 THEN root
                                 ELSE IF Contains(f[i - 1], names[i]) THEN f[i - 1] ELSE Append(f[i - 1], names[i])]
           Loop(f) == f = [i \in 0 .. n |-> IF i = 0 THEN root ELSE g[i][f[i - 1]]]
           m == CHOOSE f : Plain(f)
<1>1. n \in Nat /\ DOMAIN names = 1 .. n /\ \A i \in 1 .. n : names[i] \in AllNames
  BY LenProperties, ElementOfSeq
<1>2. root \in W[0]
  <2>1. {names[k] : k \in 1 .. 0} = {} /\ 0 \in 0 .. n
    BY <1>1
  <2> QED BY <2>1
<1>3. \A i \in 1 .. n : \A r \in W[i - 1] : g[i][r] \in W[i]
  <2> SUFFICES ASSUME NEW i \in 1 .. n, NEW r \in W[i - 1] PROVE g[i][r] \in W[i]
    OBVIOUS
  <2>1. i - 1 \in 0 .. n /\ i \in 0 .. n /\ 1 .. i = (1 .. i - 1) \cup {i} /\ names[i] \in AllNames
    BY <1>1
  <2>2. /\ r \in Seq(AllNames) /\ Distinct(r) /\ ToSet(r) = ToSet(root) \cup {names[k] : k \in 1 .. i - 1}
    BY <2>1
  <2>3. {names[k] : k \in 1 .. i} = {names[k] : k \in 1 .. i - 1} \cup {names[i]}
    BY <2>1
  <2>4. g[i][r] = IF Contains(r, names[i]) THEN r ELSE Append(r, names[i])
    OBVIOUS
  <2>5. W[i] = {q \in Seq(AllNames) : Distinct(q) /\ ToSet(q) = ToSet(root) \cup {names[k] : k \in 1 .. i}}
    BY <2>1
  <2> HIDE DEF g, W, n
  <2>6. CASE Contains(r, names[i])
    BY <2>2, <2>3, <2>4, <2>5, <2>6, ContainsIsIn
  <2>7. CASE ~Contains(r, names[i])
    <3>1. names[i] \notin ToSet(r)
      BY <2>2, <2>7, ContainsIsIn
    <3>2. /\ Append(r, names[i]) \in Seq(AllNames) /\ Distinct(Append(r, names[i]))
          /\ ToSet(Append(r, names[i])) = ToSet(r) \cup {names[i]}
      BY <2>1, <2>2, <3>1, ListAppend
    <3> QED BY <2>2, <2>3, <2>4, <2>5, <2>7, <3>2
  <2> QED BY <2>6, <2>7
<1>4. ASSUME NEW f, \A i \in 0 .. n : f[i] \in W[i]
      PROVE  Plain(f) <=> Loop(f)
  <2> SUFFICES ASSUME NEW i \in 1 .. n
               PROVE g[i][f[i - 1]] = IF Contains(f[i - 1], names[i]) THEN f[i - 1] ELSE Append(f[i - 1], names[i])
    <3>1. \A i \in 0 .. n : i = 0 \/ i \in 1 .. n
      BY <1>1
    <3> HIDE DEF g, W, n
    <3> QED BY <3>1
  <2>1. f[i - 1] \in W[i - 1]
    <3>1. i - 1 \in 0 .. n
      BY <1>1
    <3> HIDE DEF W, n
    <3> QED BY <1>4, <3>1
  <2> HIDE DEF W, n
  <2> QED BY <2>1
<1>5. \E f : Loop(f) /\ \A i \in 0 .. n : f[i] \in W[i]
  <2> HIDE DEF g, W, n
  <2>1. \E f : IsLoop(f, n, root, g) /\ \A i \in 0 .. n : f[i] \in W[i]
    BY <1>1, <1>2, <1>3, LoopExists, Zenon
  <2> QED BY <2>1 DEF IsLoop
<1>6. Plain(m)
  <2> HIDE DEF g, W, n, Plain, Loop
  <2> QED BY <1>4, <1>5
<1>7. \A i \in 0 .. n : m[i] \in W[i]
  <2>1. \A i \in 0 .. n : m[i] = IF i = 0 THEN root
             ELSE IF Contains(m[i - 1], names[i]) THEN m[i - 1] ELSE Append(m[i - 1], names[i])
    <3> HIDE DEF m, n
    <3> QED BY <1>6
  <2> HIDE DEF m
  <2>2. m[0] \in W[0]
    <3> HIDE DEF W
    <3> QED BY <1>1, <1>2, <2>1
  <2>3. ASSUME NEW i \in 1 .. n, m[i - 1] \in W[i - 1] PROVE m[i] \in W[i]
    <3>1. m[i] = IF Contains(m[i - 1], names[i]) THEN m[i - 1] ELSE Append(m[i - 1], names[i])
      BY <1>1, <2>1
    <3>2. g[i][m[i - 1]] = IF Contains(m[i - 1], names[i]) THEN m[i - 1] ELSE Append(m[i - 1], names[i])
      <4> HIDE DEF W, n
      <4> QED BY <2>3
    <3>3. g[i][m[i - 1]] \in W[i]
      <4> HIDE DEF W, n, g
      <4> QED BY <1>3, <2>3
    <3> HIDE DEF W, n, g
    <3> QED BY <3>1, <3>2, <3>3
  <2> HIDE DEF W, n
  <2> QED BY <1>1, <2>2, <2>3, LoopInvariant
<1>8. Merged(names) = m[n]
  BY DEF Merged
<1>9. Merged(names) \in W[n]
  <2> HIDE DEF W, m
  <2> QED BY <1>1, <1>7, <1>8
<1>10. n \in 0 .. n /\ {names[k] : k \in 1 .. n} = ToSet(names)
  BY <1>1 DEF ToSet
<1> HIDE DEF m, g
<1> QED BY <1>9, <1>10
Job == [op : {"list", "file", "write"}, s : Sessions, id : Nat, names : Seq(AllNames)]

\* What is known of one connection: a are the requests answered so far, R the files
\* being read for it, n its last request; piped says that some connection has
\* asked while a file was read for it.
Answered(a, R, n, p) ==
    /\ a \in Seq(Nat) /\ n \in Nat /\ IsFiniteSet(R)
    /\ Distinct(a) /\ ToSet(a) \subseteq 1 .. n
    /\ ~p => \A i \in 2 .. Len(a) : a[i - 1] < a[i]
    /\ \A j \in R : j.id \in 1 .. n /\ j.id \notin ToSet(a) /\ (~p => j.id = n)
    /\ \A j, k \in R : j.id = k.id => j = k

NaviTypeOK ==
    /\ root \in Seq(AllNames) /\ Distinct(root)
    /\ data \in [there : BOOLEAN, names : Seq(AllNames), ok : BOOLEAN] /\ Distinct(data.names)
    /\ jobs \subseteq Job /\ IsFiniteSet(jobs) /\ \A j \in jobs : Distinct(j.names)
    /\ asked \in [Sessions -> Nat] /\ answers \in [Sessions -> Seq(Nat)]
    /\ orphans \in Nat /\ blind \in BOOLEAN /\ overlap \in BOOLEAN /\ piped \in BOOLEAN

RequestsAnswered == \A s \in Sessions : Answered(answers[s], Reads(s), asked[s], piped)

\* What data.json and the one write of it that may be in flight hold: all of root_,
\* once anything was posted.
ListIsKept ==
    ~blind /\ ~overlap =>
        /\ data.ok
        /\ orphans > 0 => ToSet(data.names) \subseteq ToSet(root)
        /\ \A w \in Writes : ToSet(w.names) = ToSet(root) /\ orphans > 0
        /\ \A v, w \in Writes : v = w
        /\ orphans > 0 /\ data.there /\ Writes = {} => ToSet(data.names) = ToSet(root)

\* The inductive invariant of navi_http.
NaviInv == SrvInv /\ NaviTypeOK /\ RequestsAnswered /\ ListIsKept

\* The requests that were answered and those that wait for a file are as many as
\* their numbers.
LEMMA AnsweredCounts ==
    ASSUME NEW a, NEW R, NEW n, NEW p, Answered(a, R, n, p)
    PROVE  Cardinality(ToSet(a) \cup {j.id : j \in R}) = Len(a) + Cardinality(R)
<1> DEFINE I == {j.id : j \in R}
           f == [j \in R |-> j.id]
<1>1. f \in Bijection(R, I)
  BY DEF Answered, Bijection, Injection, Surjection, IsInjective
<1>2. IsFiniteSet(I) /\ Cardinality(I) = Cardinality(R)
  <2>1. ExistsBijection(R, I)
    BY <1>1 DEF ExistsBijection
  <2> HIDE DEF I
  <2> QED BY <2>1, FS_Bijection DEF Answered
<1>3. IsFiniteSet(ToSet(a)) /\ Cardinality(ToSet(a)) = Len(a) /\ Len(a) \in Nat
  BY ListFinite DEF Answered, Distinct
<1>4. ToSet(a) \cap I = {}
  BY DEF Answered
<1>5. Cardinality(R) \in Nat
  BY FS_CardinalityType DEF Answered
<1>6. Cardinality({}) = 0
  BY FS_EmptySet
<1> HIDE DEF I
<1>7. Cardinality(ToSet(a) \cup I) = Cardinality(ToSet(a)) + Cardinality(I) - Cardinality(ToSet(a) \cap I)
  BY <1>2, <1>3, FS_Union
<1>8. Cardinality(ToSet(a) \cup I) = Len(a) + Cardinality(R)
  <2> DEFINE x == Cardinality(ToSet(a))
             y == Cardinality(I)
             z == Cardinality(ToSet(a) \cap I)
             u == Cardinality(ToSet(a) \cup I)
  <2>1. z = 0
    BY <1>4, <1>6
  <2>2. x \in Nat /\ y \in Nat /\ x = Len(a) /\ y = Cardinality(R) /\ u = x + y - z
    BY <1>2, <1>3, <1>5, <1>7
  <2> HIDE DEF x, y, z, u
  <2>3. u = Len(a) + Cardinality(R)
    BY <2>1, <2>2
  <2> QED BY <2>3 DEF u
<1> QED BY <1>8 DEF I

LEMMA NaviInvSound == NaviInv => NaviIsSound
<1> SUFFICES ASSUME NaviInv PROVE NaviIsSound
  OBVIOUS
<1>1. AnsweredOnce
  <2> SUFFICES ASSUME NEW s \in Sessions
               PROVE  /\ Cardinality(ToSet(answers[s])) = Len(answers[s])
                      /\ ~piped => \A i \in 2 .. Len(answers[s]) : answers[s][i - 1] < answers[s][i]
                      /\ ToSet(answers[s]) \subseteq 1 .. asked[s]
                      /\ Cardinality(ToSet(answers[s]) \cup {j.id : j \in Reads(s)})
                           = Len(answers[s]) + Cardinality(Reads(s))
    BY DEF AnsweredOnce
  <2>1. Answered(answers[s], Reads(s), asked[s], piped)
    BY DEF NaviInv, RequestsAnswered
  <2>2. Cardinality(ToSet(answers[s]) \cup {j.id : j \in Reads(s)}) = Len(answers[s]) + Cardinality(Reads(s))
    BY <2>1, AnsweredCounts
  <2> QED BY <2>1, <2>2 DEF Answered, Distinct
<1>2. NoDuplicates
  BY DEF NaviInv, NaviTypeOK, NoDuplicates, Distinct
<1>3. DataIntact /\ PostsAreSaved
  BY DEF NaviInv, ListIsKept, DataIntact, PostsAreSaved
<1> QED BY <1>1, <1>2, <1>3 DEF NaviIsSound

\* A request n + 1 is answered at once.
LEMMA AnswerNow ==
    ASSUME NEW a, NEW R, NEW n, NEW p, Answered(a, R, n, p), NEW q, q = (p \/ R # {})
    PROVE  Answered(Append(a, n + 1), R, n + 1, q)
<1> DEFINE m == n + 1
           b == Append(a, m)
           l == Len(a)
<1>1. /\ a \in Seq(Nat) /\ n \in Nat /\ m \in Nat /\ Distinct(a) /\ ToSet(a) \subseteq 1 .. n /\ m \notin 1 .. n
      /\ l \in Nat /\ \A k \in 1 .. n : k < m /\ k \in 1 .. m
      /\ m \in 1 .. m
  BY DEF Answered
<1>2. b \in Seq(Nat) /\ Len(b) = l + 1 /\ ToSet(b) = ToSet(a) \cup {m} /\ Distinct(b)
  <2> HIDE DEF m
  <2> QED BY <1>1, ListAppend
<1>3. b[l + 1] = m /\ \A i \in 1 .. l : b[i] = a[i] /\ a[i] \in 1 .. n
  <2>1. \A i \in 1 .. l : a[i] \in ToSet(a)
    BY <1>1, LenProperties DEF ToSet
  <2> HIDE DEF m
  <2> QED BY <1>1, <2>1, AppendProperties
<1>4. ~q => \A i \in 2 .. l + 1 : b[i - 1] < b[i]
  <2> SUFFICES ASSUME ~q, NEW i \in 2 .. l + 1 PROVE b[i - 1] < b[i]
    OBVIOUS
  <2>0. i - 1 \in 1 .. l /\ (i = l + 1 \/ i \in 2 .. l) /\ (i \in 2 .. l => i \in 1 .. l)
    BY <1>1
  <2>1. CASE i = l + 1
    <3> HIDE DEF m, l, b
    <3> QED BY <1>1, <1>3, <2>0, <2>1
  <2>2. CASE i \in 2 .. l
    <3>1. a[i - 1] < a[i]
      BY <2>2 DEF Answered
    <3> HIDE DEF m, l, b
    <3> QED BY <1>3, <2>0, <2>2, <3>1
  <2> QED BY <2>0, <2>1, <2>2
<1>5. \A j \in R : j.id \in 1 .. m /\ j.id \notin ToSet(b) /\ (~q => j.id = m)
  <2>1. \A j \in R : j.id \in 1 .. n /\ j.id \notin ToSet(a)
    BY DEF Answered
  <2> HIDE DEF m, b
  <2> QED BY <1>1, <1>2, <2>1
<1>6. IsFiniteSet(R) /\ \A j, k \in R : j.id = k.id => j = k
  BY DEF Answered
<1>7. ToSet(b) \subseteq 1 .. m
  <2> HIDE DEF m, b
  <2> QED BY <1>1, <1>2
<1>8. Answered(b, R, m, q)
  <2> HIDE DEF m, b, l
  <2> QED BY <1>1, <1>2, <1>4, <1>5, <1>6, <1>7 DEF Answered
<1> QED BY <1>8

\* Request n + 1 waits for a file.
LEMMA AnswerLater ==
    ASSUME NEW a, NEW R, NEW n, NEW p, Answered(a, R, n, p), NEW q, q = (p \/ R # {}),
           NEW j, j.id = n + 1
    PROVE  Answered(a, R \cup {j}, n + 1, q)
<1> DEFINE m == n + 1
<1>1. /\ n \in Nat /\ m \in Nat /\ m \notin 1 .. n /\ \A k \in 1 .. n : k \in 1 .. m
      /\ m \in 1 .. m /\ ToSet(a) \subseteq 1 .. n
  BY DEF Answered
<1>2. IsFiniteSet(R \cup {j})
  BY FS_AddElement DEF Answered
<1>3. \A k \in R : k.id \in 1 .. n /\ k.id \notin ToSet(a)
  BY DEF Answered
<1>4. /\ \A k \in R \cup {j} : k.id \in 1 .. m /\ k.id \notin ToSet(a) /\ (~q => k.id = m)
      /\ \A k, l \in R \cup {j} : k.id = l.id => k = l
  <2>1. \A k, l \in R : k.id = l.id => k = l
    BY DEF Answered
  <2>2. j.id = m
    OBVIOUS
  <2> HIDE DEF m
  <2> QED BY <1>1, <1>3, <2>1, <2>2
<1>5. ToSet(a) \subseteq 1 .. m
  <2> HIDE DEF m
  <2> QED BY <1>1
<1>6. a \in Seq(Nat) /\ Distinct(a) /\ (~q => \A i \in 2 .. Len(a) : a[i - 1] < a[i])
  BY DEF Answered
<1> QED BY <1>1, <1>2, <1>4, <1>5, <1>6 DEF Answered

\* A file was read, and is answered, or not.
LEMMA AnswerRead ==
    ASSUME NEW a, NEW R, NEW n, NEW p, Answered(a, R, n, p), NEW j \in R
    PROVE  Answered(Append(a, j.id), R \ {j}, n, p) /\ Answered(a, R \ {j}, n, p)
<1> DEFINE m == j.id
           b == Append(a, m)
           l == Len(a)
<1>1. /\ a \in Seq(Nat) /\ n \in Nat /\ m \in 1 .. n /\ m \in Nat /\ Distinct(a) /\ ToSet(a) \subseteq 1 .. n
      /\ m \notin ToSet(a) /\ l \in Nat /\ (~p => m = n)
  BY DEF Answered
<1>2. IsFiniteSet(R \ {j})
  BY FS_Subset DEF Answered
<1>3. b \in Seq(Nat) /\ Len(b) = l + 1 /\ ToSet(b) = ToSet(a) \cup {m} /\ Distinct(b)
  <2> HIDE DEF m
  <2> QED BY <1>1, ListAppend
<1>4. b[l + 1] = m /\ \A i \in 1 .. l : b[i] = a[i] /\ a[i] \in ToSet(a)
  <2>1. \A i \in 1 .. l : a[i] \in ToSet(a)
    BY <1>1, LenProperties DEF ToSet
  <2> HIDE DEF m
  <2> QED BY <1>1, <2>1, AppendProperties
<1>5. ~p => \A i \in 2 .. l + 1 : b[i - 1] < b[i]
  <2> SUFFICES ASSUME ~p, NEW i \in 2 .. l + 1 PROVE b[i - 1] < b[i]
    OBVIOUS
  <2>0. i - 1 \in 1 .. l /\ (i = l + 1 \/ i \in 2 .. l) /\ (i \in 2 .. l => i \in 1 .. l)
    BY <1>1
  <2>1. CASE i = l + 1
    <3>1. a[i - 1] \in 1 .. n /\ a[i - 1] # n /\ m = n
      BY <1>1, <1>4, <2>0
    <3>2. a[i - 1] < n
      BY <1>1, <3>1
    <3> HIDE DEF m, l, b
    <3> QED BY <1>4, <2>0, <2>1, <3>1, <3>2
  <2>2. CASE i \in 2 .. l
    <3>1. a[i - 1] < a[i]
      BY <2>2 DEF Answered
    <3> HIDE DEF m, l, b
    <3> QED BY <1>4, <2>0, <2>2, <3>1
  <2> QED BY <2>0, <2>1, <2>2
<1>6. \A k \in R \ {j} : k.id \in 1 .. n /\ k.id \notin ToSet(a) /\ k.id # m /\ (~p => k.id = n)
  BY DEF Answered
<1>7. \A k, i \in R \ {j} : k.id = i.id => k = i
  BY DEF Answered
<1>8. Answered(a, R \ {j}, n, p)
  BY <1>2, <1>6, <1>7 DEF Answered
<1>9. ToSet(b) \subseteq 1 .. n /\ \A k \in R \ {j} : k.id \notin ToSet(b)
  <2> HIDE DEF m, b
  <2> QED BY <1>1, <1>3, <1>6
<1>10. Answered(b, R \ {j}, n, p)
  <2> HIDE DEF m, b, l
  <2> QED BY <1>1, <1>2, <1>3, <1>5, <1>6, <1>7, <1>9 DEF Answered
<1> QED BY <1>8, <1>10

\* Another connection has asked: only piped may change.
LEMMA AnsweredPiped ==
    ASSUME NEW a, NEW R, NEW n, NEW p, Answered(a, R, n, p), NEW q, p => q
    PROVE  Answered(a, R, n, q)
BY DEF Answered
LEMMA NaviInitInv ==
    ASSUME SrvInit({"http"}), NaviInit
    PROVE  NaviInv
<1>1. SrvInv
  BY SrvInitInv
<1>2. Distinct(<<>>) /\ ToSet(<<>>) = {} /\ <<>> \in Seq(AllNames) /\ <<>> \in Seq(Nat) /\ Len(<<>>) = 0
  BY EmptyDistinct, EmptySeq
<1>4. ASSUME NEW n \in AllNames PROVE <<n>> \in Seq(AllNames) /\ Distinct(<<n>>) /\ ToSet(<<n>>) = {n}
  <2> DEFINE e == <<>>
             l == <<n>>
  <2>1. l = Append(e, n) /\ e \in Seq(AllNames) /\ Distinct(e) /\ ToSet(e) = {}
    BY <1>2
  <2> HIDE DEF e, l
  <2>2. l \in Seq(AllNames) /\ Distinct(l) /\ ToSet(l) = {n}
    BY <2>1, ListAppend
  <2> QED BY <2>2 DEF l
<1>5. ASSUME NEW n \in Items PROVE <<First, n>> \in Seq(AllNames) /\ Distinct(<<First, n>>)
  <2> DEFINE f == <<First>>
             l == <<First, n>>
  <2>1. First \in AllNames /\ n \in AllNames /\ n # First
    BY NaviHttpAssumption DEF AllNames
  <2>2. l = Append(f, n) /\ f \in Seq(AllNames) /\ Distinct(f) /\ ToSet(f) = {First}
    BY <1>4, <2>1
  <2> HIDE DEF f, l
  <2>3. l \in Seq(AllNames) /\ Distinct(l)
    BY <2>1, <2>2, ListAppend
  <2> QED BY <2>3 DEF l
<1>6. root = <<First>> /\ First \in AllNames
  BY DEF NaviInit, AllNames
<1>7. /\ data \in [there : BOOLEAN, names : Seq(AllNames), ok : BOOLEAN] /\ Distinct(data.names)
      /\ data.ok
  <2>1. CASE data = [there |-> FALSE, names |-> <<>>, ok |-> TRUE]
    BY <1>2, <2>1
  <2>2. CASE data \in [there : {TRUE}, names : {<<>>} \cup {<<First, n>> : n \in Items}, ok : {TRUE}]
    <3>1. data.names \in Seq(AllNames) /\ Distinct(data.names)
      BY <1>2, <1>5, <2>2
    <3> QED BY <2>2, <3>1
  <2> QED BY <2>1, <2>2 DEF NaviInit
<1>8. IsFiniteSet({})
  BY FS_EmptySet
<1>9. NaviTypeOK
  BY <1>2, <1>4, <1>6, <1>7, <1>8 DEF NaviInit, NaviTypeOK
<1>10. RequestsAnswered
  <2> SUFFICES ASSUME NEW s \in Sessions PROVE Answered(answers[s], Reads(s), asked[s], piped)
    BY DEF RequestsAnswered
  <2>1. answers[s] = <<>> /\ asked[s] = 0 /\ Reads(s) = {}
    BY DEF NaviInit, Reads
  <2> QED BY <1>2, <1>8, <2>1 DEF Answered
<1>11. ListIsKept
  BY <1>7 DEF NaviInit, ListIsKept, Writes
<1> QED BY <1>1, <1>9, <1>10, <1>11 DEF NaviInv

\* One connection's requests change, and the files being read for it.
LEMMA OneAnswered ==
    ASSUME NaviInv, NEW s \in Sessions, NEW p, piped => p,
           NEW R, NEW a \in Seq(Nat), NEW n \in Nat, Answered(a, R, n, p),
           Reads(s)' = R, \A t \in Sessions \ {s} : Reads(t)' = Reads(t),
           answers' = [answers EXCEPT ![s] = a], asked' = [asked EXCEPT ![s] = n], piped' = p
    PROVE  /\ RequestsAnswered'
           /\ answers' \in [Sessions -> Seq(Nat)] /\ asked' \in [Sessions -> Nat]
<1>0. answers \in [Sessions -> Seq(Nat)] /\ asked \in [Sessions -> Nat]
  BY DEF NaviInv, NaviTypeOK
<1>1. ASSUME NEW t \in Sessions PROVE Answered(answers'[t], Reads(t)', asked'[t], piped')
  <2>1. CASE t = s
    BY <1>0, <2>1
  <2>2. CASE t # s
    <3>1. Answered(answers[t], Reads(t), asked[t], piped)
      BY DEF NaviInv, RequestsAnswered
    <3>2. Answered(answers[t], Reads(t), asked[t], p)
      BY <3>1, AnsweredPiped
    <3>3. answers'[t] = answers[t] /\ asked'[t] = asked[t] /\ Reads(t)' = Reads(t)
      BY <1>0, <2>2
    <3> QED BY <3>2, <3>3
  <2> QED BY <2>1, <2>2
<1> QED BY <1>0, <1>1 DEF RequestsAnswered

\* A request that is answered at once, whatever write it begins.
LEMMA AnsweredAtOnce ==
    ASSUME NaviInv, NEW s \in Sessions, asked' = [asked EXCEPT ![s] = @ + 1], piped' = (piped \/ Reads(s) # {}),
           answers' = [answers EXCEPT ![s] = Append(@, asked'[s])],
           NEW J, jobs' = jobs \cup J, \A j \in J : j.op = "write"
    PROVE  /\ RequestsAnswered'
           /\ answers' \in [Sessions -> Seq(Nat)] /\ asked' \in [Sessions -> Nat] /\ piped' \in BOOLEAN
<1>1. answers \in [Sessions -> Seq(Nat)] /\ asked \in [Sessions -> Nat] /\ piped \in BOOLEAN
  BY DEF NaviInv, NaviTypeOK
<1> DEFINE n == asked[s]
           a == answers[s]
<1>2. asked'[s] = n + 1 /\ n \in Nat /\ a \in Seq(Nat) /\ n + 1 \in Nat
  BY <1>1
<1>3. Answered(a, Reads(s), n, piped)
  BY DEF NaviInv, RequestsAnswered
<1>4. Answered(Append(a, n + 1), Reads(s), n + 1, piped')
  <2> HIDE DEF n, a
  <2> QED BY <1>3, AnswerNow
<1>5. \A t \in Sessions : Reads(t)' = Reads(t)
  BY DEF Reads
<1>6. /\ answers' = [answers EXCEPT ![s] = Append(a, n + 1)] /\ asked' = [asked EXCEPT ![s] = n + 1]
      /\ Append(a, n + 1) \in Seq(Nat)
  BY <1>2, <1>4 DEF Answered
<1>7. piped' \in BOOLEAN /\ (piped => piped')
  BY <1>1
<1>8. RequestsAnswered' /\ answers' \in [Sessions -> Seq(Nat)] /\ asked' \in [Sessions -> Nat]
  <2> DEFINE R == Reads(s)
             b == Append(a, n + 1)
             m == n + 1
             p == piped'
  <2>1. /\ b \in Seq(Nat) /\ m \in Nat /\ (piped => p) /\ Answered(b, R, m, p) /\ Reads(s)' = R
        /\ answers' = [answers EXCEPT ![s] = b] /\ asked' = [asked EXCEPT ![s] = m] /\ piped' = p
    BY <1>2, <1>4, <1>5, <1>6, <1>7
  <2> HIDE DEF R, b, m, p
  <2> QED BY <1>5, <2>1, OneAnswered
<1> QED BY <1>7, <1>8

\* A request that begins to read a file.
LEMMA AnsweredLater ==
    ASSUME NaviInv, NEW s \in Sessions, asked' = [asked EXCEPT ![s] = @ + 1], piped' = (piped \/ Reads(s) # {}),
           UNCHANGED answers, NEW j, jobs' = jobs \cup {j},
           j.op \in {"list", "file"}, j.s = s, j.id = asked'[s]
    PROVE  /\ RequestsAnswered'
           /\ answers' \in [Sessions -> Seq(Nat)] /\ asked' \in [Sessions -> Nat] /\ piped' \in BOOLEAN
<1>1. answers \in [Sessions -> Seq(Nat)] /\ asked \in [Sessions -> Nat] /\ piped \in BOOLEAN
  BY DEF NaviInv, NaviTypeOK
<1> DEFINE n == asked[s]
           a == answers[s]
<1>2. asked'[s] = n + 1 /\ n \in Nat /\ a \in Seq(Nat) /\ n + 1 \in Nat /\ j.id = n + 1
  BY <1>1
<1>3. Answered(a, Reads(s), n, piped)
  BY DEF NaviInv, RequestsAnswered
<1>4. Answered(a, Reads(s) \cup {j}, n + 1, piped')
  <2> DEFINE R == Reads(s)
             q == piped'
  <2>1. Answered(a, R, n, piped) /\ q = (piped \/ R # {}) /\ j.id = n + 1
    BY <1>2, <1>3
  <2> HIDE DEF n, a, R, q
  <2>2. Answered(a, R \cup {j}, n + 1, q)
    BY <2>1, AnswerLater
  <2> QED BY <2>2 DEF R, q
<1>5. Reads(s)' = Reads(s) \cup {j} /\ \A t \in Sessions \ {s} : Reads(t)' = Reads(t)
  BY DEF Reads
<1>6. answers' = [answers EXCEPT ![s] = a] /\ asked' = [asked EXCEPT ![s] = n + 1]
  BY <1>1, <1>2
<1>7. piped' \in BOOLEAN /\ (piped => piped')
  BY <1>1
<1>8. RequestsAnswered' /\ answers' \in [Sessions -> Seq(Nat)] /\ asked' \in [Sessions -> Nat]
  <2> DEFINE R == Reads(s) \cup {j}
             m == n + 1
             p == piped'
  <2>1. /\ a \in Seq(Nat) /\ m \in Nat /\ (piped => p) /\ Answered(a, R, m, p) /\ Reads(s)' = R
        /\ answers' = [answers EXCEPT ![s] = a] /\ asked' = [asked EXCEPT ![s] = m] /\ piped' = p
    BY <1>2, <1>4, <1>5, <1>6, <1>7
  <2> HIDE DEF R, m, p, a
  <2> QED BY <1>5, <2>1, OneAnswered
<1> QED BY <1>7, <1>8

\* What a request leaves of a connection it closes or answers is sound.
LEMMA AnsweredSession ==
    ASSUME SrvInv, NEW s \in Sessions, sess[s].handle = "open", sess[s].writes < MaxWrites,
           NEW x \in {Written(sess[s]), Closing(Written(sess[s]))},
           sess' = [sess EXCEPT ![s] = x], UNCHANGED <<kind, listener, misuse>>
    PROVE  SrvInv'
<1>1. sess[s] \in Session /\ Sound(sess[s])
  BY DEF SrvInv
<1>2. sess[s].obj = "live"
  BY <1>1 DEF Session, Sound
<1>3. Written(sess[s]) \in Session /\ Sound(Written(sess[s])) /\ Written(sess[s]).obj = "live"
  BY <1>1, <1>2, WrittenSound
<1>4. x \in Session /\ Sound(x) /\ x.obj = "live"
  BY <1>3, ClosingSound
<1> QED BY <1>2, <1>4, OneSession
LEMMA NextRequest ==
    ASSUME NaviInv, NEW s \in Sessions, asked' = [asked EXCEPT ![s] = @ + 1]
    PROVE  asked'[s] \in Nat
<1>1. asked \in [Sessions -> Nat]
  BY DEF NaviInv, NaviTypeOK
<1> QED BY <1>1

\* A path, or none: an answer at once, or a file to read.
LEMMA GetInv ==
    ASSUME NaviInv, NEW s \in Sessions, sess[s].handle = "open", sess[s].writes < MaxWrites,
           asked' = [asked EXCEPT ![s] = @ + 1], piped' = (piped \/ Reads(s) # {}),
           NEW path \in {"", "/dictList", "/file", "/missing"}, on_packet_get(s, asked'[s], path),
           UNCHANGED <<kind, listener, misuse>>
    PROVE  NaviInv'
<1>1. SrvInv /\ jobs \subseteq Job /\ IsFiniteSet(jobs) /\ \A j \in jobs : Distinct(j.names)
  BY DEF NaviInv, NaviTypeOK
<1>2. UNCHANGED <<root, data, orphans, blind, overlap>>
  BY DEF on_packet_get
<1>3. asked'[s] \in Nat
  BY NextRequest
<1> DEFINE Now(x) == Answer(s, asked'[s], x) /\ UNCHANGED jobs
           j(op) == [op |-> op, s |-> s, id |-> asked'[s], names |-> <<>>]
           Later(op) == jobs' = jobs \cup {j(op)} /\ UNCHANGED <<sess, answers>>
<1>4. \/ \E x \in {Written(sess[s]), Closing(Written(sess[s]))} : Now(x)
      \/ \E op \in {"list", "file"} : Later(op)
  BY DEF on_packet_get, readfile
<1>5. CASE \E x \in {Written(sess[s]), Closing(Written(sess[s]))} : Now(x)
  <2>1. PICK x \in {Written(sess[s]), Closing(Written(sess[s]))} : Now(x)
    BY <1>5
  <2>2. SrvInv'
    <3>1. sess' = [sess EXCEPT ![s] = x]
      BY <2>1 DEF Answer
    <3> QED BY <1>1, <3>1, AnsweredSession
  <2>3. /\ RequestsAnswered' /\ answers' \in [Sessions -> Seq(Nat)] /\ asked' \in [Sessions -> Nat] /\ piped' \in BOOLEAN
    <3> DEFINE J == {}
    <3>1. answers' = [answers EXCEPT ![s] = Append(@, asked'[s])] /\ jobs' = jobs \cup J
      BY <2>1 DEF Answer
    <3>2. \A i \in J : i.op = "write"
      OBVIOUS
    <3> HIDE DEF J
    <3> QED BY <3>1, <3>2, AnsweredAtOnce
  <2>4. jobs' = jobs
    BY <2>1
  <2> QED BY <1>2, <2>2, <2>3, <2>4 DEF NaviInv, NaviTypeOK, ListIsKept, Writes
<1>6. CASE \E op \in {"list", "file"} : Later(op)
  <2>1. PICK op \in {"list", "file"} : Later(op)
    BY <1>6
  <2> DEFINE i == j(op)
  <2>2. i.op = op /\ i.s = s /\ i.id = asked'[s] /\ i.names = <<>>
    OBVIOUS
  <2>3. i \in Job
    BY <1>3, EmptySeq DEF Job
  <2>4. Distinct(<<>>)
    BY EmptyDistinct
  <2>5. jobs' = jobs \cup {i} /\ UNCHANGED <<sess, answers>>
    BY <2>1
  <2> HIDE DEF i
  <2>6. /\ RequestsAnswered' /\ answers' \in [Sessions -> Seq(Nat)] /\ asked' \in [Sessions -> Nat] /\ piped' \in BOOLEAN
    BY <2>2, <2>5, AnsweredLater
  <2>7. jobs' \subseteq Job /\ IsFiniteSet(jobs') /\ \A k \in jobs' : Distinct(k.names)
    BY <1>1, <2>2, <2>3, <2>4, <2>5, FS_AddElement
  <2>8. Writes' = Writes
    BY <2>2, <2>5 DEF Writes
  <2>9. SrvInv'
    BY <1>1, <2>5 DEF SrvInv, ListenerSurvives
  <2> QED BY <1>2, <2>6, <2>7, <2>8, <2>9 DEF NaviInv, NaviTypeOK, ListIsKept
<1> QED BY <1>4, <1>5, <1>6

\* A post: what it merges is what the new write of data.json holds.
LEMMA PostInv ==
    ASSUME NaviInv, NEW s \in Sessions, sess[s].handle = "open", sess[s].writes < MaxWrites,
           asked' = [asked EXCEPT ![s] = @ + 1], piped' = (piped \/ Reads(s) # {}),
           NEW names \in Seq(AllNames), NEW json \in BOOLEAN, on_packet_post(s, asked'[s], names, json),
           UNCHANGED <<kind, listener, misuse>>
    PROVE  NaviInv'
<1>1. /\ SrvInv /\ jobs \subseteq Job /\ IsFiniteSet(jobs) /\ \A j \in jobs : Distinct(j.names)
      /\ root \in Seq(AllNames) /\ Distinct(root) /\ orphans \in Nat
  BY DEF NaviInv, NaviTypeOK
<1>2. asked'[s] \in Nat
  BY NextRequest
<1>3. /\ root' = IF json THEN Merged(names) ELSE root
      /\ Answer(s, asked'[s], Written(sess[s]))
      /\ IF data.there THEN Rewrite(s, asked'[s], names) ELSE UNCHANGED jobs
      /\ orphans' = orphans + 1 /\ data' = data
      /\ blind' = (blind \/ ~(ToSet(data.names) \subseteq ToSet(root')))
      /\ overlap' = (overlap \/ Writes # {})
  BY DEF on_packet_post
<1>4. root' \in Seq(AllNames) /\ Distinct(root')
  <2>1. CASE json
    BY <1>1, <1>3, <2>1, MergedNames
  <2>2. CASE ~json
    BY <1>1, <1>3, <2>2
  <2> QED BY <2>1, <2>2
<1> DEFINE w == [op |-> "write", s |-> s, id |-> asked'[s], names |-> root']
           J == IF data.there THEN {w} ELSE {}
<1>5. w \in Job /\ w.op = "write" /\ w.names = root'
  BY <1>2, <1>4 DEF Job
<1>6. jobs' = jobs \cup J
  BY <1>3 DEF Rewrite
<1> HIDE DEF w
<1>7. /\ RequestsAnswered' /\ answers' \in [Sessions -> Seq(Nat)] /\ asked' \in [Sessions -> Nat] /\ piped' \in BOOLEAN
  <2>1. answers' = [answers EXCEPT ![s] = Append(@, asked'[s])]
    BY <1>3 DEF Answer
  <2>2. \A j \in J : j.op = "write"
    BY <1>5
  <2> HIDE DEF J
  <2> QED BY <1>6, <2>1, <2>2, AnsweredAtOnce
<1>8. SrvInv'
  <2>1. sess' = [sess EXCEPT ![s] = Written(sess[s])]
    BY <1>3 DEF Answer
  <2> QED BY <1>1, <2>1, AnsweredSession
<1>9. jobs' \subseteq Job /\ IsFiniteSet(jobs') /\ \A j \in jobs' : Distinct(j.names)
  <2>1. J \in {{}, {w}}
    OBVIOUS
  <2> HIDE DEF J
  <2>2. CASE J = {}
    BY <1>1, <1>6, <2>2
  <2>3. CASE J = {w}
    BY <1>1, <1>4, <1>5, <1>6, <2>3, FS_AddElement
  <2> QED BY <2>1, <2>2, <2>3
<1>10. blind' \in BOOLEAN /\ overlap' \in BOOLEAN /\ orphans' \in Nat /\ orphans' > 0
  BY <1>1, <1>3 DEF NaviInv, NaviTypeOK
<1>11. ListIsKept'
  <2> SUFFICES ASSUME ~blind', ~overlap'
               PROVE  /\ data.ok
                      /\ ToSet(data.names) \subseteq ToSet(root')
                      /\ \A v \in Writes' : ToSet(v.names) = ToSet(root')
                      /\ \A u, v \in Writes' : u = v
                      /\ data.there => Writes' # {}
    BY <1>3, <1>10 DEF ListIsKept
  <2>1. ~blind /\ ~overlap /\ Writes = {} /\ ToSet(data.names) \subseteq ToSet(root')
    BY <1>3
  <2>2. data.ok
    BY <2>1 DEF NaviInv, ListIsKept
  <2>3. Writes' = J
    BY <1>5, <1>6, <2>1 DEF Writes
  <2> QED BY <1>5, <2>1, <2>2, <2>3
<1> QED BY <1>3, <1>4, <1>7, <1>8, <1>9, <1>10, <1>11 DEF NaviInv, NaviTypeOK

LEMMA PacketInv ==
    ASSUME NaviInv, NEW s \in Sessions, on_packet(s)
    PROVE  NaviInv'
<1>1. /\ sess[s].handle = "open" /\ sess[s].writes < MaxWrites
      /\ asked' = [asked EXCEPT ![s] = @ + 1] /\ piped' = (piped \/ Reads(s) # {})
      /\ UNCHANGED <<kind, listener, misuse>>
  BY DEF on_packet
<1>2. ASSUME NEW path \in {"", "/dictList", "/file", "/missing"}, on_packet_get(s, asked'[s], path)
      PROVE  NaviInv'
  BY <1>1, <1>2, GetInv
<1>3. ASSUME NEW n \in Items, NEW json \in BOOLEAN, on_packet_post(s, asked'[s], <<n>>, json)
      PROVE  NaviInv'
  <2>1. <<n>> \in Seq(AllNames)
    BY DEF AllNames
  <2> QED BY <1>1, <1>3, <2>1, PostInv
<1> QED BY <1>2, <1>3 DEF on_packet

\* A file has been read: data.json's names are merged, and the connection that
\* asked is answered if it is still there.
LEMMA ReadInv ==
    ASSUME NaviInv, NEW j \in jobs, j.op # "write", sess[j.s].writes < MaxWrites,
           NEW nread \in BOOLEAN, file_on_read(j, nread)
    PROVE  NaviInv'
<1>1. /\ SrvInv /\ jobs \subseteq Job /\ IsFiniteSet(jobs) /\ \A i \in jobs : Distinct(i.names)
      /\ root \in Seq(AllNames) /\ Distinct(root)
      /\ data \in [there : BOOLEAN, names : Seq(AllNames), ok : BOOLEAN]
      /\ answers \in [Sessions -> Seq(Nat)] /\ asked \in [Sessions -> Nat]
  BY DEF NaviInv, NaviTypeOK
<1>2. j \in Job /\ j.op \in {"list", "file"} /\ j.s \in Sessions /\ data.names \in Seq(AllNames)
  BY <1>1 DEF Job
<1>3. /\ jobs' = jobs \ {j}
      /\ root' = IF nread /\ j.op = "list" /\ data.ok THEN Merged(data.names) ELSE root
      /\ UNCHANGED <<kind, listener, data, asked, orphans, blind, overlap, piped>>
  BY DEF file_on_read
<1>4. /\ root' \in Seq(AllNames) /\ Distinct(root')
      /\ ToSet(root') \in {ToSet(root), ToSet(root) \cup ToSet(data.names)}
  <2>1. CASE nread /\ j.op = "list" /\ data.ok
    BY <1>1, <1>2, <1>3, <2>1, MergedNames
  <2>2. CASE ~(nread /\ j.op = "list" /\ data.ok)
    BY <1>1, <1>3, <2>2
  <2> QED BY <2>1, <2>2
<1> DEFINE s == j.s
           a == answers[s]
           R == Reads(s)
           n == asked[s]
           b == Append(a, j.id)
<1>5. Answered(a, R, n, piped) /\ j \in R
  BY <1>2 DEF NaviInv, RequestsAnswered, Reads
<1>6. Answered(b, R \ {j}, n, piped) /\ Answered(a, R \ {j}, n, piped)
  <2> HIDE DEF a, n, R
  <2> QED BY <1>5, AnswerRead
<1>7. Reads(s)' = R \ {j} /\ \A t \in Sessions \ {s} : Reads(t)' = Reads(t)
  BY <1>2, <1>3 DEF Reads
<1>8. /\ SrvInv'
      /\ answers' = [answers EXCEPT ![s] = a] \/ answers' = [answers EXCEPT ![s] = b]
  <2>0. answers = [answers EXCEPT ![s] = a]
    BY <1>1, <1>2
  <2>1. CASE ~nread
    <3>1. UNCHANGED <<sess, answers, misuse>>
      BY <2>1 DEF file_on_read
    <3> QED BY <1>1, <1>3, <2>0, <3>1 DEF SrvInv, ListenerSurvives
  <2>2. CASE nread /\ sess[s].obj # "live"
    <3>1. UNCHANGED <<sess, answers>> /\ misuse' = "answer to a deleted connection"
      BY <2>2 DEF file_on_read
    <3> QED BY <1>1, <1>3, <2>0, <3>1 DEF SrvInv, ListenerSurvives
  <2>3. CASE nread /\ sess[s].obj = "live"
    <3>1. /\ sess' = [sess EXCEPT ![s] = Written(sess[s])] /\ misuse' = misuse
          /\ answers' = [answers EXCEPT ![s] = b]
      BY <2>3 DEF file_on_read, Answer
    <3>2. sess[s] \in Session /\ Sound(sess[s]) /\ sess[s].writes < MaxWrites
      BY <1>1, <1>2 DEF SrvInv
    <3>3. Written(sess[s]) \in Session /\ Sound(Written(sess[s])) /\ Written(sess[s]).obj = "live"
      BY <2>3, <3>2, WrittenSound
    <3>4. SrvInv'
      BY <1>1, <1>2, <1>3, <2>3, <3>1, <3>3, OneSession
    <3> QED BY <3>1, <3>4
  <2> QED BY <2>1, <2>2, <2>3
<1>9. RequestsAnswered' /\ answers' \in [Sessions -> Seq(Nat)] /\ asked' \in [Sessions -> Nat]
  <2>1. asked' = [asked EXCEPT ![s] = n] /\ n \in Nat /\ piped' = piped /\ s \in Sessions
    BY <1>1, <1>2, <1>3
  <2>2. PICK c \in {a, b} : answers' = [answers EXCEPT ![s] = c]
    BY <1>8
  <2>3. c \in Seq(Nat) /\ Answered(c, R \ {j}, n, piped)
    BY <1>6, <2>2 DEF Answered
  <2> DEFINE T == R \ {j}
  <2>4. Reads(s)' = T /\ Answered(c, T, n, piped)
    BY <1>7, <2>3
  <2> HIDE DEF s, a, b, n, R, T
  <2> QED BY <1>7, <2>1, <2>2, <2>3, <2>4, OneAnswered
<1>10. IsFiniteSet(jobs') /\ jobs' \subseteq Job /\ \A i \in jobs' : Distinct(i.names)
  BY <1>1, <1>3, FS_Subset
<1>11. ListIsKept'
  <2>1. Writes' = Writes
    BY <1>2, <1>3 DEF Writes
  <2> SUFFICES ASSUME ~blind, ~overlap
               PROVE  /\ data.ok
                      /\ orphans > 0 => ToSet(data.names) \subseteq ToSet(root')
                      /\ \A w \in Writes : ToSet(w.names) = ToSet(root') /\ orphans > 0
                      /\ \A v, w \in Writes : v = w
                      /\ orphans > 0 /\ data.there /\ Writes = {} => ToSet(data.names) = ToSet(root')
    BY <1>3, <2>1 DEF ListIsKept
  <2>2. /\ data.ok /\ (orphans > 0 => ToSet(data.names) \subseteq ToSet(root))
        /\ \A w \in Writes : ToSet(w.names) = ToSet(root) /\ orphans > 0
        /\ \A v, w \in Writes : v = w
        /\ orphans > 0 /\ data.there /\ Writes = {} => ToSet(data.names) = ToSet(root)
    BY DEF NaviInv, ListIsKept
  <2>3. orphans > 0 => ToSet(root') = ToSet(root)
    BY <1>4, <2>2
  <2> QED BY <2>2, <2>3
<1> QED BY <1>3, <1>4, <1>8, <1>9, <1>10, <1>11 DEF NaviInv, NaviTypeOK

\* A write of data.json is done: not a shorter list, if it was the only one and what
\* data.json held had been read.
LEMMA WriteInv ==
    ASSUME NaviInv, NEW j \in jobs, j.op = "write", on_write(j)
    PROVE  NaviInv'
<1>1. /\ SrvInv /\ jobs \subseteq Job /\ IsFiniteSet(jobs) /\ \A i \in jobs : Distinct(i.names)
      /\ data \in [there : BOOLEAN, names : Seq(AllNames), ok : BOOLEAN] /\ Distinct(data.names)
      /\ answers \in [Sessions -> Seq(Nat)] /\ asked \in [Sessions -> Nat]
  BY DEF NaviInv, NaviTypeOK
<1>2. j \in Job /\ j.names \in Seq(AllNames) /\ Distinct(j.names) /\ data.names \in Seq(AllNames) /\ j \in Writes
  BY <1>1 DEF Job, Writes
<1>3. /\ jobs' = jobs \ {j}
      /\ data' = IF Len(j.names) >= Len(data.names) THEN [data EXCEPT !.names = j.names, !.ok = TRUE]
                 ELSE [data EXCEPT !.ok = FALSE]
      /\ UNCHANGED <<srvVars, root, asked, answers, orphans, blind, overlap, piped>>
  BY DEF on_write
<1>4. SrvInv'
  BY <1>1, <1>3 DEF SrvInv, ListenerSurvives, srvVars
<1>5. RequestsAnswered'
  <2>1. \A s \in Sessions : Reads(s)' = Reads(s)
    BY <1>3 DEF Reads
  <2> QED BY <1>3, <2>1 DEF NaviInv, RequestsAnswered
<1>6. data' \in [there : BOOLEAN, names : Seq(AllNames), ok : BOOLEAN] /\ Distinct(data'.names)
  <2>1. CASE Len(j.names) >= Len(data.names)
    <3>1. data' = [data EXCEPT !.names = j.names, !.ok = TRUE]
      BY <1>3, <2>1
    <3>2. data'.names = j.names
      BY <1>1, <3>1
    <3> QED BY <1>1, <1>2, <3>1, <3>2
  <2>2. CASE ~(Len(j.names) >= Len(data.names))
    <3>1. data' = [data EXCEPT !.ok = FALSE]
      BY <1>3, <2>2
    <3>2. data'.names = data.names
      BY <1>1, <3>1
    <3> QED BY <1>1, <1>2, <3>1, <3>2
  <2> QED BY <2>1, <2>2
<1>7. IsFiniteSet(jobs') /\ jobs' \subseteq Job /\ \A i \in jobs' : Distinct(i.names)
  BY <1>1, <1>3, FS_Subset
<1>8. ListIsKept'
  <2> SUFFICES ASSUME ~blind, ~overlap
               PROVE  data'.ok /\ data'.names = j.names /\ Writes' = {} /\ ToSet(j.names) = ToSet(root)
    BY <1>3 DEF ListIsKept
  <2>1. /\ ToSet(j.names) = ToSet(root) /\ orphans > 0 /\ ToSet(data.names) \subseteq ToSet(root)
        /\ \A w \in Writes : w = j
    BY <1>2 DEF NaviInv, ListIsKept
  <2>2. Writes' = {}
    BY <1>3, <2>1 DEF Writes
  <2>3. Len(j.names) >= Len(data.names)
    <3>1. IsFiniteSet(ToSet(j.names)) /\ Len(j.names) \in Nat /\ Len(data.names) \in Nat
      BY <1>2, ListFinite
    <3>2. Cardinality(ToSet(data.names)) <= Cardinality(ToSet(j.names))
      BY <2>1, <3>1, FS_Subset
    <3> QED BY <1>1, <1>2, <3>1, <3>2 DEF Distinct
  <2>4. data' = [data EXCEPT !.names = j.names, !.ok = TRUE]
    BY <1>3, <2>3
  <2>5. data'.ok /\ data'.names = j.names
    BY <1>1, <2>4
  <2> QED BY <2>1, <2>2, <2>5
<1> QED BY <1>3, <1>4, <1>5, <1>6, <1>7, <1>8 DEF NaviInv, NaviTypeOK

\* navi_http with any number of connections, requests and names: every request is
\* answered once and in order, and the list on disk follows the one in memory.
THEOREM NaviSound == NaviSpec => []NaviIsSound
<1>1. SrvInit({"http"}) /\ NaviInit => NaviInv
  BY NaviInitInv
<1>2. NaviInv /\ [NaviNext]_<<srvVars, naviVars>> => NaviInv'
  <2> SUFFICES ASSUME NaviInv, [NaviNext]_<<srvVars, naviVars>> PROVE NaviInv'
    OBVIOUS
  <2>1. ASSUME UNCHANGED naviVars, SrvInv' PROVE NaviInv'
    BY <2>1 DEF NaviInv, NaviTypeOK, RequestsAnswered, ListIsKept, Reads, Writes, naviVars
  <2>2. CASE UNCHANGED <<srvVars, naviVars>>
    BY <2>1, <2>2 DEF NaviInv, SrvInv, ListenerSurvives, srvVars
  <2>3. CASE SrvStep /\ UNCHANGED naviVars
    BY <2>1, <2>3, SrvStepInv DEF NaviInv
  <2>4. CASE \E s \in Sessions : on_packet(s)
    BY <2>4, PacketInv
  <2>5. CASE NaviDone
    BY <2>5, ReadInv, WriteInv DEF NaviDone
  <2> QED BY <2>2, <2>3, <2>4, <2>5 DEF NaviNext
<1> QED BY <1>1, <1>2, NaviInvSound, PTL DEF NaviSpec

(***************************************************************************)
(* lidig_http_session: what the parser tells of any stream of messages, in   *)
(* reads of any size                                                         *)
(***************************************************************************)
\* s is the first n sequences of seqs, one after the other: sequence j begins after at[j - 1].
Laid(at, n, seqs, s) ==
    /\ at \in [0 .. n -> Nat] /\ at[0] = 0 /\ at[n] = Len(s)
    /\ \A j \in 1 .. n : at[j] = at[j - 1] + Len(seqs[j])
    /\ \A j, k \in 0 .. n : j <= k => at[j] <= at[k]
    /\ \A j \in 1 .. n : \A i \in 1 .. Len(seqs[j]) : s[at[j - 1] + i] = seqs[j][i]
    /\ \A q \in 1 .. Len(s) : \E j \in 1 .. n : \E i \in 1 .. Len(seqs[j]) : q = at[j - 1] + i

LEMMA LaidMore ==
    ASSUME NEW S, NEW seqs, NEW n \in Nat, \A j \in 1 .. n + 1 : seqs[j] \in Seq(S),
           NEW s \in Seq(S), NEW at, Laid(at, n, seqs, s)
    PROVE  \E b : Laid(b, n + 1, seqs, s \o seqs[n + 1])
<1> DEFINE t == seqs[n + 1]
           u == s \o t
           b == [j \in 0 .. n + 1 |-> IF j = n + 1 THEN at[n] + Len(t) ELSE at[j]]
<1>1. t \in Seq(S) /\ u \in Seq(S) /\ Len(u) = Len(s) + Len(t) /\ Len(s) \in Nat /\ Len(t) \in Nat
  BY ConcatProperties, LenProperties
<1>2. /\ \A i \in 1 .. Len(s) : u[i] = s[i]
      /\ \A i \in 1 .. Len(t) : u[Len(s) + i] = t[i]
  <2>1. \A i \in 1 .. Len(s) + Len(t) : u[i] = IF i <= Len(s) THEN s[i] ELSE t[i - Len(s)]
    BY <1>1, ConcatProperties
  <2> HIDE DEF u, t
  <2>2. \A i \in 1 .. Len(t) : Len(s) + i \in 1 .. Len(s) + Len(t) /\ ~(Len(s) + i <= Len(s)) /\ (Len(s) + i) - Len(s) = i
    BY <1>1
  <2>3. \A i \in 1 .. Len(s) : i \in 1 .. Len(s) + Len(t) /\ i <= Len(s)
    BY <1>1
  <2> QED BY <2>1, <2>2, <2>3
<1>3. at \in [0 .. n -> Nat] /\ at[n] = Len(s) /\ at[0] = 0
  BY DEF Laid
<1>4. b[n + 1] = at[n] + Len(t) /\ \A j \in 0 .. n : b[j] = at[j]
  OBVIOUS
<1>5. b \in [0 .. n + 1 -> Nat]
  BY <1>1, <1>3
<1>6. /\ \A j \in 0 .. n + 1 : j \in 0 .. n \/ j = n + 1
      /\ \A j \in 1 .. n + 1 : j \in 1 .. n \/ j = n + 1
      /\ \A j \in 1 .. n : j - 1 \in 0 .. n /\ j \in 0 .. n
      /\ (n + 1) - 1 = n /\ n \in 0 .. n /\ 0 \in 0 .. n
  OBVIOUS
<1> HIDE DEF b, u, t
<1>7. \A j \in 1 .. n + 1 : b[j] = b[j - 1] + Len(seqs[j])
  BY <1>4, <1>6 DEF Laid, t
<1>8. \A j, k \in 0 .. n + 1 : j <= k => b[j] <= b[k]
  <2> SUFFICES ASSUME NEW j \in 0 .. n + 1, NEW k \in 0 .. n + 1, j <= k PROVE b[j] <= b[k]
    OBVIOUS
  <2>1. CASE k \in 0 .. n
    <3>1. j \in 0 .. n
      BY <2>1
    <3> QED BY <1>4, <2>1, <3>1 DEF Laid
  <2>2. CASE k = n + 1 /\ j \in 0 .. n
    <3>1. at[j] <= at[n] /\ at[j] \in Nat /\ at[n] \in Nat
      BY <1>3, <1>6, <2>2 DEF Laid
    <3> QED BY <1>1, <1>4, <2>2, <3>1
  <2>3. CASE k = n + 1 /\ j = n + 1
    BY <1>1, <1>3, <1>4, <1>6, <2>3
  <2> QED BY <1>6, <2>1, <2>2, <2>3
<1>9. \A j \in 1 .. n + 1 : \A i \in 1 .. Len(seqs[j]) : u[b[j - 1] + i] = seqs[j][i]
  <2>1. ASSUME NEW j \in 1 .. n, NEW i \in 1 .. Len(seqs[j]) PROVE u[b[j - 1] + i] = seqs[j][i]
    <3> j - 1 \in 0 .. n /\ j \in 0 .. n /\ n \in 0 .. n /\ j <= n
      BY <1>6
    <3>0. at[j] <= at[n]
      BY DEF Laid
    <3>1. b[j - 1] = at[j - 1] /\ at[j] = at[j - 1] + Len(seqs[j]) /\ at[j] <= Len(s)
          /\ at[j - 1] \in Nat /\ at[j] \in Nat /\ s[at[j - 1] + i] = seqs[j][i]
      BY <1>3, <1>4, <3>0 DEF Laid
    <3>2. seqs[j] \in Seq(S)
      BY <1>6
    <3>3. Len(seqs[j]) \in Nat
      BY <3>2, LenProperties
    <3>4. at[j - 1] + i \in 1 .. Len(s)
      BY <1>1, <3>1, <3>3
    <3> QED BY <1>2, <3>1, <3>4
  <2>2. \A i \in 1 .. Len(t) : u[b[n] + i] = t[i]
    BY <1>2, <1>3, <1>4, <1>6
  <2> QED BY <1>6, <2>1, <2>2 DEF t
<1>10. \A q \in 1 .. Len(u) : \E j \in 1 .. n + 1 : \E i \in 1 .. Len(seqs[j]) : q = b[j - 1] + i
  <2> SUFFICES ASSUME NEW q \in 1 .. Len(u)
               PROVE  \E j \in 1 .. n + 1 : \E i \in 1 .. Len(seqs[j]) : q = b[j - 1] + i
    OBVIOUS
  <2>1. CASE q <= Len(s)
    <3>1. q \in 1 .. Len(s)
      BY <1>1, <2>1
    <3>2. PICK j \in 1 .. n : \E i \in 1 .. Len(seqs[j]) : q = at[j - 1] + i
      BY <3>1 DEF Laid
    <3>3. j \in 1 .. n + 1 /\ b[j - 1] = at[j - 1]
      BY <1>4, <1>6
    <3> QED BY <3>2, <3>3
  <2>2. CASE ~(q <= Len(s))
    <3>1. q - Len(s) \in 1 .. Len(t) /\ q = Len(s) + (q - Len(s))
      BY <1>1, <2>2
    <3>2. n + 1 \in 1 .. n + 1 /\ b[(n + 1) - 1] = Len(s)
      BY <1>3, <1>4, <1>6
    <3>3. \E i \in 1 .. Len(t) : q = b[(n + 1) - 1] + i
      BY <3>1, <3>2
    <3> QED BY <3>2, <3>3 DEF t
  <2> QED BY <2>1, <2>2
<1>11. Laid(b, n + 1, seqs, u)
  <2>1. b[0] = 0 /\ b[n + 1] = Len(u)
    BY <1>1, <1>3, <1>4, <1>6
  <2> QED BY <1>5, <1>7, <1>8, <1>9, <1>10, <2>1 DEF Laid
<1> QED BY <1>11 DEF u, t

LEMMA Flattened ==
    ASSUME NEW S, NEW seqs \in Seq(Seq(S))
    PROVE  /\ FlattenSeq(seqs) \in Seq(S)
           /\ \E at : Laid(at, Len(seqs), seqs, FlattenSeq(seqs))
<1> DEFINE n == Len(seqs)
<1>1. n \in Nat /\ \A j \in 1 .. n : seqs[j] \in Seq(S)
  BY LenProperties, ElementOfSeq
<1>2. <<>> \in Seq(S) /\ Len(<<>>) = 0 /\ \E at : Laid(at, 0, seqs, <<>>)
  <2> DEFINE at == [j \in 0 .. 0 |-> 0]
  <2>1. <<>> \in Seq(S) /\ Len(<<>>) = 0
    BY EmptySeq
  <2>2. at \in [0 .. 0 -> Nat] /\ at[0] = 0 /\ (\A j \in 0 .. 0 : j = 0) /\ 1 .. 0 = {}
    OBVIOUS
  <2>3. Laid(at, 0, seqs, <<>>)
    <3> HIDE DEF at
    <3> QED BY <2>1, <2>2 DEF Laid
  <2> QED BY <2>1, <2>3
<1>3. CASE n = 0
  <2>1. seqs = <<>>
    BY <1>3, EmptySeq
  <2> QED BY <1>2, <1>3, <2>1 DEF FlattenSeq
<1>4. CASE n > 0
  <2> DEFINE W == [k \in 0 .. n - 1 |-> {s \in Seq(S) : \E at : Laid(at, k + 1, seqs, s)}]
             g == [i \in 1 .. n - 1 |-> [v \in Seq(S) |-> v \o seqs[i + 1]]]
             base == seqs[1]
             Loop(h) == IsLoop(h, n - 1, base, g)
             Plain(f) == f = [i \in 1 .. n |-> IF i = 1 THEN seqs[i] ELSE f[i - 1] \o seqs[i]]
             Up(h) == [i \in 1 .. n |-> h[i - 1]]
             Down(f) == [i \in 0 .. n - 1 |-> f[i + 1]]
             c == CHOOSE f : Plain(f)
  <2>1. /\ n - 1 \in Nat /\ 0 \in 0 .. n - 1 /\ 1 \in 1 .. n /\ n \in 1 .. n /\ n - 1 \in 0 .. n - 1 /\ (n - 1) + 1 = n
        /\ \A i \in 1 .. n - 1 : i - 1 \in 0 .. n - 1 /\ i \in 0 .. n - 1 /\ i + 1 \in 1 .. n /\ i \in Nat /\ (i - 1) + 1 = i
                                 /\ i + 1 # 1 /\ (i + 1) - 1 = i /\ i \in 1 .. n
        /\ \A i \in 1 .. n : i - 1 \in 0 .. n - 1 /\ (i # 1 => i - 1 \in 1 .. n - 1 /\ (i - 1) + 1 = i /\ i - 1 # 0 /\ i - 1 \in 1 .. n)
    BY <1>1, <1>4
  <2>2. base \in W[0]
    <3>1. PICK at : Laid(at, 0, seqs, <<>>)
      BY <1>2
    <3>2. \A j \in 1 .. 0 + 1 : seqs[j] \in Seq(S)
      BY <1>1, <1>4
    <3>3. \E b : Laid(b, 0 + 1, seqs, <<>> \o seqs[0 + 1])
      BY <1>2, <3>1, <3>2, LaidMore
    <3>4. <<>> \o seqs[0 + 1] = seqs[1] /\ seqs[1] \in Seq(S) /\ 0 + 1 = 1
      BY <1>1, <2>1, ConcatEmptySeq
    <3>5. seqs[1] \in {s \in Seq(S) : \E at2 : Laid(at2, 0 + 1, seqs, s)}
      BY <3>3, <3>4
    <3> QED BY <2>1, <3>5
  <2>3. \A i \in 1 .. n - 1 : \A v \in W[i - 1] : g[i][v] = v \o seqs[i + 1] /\ g[i][v] \in W[i]
    <3> SUFFICES ASSUME NEW i \in 1 .. n - 1, NEW v \in W[i - 1]
                 PROVE  g[i][v] = v \o seqs[i + 1] /\ g[i][v] \in W[i]
      OBVIOUS
    <3>1. v \in Seq(S) /\ \E at : Laid(at, i, seqs, v)
      BY <2>1
    <3>2. \A j \in 1 .. i + 1 : seqs[j] \in Seq(S)
      BY <1>1, <2>1
    <3>3. \E b : Laid(b, i + 1, seqs, v \o seqs[i + 1])
      BY <2>1, <3>1, <3>2, LaidMore
    <3>4. v \o seqs[i + 1] \in Seq(S)
      BY <2>1, <3>1, <3>2, <1>1, ConcatProperties
    <3>5. g[i][v] = v \o seqs[i + 1]
      BY <3>1
    <3> QED BY <2>1, <3>3, <3>4, <3>5
  <2>4. \E h : Loop(h) /\ \A i \in 0 .. n - 1 : h[i] \in W[i]
    <3> HIDE DEF W, g, base, n
    <3> QED BY <2>1, <2>2, <2>3, LoopExists
  <2>5. \E f : Plain(f)
    <3>1. PICK h : Loop(h) /\ \A i \in 0 .. n - 1 : h[i] \in W[i]
      BY <2>4
    <3>2. \A i \in 0 .. n - 1 : h[i] = IF i = 0 THEN base ELSE g[i][h[i - 1]]
      BY <3>1 DEF IsLoop
    <3>3. \A i \in 1 .. n - 1 : h[i] = h[i - 1] \o seqs[i + 1]
      <4> HIDE DEF W, g, base
      <4> QED BY <2>1, <2>3, <3>1, <3>2
    <3>4. \A i \in 1 .. n : Up(h)[i] = IF i = 1 THEN seqs[i] ELSE Up(h)[i - 1] \o seqs[i]
      <4> SUFFICES ASSUME NEW i \in 1 .. n PROVE Up(h)[i] = IF i = 1 THEN seqs[i] ELSE Up(h)[i - 1] \o seqs[i]
        OBVIOUS
      <4>1. CASE i = 1
        <5>1. h[0] = seqs[1]
          BY <2>1, <3>2
        <5> QED BY <4>1, <5>1
      <4>2. CASE i # 1
        <5>1. i - 1 \in 1 .. n - 1 /\ (i - 1) + 1 = i /\ i - 1 \in 1 .. n
          BY <2>1, <4>2
        <5>2. h[i - 1] = h[(i - 1) - 1] \o seqs[(i - 1) + 1]
          BY <3>3, <5>1
        <5>3. Up(h)[i] = h[i - 1] /\ Up(h)[i - 1] = h[(i - 1) - 1]
          BY <5>1
        <5> QED BY <4>2, <5>1, <5>2, <5>3
      <4> QED BY <4>1, <4>2
    <3>5. Up(h) = [i \in 1 .. n |-> Up(h)[i]]
      OBVIOUS
    <3> DEFINE f == Up(h)
    <3>6. Plain(f)
      <4> HIDE DEF f
      <4>1. (\A i \in 1 .. n : f[i] = IF i = 1 THEN seqs[i] ELSE f[i - 1] \o seqs[i]) /\ f = [i \in 1 .. n |-> f[i]]
        BY <3>4, <3>5 DEF f
      <4> QED BY <4>1
    <3> HIDE DEF f, Plain
    <3> QED BY <3>6
  <2>6. Plain(c)
    <3> HIDE DEF Plain
    <3> QED BY <2>5
  <2>7. \A i \in 0 .. n - 1 : Down(c)[i] \in W[i]
    <3> DEFINE h == Down(c)
    <3>1. \A i \in 0 .. n - 1 : h[i] = c[i + 1] /\ i + 1 \in 1 .. n
      BY <1>1
    <3>2. \A i \in 1 .. n : c[i] = IF i = 1 THEN seqs[i] ELSE c[i - 1] \o seqs[i]
      <4> HIDE DEF c
      <4> QED BY <2>6
    <3> HIDE DEF h, c
    <3>3. h[0] \in W[0]
      <4>1. h[0] = seqs[1]
        BY <2>1, <3>1, <3>2
      <4> HIDE DEF W
      <4> QED BY <2>2, <4>1
    <3>4. \A i \in 1 .. n - 1 : h[i - 1] \in W[i - 1] => h[i] \in W[i]
      <4> SUFFICES ASSUME NEW i \in 1 .. n - 1, h[i - 1] \in W[i - 1] PROVE h[i] \in W[i]
        OBVIOUS
      <4>1. h[i] = c[i + 1] /\ h[i - 1] = c[i] /\ c[i + 1] = c[i] \o seqs[i + 1]
        BY <2>1, <3>1, <3>2
      <4>2. g[i][h[i - 1]] = h[i - 1] \o seqs[i + 1] /\ g[i][h[i - 1]] \in W[i]
        <5> HIDE DEF W, g
        <5> QED BY <2>3
      <4> HIDE DEF W, g
      <4> QED BY <4>1, <4>2
    <3> HIDE DEF W
    <3>5. \A i \in 0 .. n - 1 : h[i] \in W[i]
      <4> HIDE DEF n
      <4> QED BY <2>1, <3>3, <3>4, LoopInvariant
    <3> QED BY <3>5 DEF h
  <2>8. c[n] \in W[n - 1]
    <3>1. Down(c)[n - 1] = c[n]
      BY <2>1
    <3> HIDE DEF c, W
    <3> QED BY <2>1, <2>7, <3>1
  <2>9. c[n] \in Seq(S) /\ \E at : Laid(at, n, seqs, c[n])
    <3> HIDE DEF c
    <3> QED BY <2>1, <2>8
  <2>10. FlattenSeq(seqs) = c[n]
    BY <1>4 DEF FlattenSeq
  <2> HIDE DEF c
  <2> QED BY <2>9, <2>10
<1> QED BY <1>1, <1>3, <1>4

Kinds == {"start", "url", "status", "field", "value", "end", "body"}
Mark1 == [kind : Kinds, i : Nat]
UnitType == [m : Nat, e : Nat, kind : Kinds, i : Nat]

\* The elements of a message: the mark of its beginning, the first text, its headers,
\* the mark of their end, which is element Ends, and the body.
Ends(msg) == 3 + 2 * msg.heads
Size(msg, e) == IF e = 1 \/ e = Ends(msg) THEN 1 ELSE IF e = Ends(msg) + 1 THEN msg.body ELSE TextLen + 1
KindOf(msg, e) ==
    IF e = 1 THEN "start" ELSE IF e = 2 THEN (IF msg.kind = "request" THEN "url" ELSE "status")
    ELSE IF e = Ends(msg) THEN "end" ELSE IF e = Ends(msg) + 1 THEN "body"
    ELSE IF (e - 2) % 2 = 1 THEN "field" ELSE "value"

LEMMA ElementsAre ==
    ASSUME NEW msg \in Message
    PROVE  /\ Elements(msg) \in Seq(Seq(Mark1)) /\ Len(Elements(msg)) = Ends(msg) + 1
           /\ \A e \in 1 .. Ends(msg) + 1 :
                /\ Len(Elements(msg)[e]) = Size(msg, e)
                /\ \A i \in 1 .. Size(msg, e) : Elements(msg)[e][i].kind = KindOf(msg, e)
<1> DEFINE first == <<Mark("start"), Text(IF msg.kind = "request" THEN "url" ELSE "status")>>
           heads == [h \in 1 .. 2 * msg.heads |-> Text(IF h % 2 = 1 THEN "field" ELSE "value")]
           body == [i \in 1 .. msg.body |-> [kind |-> "body", i |-> i]]
           last == <<Mark("end"), body>>
           T == TextLen + 1
<1>1. T \in Nat /\ msg.heads \in Nat /\ msg.body \in Nat /\ 2 * msg.heads \in Nat
  BY HttpAssumption DEF Message
<1>2. ASSUME NEW k \in Kinds
      PROVE  /\ Text(k) \in Seq(Mark1) /\ Len(Text(k)) = T /\ \A i \in 1 .. T : Text(k)[i].kind = k
             /\ Mark(k) \in Seq(Mark1) /\ Len(Mark(k)) = 1 /\ Mark(k)[1].kind = k
  <2>1. \A i \in 1 .. T : [kind |-> k, i |-> i] \in Mark1
    BY <1>1, <1>2 DEF Mark1
  <2>2. Text(k) \in Seq(Mark1) /\ Len(Text(k)) = T
    <3>1. Text(k) \in [1 .. T -> Mark1]
      BY <2>1 DEF Text
    <3> HIDE DEF T
    <3> QED BY <1>1, <3>1
  <2>3. \A i \in 1 .. T : Text(k)[i].kind = k
    BY DEF Text
  <2>4. [kind |-> k, i |-> 1] \in Mark1
    BY <1>2 DEF Mark1
  <2> QED BY <2>2, <2>3, <2>4 DEF Mark
<1>3. body \in Seq(Mark1) /\ Len(body) = msg.body /\ \A i \in 1 .. msg.body : body[i].kind = "body"
  <2>1. body \in [1 .. msg.body -> Mark1]
    BY <1>1 DEF Mark1, Kinds
  <2> QED BY <1>1, <2>1
<1> HIDE DEF body, T
<1>4. first \in Seq(Seq(Mark1)) /\ Len(first) = 2 /\ first[1] = Mark("start")
      /\ first[2] = Text(IF msg.kind = "request" THEN "url" ELSE "status")
  BY <1>2 DEF Kinds
<1>5. last \in Seq(Seq(Mark1)) /\ Len(last) = 2 /\ last[1] = Mark("end") /\ last[2] = body
  BY <1>2, <1>3 DEF Kinds
<1>6. heads \in Seq(Seq(Mark1)) /\ Len(heads) = 2 * msg.heads
      /\ \A h \in 1 .. 2 * msg.heads : heads[h] = Text(IF h % 2 = 1 THEN "field" ELSE "value")
  <2>1. heads \in [1 .. 2 * msg.heads -> Seq(Mark1)]
    BY <1>2 DEF Kinds
  <2> QED BY <1>1, <2>1
<1> HIDE DEF first, heads, last
<1> DEFINE fh == first \o heads
           all == fh \o last
           H == 2 * msg.heads
           SS == Seq(Mark1)
<1>7. H \in Nat /\ Ends(msg) = H + 3
  BY <1>1 DEF Ends
<1>8. fh \in Seq(SS) /\ Len(fh) = 2 + H
      /\ fh[1] = first[1] /\ fh[2] = first[2] /\ \A e \in 3 .. 2 + H : fh[e] = heads[e - 2]
  <2>1. first \in Seq(SS) /\ heads \in Seq(SS) /\ Len(first) = 2 /\ Len(heads) = H
    BY <1>4, <1>6
  <2> HIDE DEF SS, H
  <2>2. /\ first \o heads \in Seq(SS)
        /\ Len(first \o heads) = Len(first) + Len(heads)
        /\ \A e \in 1 .. Len(first) + Len(heads) :
             (first \o heads)[e] = IF e <= Len(first) THEN first[e] ELSE heads[e - Len(first)]
    BY <2>1, ConcatProperties
  <2> HIDE DEF fh
  <2>3. \A e \in 1 .. 2 + H : fh[e] = IF e <= 2 THEN first[e] ELSE heads[e - 2]
    BY <2>1, <2>2 DEF fh
  <2>4. 1 \in 1 .. 2 + H /\ 2 \in 1 .. 2 + H /\ \A e \in 3 .. 2 + H : e \in 1 .. 2 + H /\ ~(e <= 2)
    BY <1>7
  <2> QED BY <2>1, <2>2, <2>3, <2>4 DEF fh
<1> HIDE DEF fh
<1>9. /\ all \in Seq(SS) /\ Len(all) = 4 + H /\ \A e \in 1 .. 2 + H : all[e] = fh[e]
      /\ all[3 + H] = Mark("end") /\ all[4 + H] = body
  <2>1. fh \in Seq(SS) /\ last \in Seq(SS) /\ Len(last) = 2 /\ Len(fh) = 2 + H
    BY <1>5, <1>8
  <2> HIDE DEF SS, H
  <2>2. /\ fh \o last \in Seq(SS)
        /\ Len(fh \o last) = Len(fh) + Len(last)
        /\ \A e \in 1 .. Len(fh) + Len(last) :
             (fh \o last)[e] = IF e <= Len(fh) THEN fh[e] ELSE last[e - Len(fh)]
    BY <2>1, ConcatProperties
  <2> HIDE DEF all
  <2>3. \A e \in 1 .. 4 + H : all[e] = IF e <= 2 + H THEN fh[e] ELSE last[e - (2 + H)]
    BY <1>7, <2>1, <2>2 DEF all
  <2>4. Len(all) = 4 + H /\ \A e \in 1 .. 2 + H : e \in 1 .. 4 + H /\ e <= 2 + H
    BY <1>7, <2>1, <2>2 DEF all
  <2>5. /\ 3 + H \in 1 .. 4 + H /\ ~(3 + H <= 2 + H) /\ (3 + H) - (2 + H) = 1
        /\ 4 + H \in 1 .. 4 + H /\ ~(4 + H <= 2 + H) /\ (4 + H) - (2 + H) = 2
    BY <1>7
  <2> QED BY <1>5, <2>2, <2>3, <2>4, <2>5 DEF all
<1>10. Elements(msg) = all
  BY DEF Elements, all, fh, first, heads, last, body
<1> HIDE DEF all
<1>11. all \in Seq(Seq(Mark1)) /\ Len(all) = Ends(msg) + 1
  BY <1>7, <1>9
<1> HIDE DEF SS, H
<1>12. ASSUME NEW e \in 1 .. Ends(msg) + 1
       PROVE  /\ Len(all[e]) = Size(msg, e)
              /\ \A i \in 1 .. Size(msg, e) : all[e][i].kind = KindOf(msg, e)
  <2>1. CASE e = 1
    <3>1. 1 \in 1 .. 2 + H
      BY <1>7
    <3>2. all[1] = Mark("start")
      BY <1>4, <1>8, <1>9, <3>1
    <3>3. Size(msg, 1) = 1 /\ KindOf(msg, 1) = "start"
      BY DEF Size, KindOf
    <3>4. "start" \in Kinds
      BY DEF Kinds
    <3>5. Len(all[1]) = 1 /\ all[1][1].kind = "start"
      BY <1>2, <3>2, <3>4
    <3>6. \A i \in 1 .. 1 : i = 1
      OBVIOUS
    <3> QED BY <2>1, <3>3, <3>5, <3>6
  <2>2. CASE e = 2
    <3> DEFINE k == IF msg.kind = "request" THEN "url" ELSE "status"
    <3>1. 2 \in 1 .. 2 + H
      BY <1>7
    <3>2. all[2] = Text(k)
      BY <1>4, <1>8, <1>9, <3>1
    <3>3. Size(msg, 2) = T /\ KindOf(msg, 2) = k /\ k \in Kinds
      BY <1>7 DEF Size, KindOf, T, Kinds
    <3> HIDE DEF k
    <3> QED BY <1>2, <2>2, <3>2, <3>3
  <2>3. CASE e \in 3 .. 2 + H
    <3> DEFINE k == IF (e - 2) % 2 = 1 THEN "field" ELSE "value"
    <3>1. e - 2 \in 1 .. H /\ e \in 1 .. 2 + H /\ e # 1 /\ e # 2 /\ e # Ends(msg) /\ e # Ends(msg) + 1
      BY <1>7, <2>3
    <3>2. all[e] = heads[e - 2]
      BY <1>8, <1>9, <2>3, <3>1
    <3>3. heads[e - 2] = Text(k)
      BY <1>6, <3>1 DEF H
    <3>4. Size(msg, e) = T /\ KindOf(msg, e) = k /\ k \in Kinds
      BY <3>1 DEF Size, KindOf, T, Kinds
    <3> HIDE DEF k
    <3> QED BY <1>2, <3>2, <3>3, <3>4
  <2>4. CASE e = Ends(msg)
    <3>1. Size(msg, e) = 1 /\ KindOf(msg, e) = "end" /\ e = 3 + H
      BY <1>7, <2>4 DEF Size, KindOf
    <3> QED BY <1>2, <1>9, <3>1 DEF Kinds
  <2>5. CASE e = Ends(msg) + 1
    <3>1. Size(msg, e) = msg.body /\ KindOf(msg, e) = "body" /\ e = 4 + H
      BY <1>7, <2>5 DEF Size, KindOf
    <3> QED BY <1>3, <1>9, <3>1
  <2>6. e = 1 \/ e = 2 \/ e \in 3 .. 2 + H \/ e = Ends(msg) \/ e = Ends(msg) + 1
    BY <1>7
  <2> QED BY <2>1, <2>2, <2>3, <2>4, <2>5, <2>6
<1> QED BY <1>10, <1>11, <1>12

\* u is unit i of element e of message msg, whose number is m.
UnitOf(u, m, msg) ==
    /\ u \in UnitType /\ u.m = m
    /\ u.e \in 1 .. Ends(msg) + 1 /\ u.i \in 1 .. Size(msg, u.e) /\ u.kind = KindOf(msg, u.e)

\* The last unit of a message, and the unit after one that is not.
Final(u, msg) == u.i = Size(msg, u.e) /\ (u.e = Ends(msg) + 1 \/ (u.e = Ends(msg) /\ msg.body = 0))
Follows(v, u, msg) ==
    IF u.i < Size(msg, u.e) THEN v.e = u.e /\ v.i = u.i + 1 ELSE v.e = u.e + 1 /\ v.i = 1

\* The units of one message.
Block(b, m, msg) ==
    /\ b \in Seq(UnitType) /\ Len(b) > 0 /\ b[1].e = 1 /\ b[1].i = 1
    /\ \A q \in 1 .. Len(b) : UnitOf(b[q], m, msg)
    /\ \A q \in 1 .. Len(b) - 1 : ~Final(b[q], msg) /\ Follows(b[q + 1], b[q], msg)
    /\ Final(b[Len(b)], msg)

UnitsOf(m, msg) ==
    FlattenSeq([e \in DOMAIN Elements(msg) |->
      [i \in DOMAIN Elements(msg)[e] |-> [m |-> m, e |-> e, kind |-> Elements(msg)[e][i].kind, i |-> i]]])

LEMMA SizeIsNat ==
    ASSUME NEW msg \in Message
    PROVE  /\ Ends(msg) \in Nat /\ Ends(msg) >= 3 /\ msg.body \in Nat /\ Size(msg, Ends(msg) + 1) = msg.body
           /\ \A e \in 1 .. Ends(msg) + 1 : Size(msg, e) \in Nat
           /\ \A e \in 1 .. Ends(msg) : Size(msg, e) > 0
<1>1. TextLen \in Nat /\ msg.heads \in Nat /\ msg.body \in Nat
  BY HttpAssumption DEF Message
<1> QED BY <1>1 DEF Ends, Size

LEMMA BlockIs ==
    ASSUME NEW m \in Nat, NEW msg \in Message
    PROVE  Block(UnitsOf(m, msg), m, msg)
<1> DEFINE E == Elements(msg)
           n == Ends(msg) + 1
           seqs == [e \in DOMAIN E |-> [i \in DOMAIN E[e] |-> [m |-> m, e |-> e, kind |-> E[e][i].kind, i |-> i]]]
           b == FlattenSeq(seqs)
           L == Len(b)
           Sz(e) == Size(msg, e)
<1>1. n \in Nat /\ DOMAIN E = 1 .. n /\ \A e \in 1 .. n : E[e] \in Seq(Mark1) /\ Len(E[e]) = Sz(e) /\ DOMAIN E[e] = 1 .. Sz(e)
  <2>1. E \in Seq(Seq(Mark1)) /\ Len(E) = n /\ n \in Nat
    BY ElementsAre, SizeIsNat
  <2>2. \A e \in 1 .. n : E[e] \in Seq(Mark1) /\ Len(E[e]) = Sz(e)
    BY <2>1, ElementsAre, ElementOfSeq
  <2> QED BY <2>1, <2>2, LenProperties
<1>2. \A e \in 1 .. n : \A i \in 1 .. Sz(e) : E[e][i].kind = KindOf(msg, e) /\ E[e][i].kind \in Kinds
  <2>1. ASSUME NEW e \in 1 .. n, NEW i \in 1 .. Sz(e) PROVE E[e][i] \in Mark1
    BY <1>1, ElementOfSeq
  <2> QED BY <2>1, ElementsAre DEF Mark1
<1> HIDE DEF E, n, Sz
<1>3. \A e \in 1 .. n : \A i \in 1 .. Sz(e) :
         /\ seqs[e][i] \in UnitType /\ seqs[e][i].m = m /\ seqs[e][i].e = e /\ seqs[e][i].i = i
         /\ seqs[e][i].kind = KindOf(msg, e)
  <2> SUFFICES ASSUME NEW e \in 1 .. n, NEW i \in 1 .. Sz(e)
               PROVE  /\ seqs[e][i] \in UnitType /\ seqs[e][i].m = m /\ seqs[e][i].e = e /\ seqs[e][i].i = i
                      /\ seqs[e][i].kind = KindOf(msg, e)
    OBVIOUS
  <2>1. seqs[e][i] = [m |-> m, e |-> e, kind |-> E[e][i].kind, i |-> i]
    BY <1>1
  <2>2. Sz(e) \in Nat
    BY SizeIsNat DEF Sz, n
  <2>3. e \in Nat /\ i \in Nat
    BY <2>2, <1>1
  <2> QED BY <1>2, <2>1, <2>3 DEF UnitType
<1>4. seqs \in Seq(Seq(UnitType)) /\ Len(seqs) = n /\ \A e \in 1 .. n : Len(seqs[e]) = Sz(e)
  <2>1. ASSUME NEW e \in 1 .. n PROVE seqs[e] \in Seq(UnitType) /\ Len(seqs[e]) = Sz(e)
    <3>1. Sz(e) \in Nat
      BY SizeIsNat DEF Sz, n
    <3>2. seqs[e] \in [1 .. Sz(e) -> UnitType]
      <4>1. seqs[e] = [i \in 1 .. Sz(e) |-> seqs[e][i]]
        BY <1>1
      <4> HIDE DEF seqs
      <4> QED BY <1>3, <4>1
    <3> HIDE DEF seqs
    <3> QED BY <3>1, <3>2
  <2>2. DOMAIN seqs = 1 .. n /\ seqs = [e \in 1 .. n |-> seqs[e]]
    BY <1>1
  <2> HIDE DEF seqs
  <2>3. seqs \in [1 .. n -> Seq(UnitType)]
    BY <2>1, <2>2
  <2> QED BY <1>1, <2>1, <2>3
<1> HIDE DEF seqs
<1>5. b \in Seq(UnitType) /\ \E at : Laid(at, n, seqs, b)
  BY <1>4, Flattened
<1>6. PICK at : Laid(at, n, seqs, b)
  BY <1>5
<1> HIDE DEF b
<1>7. L \in Nat /\ at \in [0 .. n -> Nat] /\ at[0] = 0 /\ at[n] = L
      /\ (\A j \in 1 .. n : at[j] = at[j - 1] + Sz(j))
      /\ (\A j, k \in 0 .. n : j <= k => at[j] <= at[k])
      /\ (\A e \in 1 .. n : \A i \in 1 .. Sz(e) : b[at[e - 1] + i] = seqs[e][i])
      /\ (\A q \in 1 .. L : \E e \in 1 .. n : \E i \in 1 .. Sz(e) : q = at[e - 1] + i)
  <2>1. L \in Nat
    BY <1>5, LenProperties
  <2>2. /\ at \in [0 .. n -> Nat] /\ at[0] = 0 /\ at[n] = L
        /\ \A j \in 1 .. n : at[j] = at[j - 1] + Len(seqs[j])
        /\ \A j, k \in 0 .. n : j <= k => at[j] <= at[k]
        /\ \A j \in 1 .. n : \A i \in 1 .. Len(seqs[j]) : b[at[j - 1] + i] = seqs[j][i]
        /\ \A q \in 1 .. L : \E j \in 1 .. n : \E i \in 1 .. Len(seqs[j]) : q = at[j - 1] + i
    BY <1>6 DEF Laid
  <2> HIDE DEF L
  <2>3. \A j \in 1 .. n : at[j] = at[j - 1] + Sz(j)
    BY <1>4, <2>2
  <2>4. \A e \in 1 .. n : \A i \in 1 .. Sz(e) : b[at[e - 1] + i] = seqs[e][i]
    BY <1>4, <2>2
  <2>5. \A q \in 1 .. L : \E e \in 1 .. n : \E i \in 1 .. Sz(e) : q = at[e - 1] + i
    BY <1>4, <2>2
  <2> QED BY <2>1, <2>2, <2>3, <2>4, <2>5, Zenon
<1> HIDE DEF L
<1>8. /\ n >= 4 /\ Ends(msg) = n - 1 /\ n - 1 \in 1 .. n /\ n \in 1 .. n /\ 1 \in 1 .. n /\ Sz(n) = msg.body /\ Sz(n - 1) = 1 /\ Sz(1) = 1
      /\ (\A e \in 1 .. n : Sz(e) \in Nat) /\ (\A e \in 1 .. n - 1 : Sz(e) > 0) /\ msg.body \in Nat
  BY SizeIsNat DEF n, Sz, Size
<1>9. ASSUME NEW q \in 1 .. L, NEW e \in 1 .. n, NEW i \in 1 .. Sz(e), q = at[e - 1] + i
      PROVE  /\ UnitOf(b[q], m, msg) /\ b[q].e = e /\ b[q].i = i
             /\ Final(b[q], msg) => q = L
             /\ ~Final(b[q], msg) => q + 1 \in 1 .. L /\ Follows(b[q + 1], b[q], msg)
  <2>1. b[q] = seqs[e][i]
    BY <1>7, <1>9
  <2>2. b[q] \in UnitType /\ b[q].m = m /\ b[q].e = e /\ b[q].i = i /\ b[q].kind = KindOf(msg, e)
    BY <1>3, <2>1
  <2>3. UnitOf(b[q], m, msg)
    BY <2>2 DEF UnitOf, n, Sz
  <2>4. e - 1 \in 0 .. n /\ e \in 0 .. n /\ n \in 0 .. n /\ at[e - 1] \in Nat /\ at[e] \in Nat /\ at[e] <= L /\ at[e] = at[e - 1] + Sz(e)
    <3>1. e - 1 \in 0 .. n /\ e \in 0 .. n /\ n \in 0 .. n /\ e <= n
      BY <1>1
    <3> QED BY <1>7, <3>1
  <2>5. Final(b[q], msg) <=> i = Sz(e) /\ (e = n \/ (e = n - 1 /\ msg.body = 0))
    BY <1>8, <2>2 DEF Final, Sz, n
  <2>6. ASSUME Final(b[q], msg) PROVE q = L
    <3>1. q = at[e]
      BY <1>9, <2>4, <2>5, <2>6
    <3>2. CASE e = n
      BY <1>7, <3>1, <3>2
    <3>3. CASE e = n - 1 /\ msg.body = 0
      <4>1. at[n] = at[n - 1] + 0
        BY <1>7, <1>8, <3>3
      <4> QED BY <1>7, <2>4, <3>1, <3>3, <4>1
    <3> QED BY <2>5, <2>6, <3>2, <3>3
  <2>7. ASSUME ~Final(b[q], msg) PROVE q + 1 \in 1 .. L /\ Follows(b[q + 1], b[q], msg)
    <3>1. CASE i < Sz(e)
      <4>1. i + 1 \in 1 .. Sz(e) /\ q + 1 = at[e - 1] + (i + 1)
        BY <1>8, <1>9, <2>4, <3>1
      <4>2. b[q + 1] = seqs[e][i + 1]
        BY <1>7, <4>1
      <4>3. b[q + 1].e = e /\ b[q + 1].i = i + 1
        BY <1>3, <4>1, <4>2
      <4>4. q + 1 \in 1 .. L
        <5>1. at[e - 1] + (i + 1) <= at[e - 1] + Sz(e) /\ Sz(e) \in Nat
          BY <1>8, <2>4, <4>1
        <5> QED BY <1>7, <2>4, <4>1, <5>1
      <4> QED BY <2>2, <3>1, <4>3, <4>4 DEF Follows, Sz
    <3>2. CASE i = Sz(e)
      <4>1. e # n /\ ~(e = n - 1 /\ msg.body = 0)
        BY <2>5, <2>7, <3>2, Zenon
      <4>2. e + 1 \in 1 .. n /\ Sz(e + 1) > 0
        <5>1. e + 1 \in 1 .. n /\ (e + 1 \in 1 .. n - 1 \/ e + 1 = n)
          BY <1>1, <4>1
        <5>2. e + 1 = n => e = n - 1 /\ msg.body # 0
          BY <1>1, <4>1
        <5> QED BY <1>8, <5>1, <5>2
      <4>3. 1 \in 1 .. Sz(e + 1) /\ (e + 1) - 1 = e /\ q + 1 = at[e] + 1 /\ Sz(e + 1) \in Nat
        BY <1>8, <1>9, <2>4, <3>2, <4>2
      <4>4. b[q + 1] = seqs[e + 1][1]
        <5>1. b[at[(e + 1) - 1] + 1] = seqs[e + 1][1]
          BY <1>7, <4>2, <4>3
        <5> QED BY <4>3, <5>1
      <4>5. b[q + 1].e = e + 1 /\ b[q + 1].i = 1
        BY <1>3, <4>2, <4>3, <4>4
      <4>6. q + 1 \in 1 .. L
        <5>1. at[e + 1] = at[e] + Sz(e + 1) /\ e + 1 \in 0 .. n /\ n \in 0 .. n /\ e + 1 <= n
          BY <1>1, <1>7, <4>2, <4>3
        <5>2. at[e + 1] <= at[n]
          BY <1>7, <5>1
        <5>3. at[e + 1] <= L
          BY <1>7, <5>2
        <5>4. L \in Nat
          BY <1>7
        <5>5. at[e] \in Nat /\ Sz(e + 1) \in Nat /\ Sz(e + 1) > 0
          BY <2>4, <4>2, <4>3
        <5> HIDE DEF Sz
        <5>6. at[e] + 1 \in 1 .. L
          BY <5>1, <5>3, <5>4, <5>5
        <5> QED BY <4>3, <5>6
      <4> QED BY <2>2, <3>2, <4>5, <4>6, <1>8 DEF Follows, Sz
    <3> QED BY <1>8, <3>1, <3>2
  <2> QED BY <2>2, <2>3, <2>6, <2>7
<1>10. ASSUME NEW q \in 1 .. L
       PROVE  /\ UnitOf(b[q], m, msg) /\ (Final(b[q], msg) => q = L)
              /\ ~Final(b[q], msg) => q + 1 \in 1 .. L /\ Follows(b[q + 1], b[q], msg)
  <2>1. PICK e \in 1 .. n : \E i \in 1 .. Sz(e) : q = at[e - 1] + i
    BY <1>7
  <2>2. PICK i \in 1 .. Sz(e) : q = at[e - 1] + i
    BY <2>1
  <2> QED BY <1>9, <2>2
<1>11. L > 0 /\ b[1].e = 1 /\ b[1].i = 1
  <2>1. at[1] = at[0] + 1
    BY <1>7, <1>8
  <2>2. 1 \in 0 .. n /\ n \in 0 .. n /\ 1 <= n
    BY <1>8
  <2>3. L > 0
    BY <1>7, <2>1, <2>2
  <2>4. 1 \in 1 .. L /\ 1 \in 1 .. Sz(1) /\ 1 = at[1 - 1] + 1
    BY <1>7, <1>8, <2>3
  <2>5. b[1].e = 1 /\ b[1].i = 1
    BY <1>8, <1>9, <2>4
  <2> QED BY <2>3, <2>5
<1>12. \A q \in 1 .. L - 1 : q \in 1 .. L /\ q # L
  BY <1>7
<1>13. Final(b[L], msg)
  <2>1. L \in 1 .. L /\ ~(L + 1 \in 1 .. L)
    BY <1>7, <1>11
  <2> QED BY <1>10, <2>1
<1>14. Block(b, m, msg)
  BY <1>5, <1>10, <1>11, <1>12, <1>13 DEF Block, L
<1> QED BY <1>14 DEF UnitsOf, b, seqs, E

\* What follows unit u in a stream.
After(v, u, s) ==
    IF Final(u, s[u.m]) THEN v.m = u.m + 1 /\ v.e = 1 /\ v.i = 1
    ELSE v.m = u.m /\ Follows(v, u, s[u.m])

\* U is the stream of the messages s.
Flow(s, U) ==
    /\ U \in Seq(UnitType)
    /\ \A q \in 1 .. Len(U) : U[q].m \in 1 .. Len(s) /\ UnitOf(U[q], U[q].m, s[U[q].m])
    /\ \A q \in 1 .. Len(U) - 1 : After(U[q + 1], U[q], s)
    /\ Len(U) > 0 => U[1].e = 1 /\ U[1].i = 1 /\ Final(U[Len(U)], s[U[Len(U)].m])
    /\ \A q, r \in 1 .. Len(U) : q <= r => U[q].m <= U[r].m
    /\ \A m \in 1 .. Len(s) : \E q \in 1 .. Len(U) : U[q].m = m

LEMMA StreamFlows ==
    ASSUME NEW s \in Seq(Message)
    PROVE  Flow(s, Units(s))
<1> DEFINE n == Len(s)
           seqs == [m \in DOMAIN s |-> UnitsOf(m, s[m])]
           U == FlattenSeq(seqs)
           L == Len(U)
<1>1. n \in Nat /\ DOMAIN s = 1 .. n /\ \A m \in 1 .. n : s[m] \in Message /\ m \in Nat
  BY LenProperties, ElementOfSeq
<1>2. \A m \in 1 .. n : seqs[m] = UnitsOf(m, s[m]) /\ Block(seqs[m], m, s[m])
  <2>1. \A m \in 1 .. n : Block(UnitsOf(m, s[m]), m, s[m])
    BY <1>1, BlockIs
  <2> QED BY <1>1, <2>1
<1>3. seqs \in Seq(Seq(UnitType)) /\ Len(seqs) = n
  <2>1. DOMAIN seqs = 1 .. n /\ seqs = [m \in 1 .. n |-> seqs[m]]
    BY <1>1
  <2>2. \A m \in 1 .. n : seqs[m] \in Seq(UnitType)
    BY <1>2 DEF Block
  <2> HIDE DEF seqs
  <2>3. seqs \in [1 .. n -> Seq(UnitType)]
    BY <2>1, <2>2
  <2> QED BY <1>1, <2>3
<1>4. Units(s) = U
  BY DEF Units, UnitsOf
<1> HIDE DEF seqs
<1>5. U \in Seq(UnitType) /\ \E at : Laid(at, n, seqs, U)
  BY <1>3, Flattened
<1>6. PICK at : Laid(at, n, seqs, U)
  BY <1>5
<1> HIDE DEF U
<1>7. L \in Nat
  BY <1>5, LenProperties
<1>8. /\ at \in [0 .. n -> Nat] /\ at[0] = 0 /\ at[n] = L
      /\ \A j \in 1 .. n : at[j] = at[j - 1] + Len(seqs[j])
      /\ \A j, k \in 0 .. n : j <= k => at[j] <= at[k]
      /\ \A j \in 1 .. n : \A i \in 1 .. Len(seqs[j]) : U[at[j - 1] + i] = seqs[j][i]
      /\ \A q \in 1 .. L : \E j \in 1 .. n : \E i \in 1 .. Len(seqs[j]) : q = at[j - 1] + i
  BY <1>6 DEF Laid
<1> HIDE DEF L, n
<1>9. \A j \in 1 .. n : /\ j - 1 \in 0 .. n /\ j \in 0 .. n /\ n \in 0 .. n /\ at[j - 1] \in Nat /\ at[j] \in Nat /\ at[j] <= L
                        /\ Len(seqs[j]) \in Nat /\ Len(seqs[j]) > 0 /\ at[j] = at[j - 1] + Len(seqs[j])
  <2> SUFFICES ASSUME NEW j \in 1 .. n
               PROVE  /\ j - 1 \in 0 .. n /\ j \in 0 .. n /\ n \in 0 .. n /\ at[j - 1] \in Nat /\ at[j] \in Nat /\ at[j] <= L
                      /\ Len(seqs[j]) \in Nat /\ Len(seqs[j]) > 0 /\ at[j] = at[j - 1] + Len(seqs[j])
    OBVIOUS
  <2>1. j - 1 \in 0 .. n /\ j \in 0 .. n /\ n \in 0 .. n /\ j <= n
    BY <1>1
  <2>2. seqs[j] \in Seq(UnitType) /\ Len(seqs[j]) > 0
    BY <1>2 DEF Block
  <2>3. Len(seqs[j]) \in Nat
    BY <2>2, LenProperties
  <2>4. at[j - 1] \in Nat /\ at[j] \in Nat
    BY <1>8, <2>1
  <2>5. at[j] <= at[n]
    BY <1>8, <2>1
  <2>6. at[n] = L /\ at[j] = at[j - 1] + Len(seqs[j])
    BY <1>8
  <2> QED BY <2>1, <2>2, <2>3, <2>4, <2>5, <2>6
<1>10. ASSUME NEW q \in 1 .. L, NEW j \in 1 .. n, NEW i \in 1 .. Len(seqs[j]), q = at[j - 1] + i
       PROVE  /\ U[q].m = j /\ UnitOf(U[q], j, s[j])
              /\ q < L => After(U[q + 1], U[q], s)
              /\ q = L => Final(U[q], s[j])
              /\ q = 1 => U[q].e = 1 /\ U[q].i = 1
  <2> DEFINE b == seqs[j]
  <2>1. Block(b, j, s[j]) /\ Len(b) \in Nat /\ Len(b) > 0 /\ U[q] = b[i] /\ at[j - 1] \in Nat /\ at[j] = at[j - 1] + Len(b) /\ at[j] <= L
    BY <1>2, <1>8, <1>9, <1>10
  <2> HIDE DEF b
  <2>2. UnitOf(U[q], j, s[j]) /\ U[q].m = j
    BY <2>1 DEF Block, UnitOf, b
  <2>3. CASE i < Len(b)
    <3>1. i \in 1 .. Len(b) - 1 /\ i + 1 \in 1 .. Len(b) /\ q + 1 = at[j - 1] + (i + 1)
      BY <1>10, <2>1, <2>3
    <3>2. U[q + 1] = b[i + 1]
      BY <1>8, <3>1 DEF b
    <3>3. ~Final(b[i], s[j]) /\ Follows(b[i + 1], b[i], s[j]) /\ UnitOf(b[i + 1], j, s[j])
      BY <2>1, <3>1 DEF Block
    <3>4. U[q + 1].m = j
      BY <3>2, <3>3 DEF UnitOf
    <3>5. After(U[q + 1], U[q], s)
      BY <2>1, <2>2, <3>2, <3>3, <3>4 DEF After
    <3>6. q < L
      BY <1>7, <2>1, <2>3, <1>10
    <3>7. q = 1 => i = 1
      BY <1>10, <2>1
    <3> QED BY <1>7, <2>1, <2>2, <3>5, <3>6, <3>7 DEF Block
  <2>4. CASE i = Len(b)
    <3>1. Final(U[q], s[j])
      BY <2>1, <2>4 DEF Block
    <3>2. ASSUME q < L PROVE After(U[q + 1], U[q], s)
      <4>1. q = at[j] /\ j # n
        <5>1. q = at[j]
          BY <1>10, <2>1, <2>4
        <5>2. at[n] = L
          BY <1>8
        <5> QED BY <1>7, <3>2, <5>1, <5>2
      <4>2. j + 1 \in 1 .. n /\ (j + 1) - 1 = j
        BY <1>1, <4>1
      <4>3. 1 \in 1 .. Len(seqs[j + 1])
        BY <1>9, <4>2
      <4>4. U[q + 1] = seqs[j + 1][1]
        BY <1>8, <4>1, <4>2, <4>3
      <4>5. Block(seqs[j + 1], j + 1, s[j + 1])
        BY <1>2, <4>2
      <4>6. U[q + 1].m = j + 1 /\ U[q + 1].e = 1 /\ U[q + 1].i = 1
        BY <4>3, <4>4, <4>5 DEF Block, UnitOf
      <4> QED BY <2>2, <3>1, <4>6 DEF After
    <3>3. q = 1 => i = 1
      BY <1>10, <2>1
    <3> QED BY <2>1, <2>2, <3>1, <3>2, <3>3 DEF Block
  <2> QED BY <2>1, <2>3, <2>4 DEF b
<1>11. \A q \in 1 .. L : \E j \in 1 .. n :
          /\ U[q].m = j /\ UnitOf(U[q], j, s[j]) /\ at[j - 1] < q /\ q <= at[j]
          /\ q < L => After(U[q + 1], U[q], s)
          /\ q = L => Final(U[q], s[j])
          /\ q = 1 => U[q].e = 1 /\ U[q].i = 1
  <2> SUFFICES ASSUME NEW q \in 1 .. L
               PROVE  \E j \in 1 .. n :
                        /\ U[q].m = j /\ UnitOf(U[q], j, s[j]) /\ at[j - 1] < q /\ q <= at[j]
                        /\ q < L => After(U[q + 1], U[q], s)
                        /\ q = L => Final(U[q], s[j])
                        /\ q = 1 => U[q].e = 1 /\ U[q].i = 1
    OBVIOUS
  <2>1. PICK j \in 1 .. n : \E i \in 1 .. Len(seqs[j]) : q = at[j - 1] + i
    BY <1>8
  <2>2. PICK i \in 1 .. Len(seqs[j]) : q = at[j - 1] + i
    BY <2>1
  <2>3. at[j - 1] < q /\ q <= at[j]
    BY <1>9, <2>2
  <2> QED BY <1>10, <2>2, <2>3
<1>12. \A q, r \in 1 .. L : q <= r => U[q].m <= U[r].m
  <2> SUFFICES ASSUME NEW q \in 1 .. L, NEW r \in 1 .. L, q <= r PROVE U[q].m <= U[r].m
    OBVIOUS
  <2>1. PICK j \in 1 .. n : U[q].m = j /\ at[j - 1] < q /\ q <= at[j]
    BY <1>11
  <2>2. PICK k \in 1 .. n : U[r].m = k /\ at[k - 1] < r /\ r <= at[k]
    BY <1>11
  <2>3. ASSUME k < j PROVE FALSE
    <3>1. k <= j - 1 /\ k \in 0 .. n /\ j - 1 \in 0 .. n
      BY <1>1, <2>3
    <3>2. at[k] <= at[j - 1] /\ at[k] \in Nat /\ at[j - 1] \in Nat
      BY <1>8, <3>1
    <3> QED BY <2>1, <2>2, <3>2
  <2> QED BY <1>1, <2>1, <2>2, <2>3
<1>13. \A m \in 1 .. n : \E q \in 1 .. L : U[q].m = m
  <2> SUFFICES ASSUME NEW m \in 1 .. n PROVE \E q \in 1 .. L : U[q].m = m
    OBVIOUS
  <2>1. at[m - 1] + 1 \in 1 .. L /\ 1 \in 1 .. Len(seqs[m])
    <3>1. at[m - 1] \in Nat /\ at[m] \in Nat /\ at[m] <= L /\ Len(seqs[m]) \in Nat /\ Len(seqs[m]) > 0
          /\ at[m] = at[m - 1] + Len(seqs[m])
      BY <1>9
    <3> QED BY <1>7, <3>1
  <2>2. U[at[m - 1] + 1].m = m
    BY <1>10, <2>1
  <2> QED BY <2>1, <2>2
<1>14. ASSUME NEW q \in 1 .. L
       PROVE  /\ U[q].m \in 1 .. n /\ UnitOf(U[q], U[q].m, s[U[q].m])
              /\ q < L => After(U[q + 1], U[q], s)
              /\ q = L => Final(U[q], s[U[q].m])
              /\ q = 1 => U[q].e = 1 /\ U[q].i = 1
  BY <1>11
<1>15. \A q \in 1 .. L - 1 : q \in 1 .. L /\ q < L
  BY <1>7
<1>16. L > 0 => 1 \in 1 .. L /\ L \in 1 .. L
  BY <1>7
<1>17. Flow(s, U)
  BY <1>5, <1>12, <1>13, <1>14, <1>15, <1>16 DEF Flow, L, n
<1> QED BY <1>4, <1>17

Value == Seq(Nat \cup {"Method", "Path", "Status", "Reason"})
Entry == [k : Value, v : Value]
Piece == Nat \X Nat
Packet == [m : Nat, map : SUBSET Entry, body : Seq(Piece)]

HttpTypes ==
    /\ script \in Script /\ units = Units(script)
    /\ pos \in Nat /\ left \in Nat /\ pos + left <= Len(units)
    /\ state \in {"start", "msg", "eof"} /\ hurt \subseteq 1 .. Len(script)
    /\ field_ \in Value /\ recv_header_map_ \subseteq Entry /\ recv_body_str_ \in Seq(Piece)
    /\ packets \in Seq(Packet)

\* The texts of message m up to element d, as they should be told.
MapUpTo(m, d) ==
    LET req == script[m].kind = "request"
    IN  (IF d < 2 THEN {}
         ELSE {[k |-> <<IF req THEN "Method" ELSE "Status">>, v |-> <<m>>],
               [k |-> <<IF req THEN "Path" ELSE "Reason">>, v |-> Whole(m, 2)]})
        \cup {[k |-> Whole(m, 2 * h + 1), v |-> Whole(m, 2 * h + 2)] :
                h \in {i \in 1 .. script[m].heads : 2 * i + 2 <= d}}

IsText(u) == u.e > 1 /\ u.e < Ends(script[u.m])

\* Of a message without a split text: the parser is at the beginning of an element, or at
\* the terminator of a text all of whose characters came in one read; the texts before
\* are in the map, and the name of a header waits for its value.
Collected(u) ==
    LET whole == IsText(u) /\ u.i = TextLen + 1
    IN  /\ IsText(u) => u.i = 1 \/ whole
        /\ recv_header_map_ = MapUpTo(u.m, IF whole THEN u.e ELSE u.e - 1)
        /\ u.kind = "value" => field_ = Whole(u.m, u.e - 1)

OwnValues(map, m) == \A x \in map : x.v # <<>> => x.v[1] = m

\* Inside a message.
InMessage ==
    state = "msg" =>
        /\ pos > 0 /\ pos < Len(units) /\ units[pos].m = Next1.m
        /\ recv_body_str_ = IF Next1.kind = "body" THEN [b \in 1 .. Next1.i - 1 |-> <<Next1.m, b>>] ELSE <<>>
        /\ OwnValues(recv_header_map_, Next1.m)
        /\ \A k \in 1 .. Len(packets) : packets[k].m < Next1.m
        /\ Next1.m \notin hurt => Collected(Next1)

\* Between messages: a message that was left in its middle is hurt.
BetweenMessages == state = "start" /\ pos > 0 /\ pos < Len(units) /\ units[pos].m = Next1.m => Next1.m \in hurt

ToTheEnd == state = "eof" => pos > 0 /\ script[units[pos].m].eof

PacketsInOrder ==
    \A k \in 1 .. Len(packets) :
        /\ pos > 0 /\ packets[k].m <= units[pos].m
        /\ packets[k].body = WholeBody(packets[k].m)
        /\ OwnValues(packets[k].map, packets[k].m)
        /\ k > 1 => packets[k - 1].m < packets[k].m

HttpInv ==
    HttpTypes /\ InMessage /\ BetweenMessages /\ ToTheEnd /\ PacketsInOrder /\ IntactAreDelivered

\* What kind of unit is in which element.
LEMMA ElementOf ==
    ASSUME NEW msg \in Message, NEW e \in 1 .. Ends(msg) + 1
    PROVE  /\ KindOf(msg, e) = "start" <=> e = 1
           /\ KindOf(msg, e) \in {"url", "status"} <=> e = 2
           /\ KindOf(msg, e) = "url" => msg.kind = "request"
           /\ KindOf(msg, e) = "status" => msg.kind # "request"
           /\ KindOf(msg, e) \in {"field", "value"} <=> e \in 3 .. Ends(msg) - 1
           /\ KindOf(msg, e) = "field" => \E h \in 1 .. msg.heads : e = 2 * h + 1
           /\ KindOf(msg, e) = "value" => \E h \in 1 .. msg.heads : e = 2 * h + 2
           /\ KindOf(msg, e) = "end" <=> e = Ends(msg)
           /\ KindOf(msg, e) = "body" <=> e = Ends(msg) + 1
           /\ e > 1 /\ e < Ends(msg) <=> KindOf(msg, e) \in {"url", "status", "field", "value"}
           /\ e > 1 /\ e < Ends(msg) => Size(msg, e) = TextLen + 1
<1>1. Ends(msg) \in Nat /\ Ends(msg) >= 3 /\ Ends(msg) = 3 + 2 * msg.heads /\ msg.heads \in Nat
  BY SizeIsNat DEF Ends, Message
<1>2. CASE e \in 3 .. Ends(msg) - 1
  <2>1. KindOf(msg, e) = IF (e - 2) % 2 = 1 THEN "field" ELSE "value"
    BY <1>1, <1>2 DEF KindOf
  <2>2. Size(msg, e) = TextLen + 1
    BY <1>1, <1>2 DEF Size
  <2>3. ASSUME (e - 2) % 2 = 1 PROVE \E h \in 1 .. msg.heads : e = 2 * h + 1
    <3> DEFINE h == (e - 2) \div 2
    <3>1. h \in Int /\ e - 2 = 2 * h + 1
      BY <1>2, <2>3
    <3> HIDE DEF h
    <3>2. e = 2 * (h + 1) + 1 /\ h + 1 \in 1 .. msg.heads
      BY <1>1, <1>2, <3>1
    <3> QED BY <3>2
  <2>4. ASSUME (e - 2) % 2 # 1 PROVE \E h \in 1 .. msg.heads : e = 2 * h + 2
    <3> DEFINE h == (e - 2) \div 2
    <3>1. h \in Int /\ e - 2 = 2 * h
      BY <1>2, <2>4
    <3> HIDE DEF h
    <3>2. e = 2 * h + 2 /\ h \in 1 .. msg.heads
      BY <1>1, <1>2, <3>1
    <3> QED BY <3>2
  <2> QED BY <1>1, <1>2, <2>1, <2>2, <2>3, <2>4
<1>3. CASE e = 1
  BY <1>1, <1>3 DEF KindOf
<1>4. CASE e = 2
  BY <1>1, <1>4 DEF KindOf, Size
<1>5. CASE e = Ends(msg)
  BY <1>1, <1>5 DEF KindOf
<1>6. CASE e = Ends(msg) + 1
  BY <1>1, <1>6 DEF KindOf
<1>7. e \in 3 .. Ends(msg) - 1 \/ e = 1 \/ e = 2 \/ e = Ends(msg) \/ e = Ends(msg) + 1
  <2>1. Ends(msg) \in Nat /\ Ends(msg) >= 3
    BY <1>1
  <2> QED BY <2>1
<1> QED BY <1>2, <1>3, <1>4, <1>5, <1>6, <1>7

LEMMA MessagesAre ==
    ASSUME NEW s \in Script
    PROVE  /\ s \in Seq(Message) /\ Len(s) \in Nat /\ DOMAIN s = 1 .. Len(s)
           /\ \A m \in 1 .. Len(s) : s[m] \in Message /\ (s[m].eof => m = Len(s))
<1>1. s \in Seq(Message)
  BY HttpAssumption
<1>2. Len(s) \in Nat /\ DOMAIN s = 1 .. Len(s) /\ \A m \in 1 .. Len(s) : s[m] \in Message
  BY <1>1, LenProperties, ElementOfSeq
<1> QED BY <1>1, <1>2, HttpAssumption

\* The units of one element lie one after the other.
LEMMA RunOfUnits ==
    ASSUME NEW s \in Script, NEW U, Flow(s, U), NEW q \in 1 .. Len(U), NEW n \in Nat,
           U[q].i + n <= Size(s[U[q].m], U[q].e)
    PROVE  /\ q + n \in 1 .. Len(U)
           /\ U[q + n].m = U[q].m /\ U[q + n].e = U[q].e /\ U[q + n].i = U[q].i + n
<1> DEFINE u == U[q]
           S == {k \in Nat : k <= n => /\ q + k \in 1 .. Len(U) /\ U[q + k].m = u.m /\ U[q + k].e = u.e
                                       /\ U[q + k].i = u.i + k}
<1>1. /\ u.m \in 1 .. Len(s) /\ s[u.m] \in Message /\ UnitOf(u, u.m, s[u.m]) /\ u.i \in Nat /\ u.e \in Nat
      /\ Size(s[u.m], u.e) \in Nat /\ Len(U) \in Nat
  <2>1. u.m \in 1 .. Len(s) /\ UnitOf(u, u.m, s[u.m]) /\ U \in Seq(UnitType)
    BY DEF Flow
  <2>2. s[u.m] \in Message
    BY <2>1, MessagesAre
  <2>3. u \in UnitType /\ u.e \in 1 .. Ends(s[u.m]) + 1
    BY <2>1 DEF UnitOf
  <2>4. Size(s[u.m], u.e) \in Nat
    BY <2>2, <2>3, SizeIsNat
  <2> HIDE DEF u
  <2> QED BY <2>1, <2>2, <2>3, <2>4, LenProperties DEF UnitType
<1> HIDE DEF u
<1>2. 0 \in S
  <2>1. q + 0 = q /\ U[q + 0] = u
    BY DEF u
  <2> QED BY <1>1, <2>1
<1>3. ASSUME NEW k \in Nat, k \in S PROVE k + 1 \in S
  <2> SUFFICES ASSUME k + 1 <= n
               PROVE  /\ q + (k + 1) \in 1 .. Len(U) /\ U[q + (k + 1)].m = u.m /\ U[q + (k + 1)].e = u.e
                      /\ U[q + (k + 1)].i = u.i + (k + 1)
    OBVIOUS
  <2> DEFINE v == U[q + k]
             w == U[q + (k + 1)]
  <2>1. q + k \in 1 .. Len(U) /\ v.m = u.m /\ v.e = u.e /\ v.i = u.i + k
    BY <1>3
  <2>2. v.i < Size(s[v.m], v.e)
    <3>1. u.i + n <= Size(s[u.m], u.e)
      BY DEF u
    <3> HIDE DEF v
    <3> QED BY <1>1, <2>1, <3>1
  <2>3. ~Final(v, s[v.m])
    BY <2>2, <1>1, <2>1 DEF Final
  <2>4. q + k # Len(U)
    <3>1. Len(U) > 0 /\ Final(U[Len(U)], s[U[Len(U)].m])
      BY <2>1 DEF Flow
    <3> QED BY <2>3, <3>1
  <2>5. q + k \in 1 .. Len(U) - 1 /\ q + (k + 1) = (q + k) + 1 /\ q + (k + 1) \in 1 .. Len(U)
    BY <1>1, <2>1, <2>4
  <2>6. After(U[(q + k) + 1], U[q + k], s)
    BY <2>5 DEF Flow
  <2>7. After(w, v, s)
    BY <2>5, <2>6
  <2>8. w.m = v.m /\ w.e = v.e /\ w.i = v.i + 1
    BY <2>2, <2>3, <2>7 DEF After, Follows
  <2> HIDE DEF v, w
  <2>9. w.m = u.m /\ w.e = u.e /\ w.i = u.i + (k + 1)
    <3>1. u.i \in Nat
      BY <1>1
    <3> QED BY <2>1, <2>8, <3>1
  <2> QED BY <2>5, <2>9 DEF w
<1>4. n \in S
  <2> HIDE DEF S
  <2> QED BY <1>2, <1>3, Induction
<1> QED BY <1>4 DEF u

\* The stream of a state.
LEMMA TheStream ==
    ASSUME HttpTypes
    PROVE  /\ Flow(script, units) /\ Len(units) \in Nat /\ script \in Seq(Message) /\ Len(script) \in Nat
           /\ DOMAIN script = 1 .. Len(script)
           /\ \A m \in 1 .. Len(script) : script[m] \in Message /\ (script[m].eof => m = Len(script))
           /\ \A q \in 1 .. Len(units) : units[q] \in UnitType /\ units[q].m \in 1 .. Len(script) /\ units[q].m \in Nat
           /\ \A q, r \in 1 .. Len(units) : q <= r => units[q].m <= units[r].m
<1>1. script \in Script /\ units = Units(script)
  BY DEF HttpTypes
<1>2. Flow(script, units)
  BY <1>1, MessagesAre, StreamFlows
<1>3. units \in Seq(UnitType)
  BY <1>2 DEF Flow
<1>4. Len(units) \in Nat /\ \A q \in 1 .. Len(units) : units[q] \in UnitType /\ units[q].m \in 1 .. Len(script)
  BY <1>2, <1>3, LenProperties, ElementOfSeq DEF Flow
<1>5. \A q \in 1 .. Len(units) : units[q].m \in Nat
  BY <1>4 DEF UnitType
<1>6. \A q, r \in 1 .. Len(units) : q <= r => units[q].m <= units[r].m
  BY <1>2 DEF Flow
<1> QED BY <1>1, <1>2, <1>4, <1>5, <1>6, MessagesAre

\* The unit at hand.
LEMMA TheUnit ==
    ASSUME HttpTypes, left > 0
    PROVE  /\ pos + 1 \in 1 .. Len(units) /\ Next1.m \in 1 .. Len(script) /\ Msg \in Message
           /\ Next1 \in UnitType /\ UnitOf(Next1, Next1.m, Msg)
           /\ Next1.e \in 1 .. Ends(Msg) + 1 /\ Next1.i \in 1 .. Size(Msg, Next1.e) /\ Next1.kind = KindOf(Msg, Next1.e)
           /\ Size(Msg, Next1.e) \in Nat /\ TextLen \in Nat /\ TextLen > 0
<1>1. pos + 1 \in 1 .. Len(units)
  BY TheStream DEF HttpTypes
<1>2. Next1.m \in 1 .. Len(script) /\ UnitOf(Next1, Next1.m, Msg)
  BY <1>1, TheStream DEF Flow, Next1, Msg
<1>3. Msg \in Message
  BY <1>2, TheStream DEF Msg
<1> QED BY <1>1, <1>2, <1>3, SizeIsNat, HttpAssumption DEF UnitOf

\* A message that ends is one that has units between the old position and the new.
LEMMA NewlyParsed ==
    ASSUME HttpTypes, NEW n \in Nat, pos + n <= Len(units), NEW m \in 1 .. Len(script), ~Parsed(m),
           \A q \in pos + n + 1 .. Len(units) : units[q].m > m
    PROVE  \E q \in pos + 1 .. pos + n : units[q].m = m
<1>1. PICK q \in pos + 1 .. Len(units) : ~(units[q].m > m)
  BY DEF Parsed
<1>2. PICK r \in 1 .. Len(units) : units[r].m = m
  BY TheStream DEF Flow
<1>3. pos \in Nat /\ Len(units) \in Nat /\ q \in 1 .. Len(units) /\ units[q].m \in Nat /\ m \in Nat
  BY <1>1, TheStream DEF HttpTypes
<1>4. q \in pos + 1 .. pos + n
  BY <1>1, <1>3
<1>5. ~(r \in pos + n + 1 .. Len(units))
  BY <1>2, <1>3
<1>6. CASE r > pos
  BY <1>2, <1>3, <1>5, <1>6
<1>7. CASE r <= pos
  <2>1. units[r].m <= units[q].m
    <3>1. r <= q
      BY <1>3, <1>4, <1>7
    <3> QED BY <1>3, <3>1, TheStream
  <2> QED BY <1>1, <1>2, <1>3, <1>4, <2>1
<1> QED BY <1>3, <1>6, <1>7

\* Whatever the parser passes over: packets stay in order, and an intact message
\* that is not delivered is one whose end it passes.
LEMMA Passed ==
    ASSUME HttpInv, UNCHANGED <<script, units>>, NEW n \in 1 .. left, pos' = pos + n, packets' = packets
    PROVE  /\ PacketsInOrder' /\ pos' \in Nat /\ pos' > 0
           /\ \A m \in 1 .. Len(script) : Parsed(m)' /\ m \notin hurt /\ ~script[m].eof =>
                 \/ \E k \in DOMAIN packets : packets[k].m = m /\ packets[k].map = WholeMap(m)
                 \/ \E q \in pos + 1 .. pos + n : units[q].m = m
<1>1. /\ HttpTypes /\ PacketsInOrder /\ IntactAreDelivered
      /\ pos \in Nat /\ left \in Nat /\ pos + n \in 1 .. Len(units) /\ Len(units) \in Nat /\ n \in Nat
  BY TheStream DEF HttpInv, HttpTypes
<1>2. ASSUME pos > 0 PROVE units[pos].m <= units[pos + n].m
  <2>1. pos \in 1 .. Len(units) /\ pos <= pos + n
    BY <1>1, <1>2
  <2> QED BY <1>1, <2>1, TheStream
<1>3. \A k \in 1 .. Len(packets) : packets[k].m \in Nat
  <2>1. \A k \in 1 .. Len(packets) : packets[k] \in Packet
    BY <1>1, ElementOfSeq DEF HttpTypes
  <2> QED BY <2>1 DEF Packet
<1>4. PacketsInOrder'
  <2> SUFFICES ASSUME NEW k \in 1 .. Len(packets)
               PROVE  /\ pos + n > 0 /\ packets[k].m <= units[pos + n].m
                      /\ packets[k].body = WholeBody(packets[k].m)
                      /\ OwnValues(packets[k].map, packets[k].m)
                      /\ k > 1 => packets[k - 1].m < packets[k].m
    BY DEF PacketsInOrder, WholeBody, OwnValues
  <2>1. /\ pos > 0 /\ packets[k].m <= units[pos].m
        /\ packets[k].body = WholeBody(packets[k].m)
        /\ OwnValues(packets[k].map, packets[k].m)
        /\ k > 1 => packets[k - 1].m < packets[k].m
    BY <1>1 DEF PacketsInOrder
  <2>2. units[pos].m \in Nat /\ units[pos + n].m \in Nat
    <3>1. pos \in 1 .. Len(units)
      BY <1>1, <2>1
    <3> QED BY <1>1, <3>1, TheStream
  <2> QED BY <1>1, <1>2, <1>3, <2>1, <2>2
<1>5. ASSUME NEW m \in 1 .. Len(script), Parsed(m)', m \notin hurt, ~script[m].eof
      PROVE  \/ \E k \in DOMAIN packets : packets[k].m = m /\ packets[k].map = WholeMap(m)
             \/ \E q \in pos + 1 .. pos + n : units[q].m = m
  <2>1. CASE Parsed(m)
    <3>1. m \in DOMAIN script
      BY <1>1, TheStream
    <3>2. \E k \in DOMAIN packets : packets[k].m = m /\ packets[k].map = WholeMap(m)
      BY <1>1, <1>5, <2>1, <3>1 DEF IntactAreDelivered
    <3> QED BY <3>2
  <2>2. CASE ~Parsed(m)
    <3>1. \A q \in pos + n + 1 .. Len(units) : units[q].m > m
      BY <1>5 DEF Parsed
    <3>2. n \in Nat /\ pos + n <= Len(units)
      BY <1>1
    <3>3. \E q \in pos + 1 .. pos + n : units[q].m = m
      BY <1>1, <2>2, <3>1, <3>2, NewlyParsed
    <3> QED BY <3>3
  <2> QED BY <2>1, <2>2
<1> QED BY <1>1, <1>4, <1>5

\* The parser's position and types after a step of n units.
LEMMA Moved ==
    ASSUME HttpTypes, NEW n \in 1 .. left, UNCHANGED <<script, units>>, Advance(n),
           state' \in {"start", "msg", "eof"}, hurt' \subseteq 1 .. Len(script), field_' \in Value,
           recv_header_map_' \subseteq Entry, recv_body_str_' \in Seq(Piece), packets' \in Seq(Packet)
    PROVE  /\ HttpTypes' /\ pos' = pos + n /\ pos + n \in 1 .. Len(units) /\ n \in Nat /\ left > 0
           /\ Next1' = units[pos + n + 1]
<1>1. /\ script \in Script /\ units = Units(script) /\ pos \in Nat /\ left \in Nat /\ pos + left <= Len(units)
      /\ Len(units) \in Nat /\ pos' = pos + n /\ left' = left - n
  BY TheStream DEF HttpTypes, Advance
<1>2. /\ script' \in Script /\ units' = Units(script') /\ pos' \in Nat /\ left' \in Nat /\ pos' + left' <= Len(units')
  BY <1>1
<1>3. HttpTypes'
  BY <1>2 DEF HttpTypes
<1> QED BY <1>1, <1>3 DEF Next1

LEMMA IntactStay ==
    ASSUME UNCHANGED <<script, packets>>,
           \A m \in DOMAIN script : Parsed(m)' /\ m \notin hurt' /\ ~script[m].eof =>
              \E k \in DOMAIN packets : packets[k].m = m /\ packets[k].map = WholeMap(m)
    PROVE  IntactAreDelivered'
<1>1. \A m : WholeMap(m)' = WholeMap(m)
  BY DEF WholeMap, Whole
<1> QED BY <1>1 DEF IntactAreDelivered

\* A step that leaves the parser within the message at hand.
LEMMA GoesOn ==
    ASSUME HttpInv, NEW n \in 1 .. left, UNCHANGED <<script, units, packets>>, Advance(n),
           state' = "msg", \A k \in 1 .. Len(packets) : packets[k].m < Next1.m, hurt' \in {hurt, hurt \cup {Next1.m}}, field_' \in Value,
           recv_header_map_' \subseteq Entry, recv_body_str_' \in Seq(Piece),
           pos + n < Len(units), units[pos + n].m = Next1.m, units[pos + n + 1].m = Next1.m,
           recv_body_str_' = IF Next1'.kind = "body" THEN [b \in 1 .. Next1'.i - 1 |-> <<Next1'.m, b>>] ELSE <<>>,
           OwnValues(recv_header_map_', Next1.m),
           Next1.m \notin hurt' => Collected(Next1)'
    PROVE  HttpInv'
<1>1. HttpTypes /\ left > 0 /\ pos + 1 \in 1 .. Len(units) /\ Next1.m \in 1 .. Len(script)
  <2>1. HttpTypes /\ left > 0
    BY DEF HttpInv, HttpTypes
  <2> QED BY <2>1, TheUnit
<1>2. HttpTypes' /\ pos' = pos + n /\ pos + n \in 1 .. Len(units) /\ Next1' = units[pos + n + 1]
      /\ pos \in Nat /\ n \in Nat /\ Len(units) \in Nat
  <2>1. hurt' \subseteq 1 .. Len(script) /\ packets' \in Seq(Packet)
    BY <1>1 DEF HttpTypes
  <2> QED BY <1>1, <2>1, Moved, TheStream DEF HttpTypes
<1>3. Next1'.m = Next1.m
  BY <1>2
<1>4. InMessage'
  <2> QED BY <1>2, <1>3 DEF InMessage, OwnValues
<1>5. BetweenMessages' /\ ToTheEnd'
  BY DEF BetweenMessages, ToTheEnd
<1>6. PacketsInOrder'
  BY Passed DEF Advance
<1>7. IntactAreDelivered'
  <2> SUFFICES ASSUME NEW m \in DOMAIN script, Parsed(m)', m \notin hurt', ~script[m].eof
               PROVE  \E k \in DOMAIN packets : packets[k].m = m /\ packets[k].map = WholeMap(m)
    BY IntactStay
  <2>1. m \in 1 .. Len(script) /\ m \notin hurt
    BY <1>1, TheStream
  <2>2. \A q \in pos + 1 .. pos + n : units[q].m # m
    <3> SUFFICES ASSUME NEW q \in pos + 1 .. pos + n, units[q].m = m PROVE FALSE
      OBVIOUS
    <3>1. q \in 1 .. Len(units) /\ pos + 1 <= q /\ q <= pos + n
      BY <1>2
    <3>2. units[pos + 1].m <= units[q].m /\ units[q].m <= units[pos + n].m
      BY <1>1, <1>2, <3>1, TheStream
    <3>3. m = Next1.m
      BY <1>1, <2>1, <3>2 DEF Next1
    <3>4. pos + n + 1 \in pos' + 1 .. Len(units)
      BY <1>2
    <3>5. units[pos + n + 1].m > m
      BY <3>4 DEF Parsed
    <3> QED BY <1>1, <3>3, <3>5
  <2> QED BY <2>1, <2>2, Passed DEF Advance
<1> QED BY <1>2, <1>4, <1>5, <1>6, <1>7 DEF HttpInv

\* A step that leaves what it passes over undelivered, and the parser between messages.
LEMMA Skips ==
    ASSUME HttpInv, NEW n \in 1 .. left, UNCHANGED <<script, units, packets>>, Advance(n),
           state' = "start", hurt' = hurt \cup {units[q].m : q \in pos + 1 .. pos + n}, field_' \in Value,
           recv_header_map_' \subseteq Entry, recv_body_str_' \in Seq(Piece)
    PROVE  HttpInv'
<1>1. HttpTypes /\ left > 0 /\ Len(units) \in Nat /\ pos \in Nat /\ n \in Nat /\ pos + n \in 1 .. Len(units)
  BY TheStream DEF HttpInv, HttpTypes
<1>2. hurt' \subseteq 1 .. Len(script) /\ packets' \in Seq(Packet)
  <2>1. \A q \in pos + 1 .. pos + n : units[q].m \in 1 .. Len(script)
    <3>1. \A q \in pos + 1 .. pos + n : q \in 1 .. Len(units)
      BY <1>1
    <3> QED BY <1>1, <3>1, TheStream
  <2> QED BY <1>1, <2>1 DEF HttpTypes
<1>3. HttpTypes' /\ pos' = pos + n /\ Next1' = units[pos + n + 1]
  BY <1>1, <1>2, Moved
<1>4. InMessage' /\ ToTheEnd'
  BY DEF InMessage, ToTheEnd
<1>5. BetweenMessages'
  <2>1. pos + n \in pos + 1 .. pos + n
    BY <1>1
  <2>2. units[pos + n].m \in hurt'
    BY <2>1
  <2> QED BY <1>3, <2>2 DEF BetweenMessages
<1>6. PacketsInOrder'
  BY Passed DEF Advance
<1>7. IntactAreDelivered'
  <2> SUFFICES ASSUME NEW m \in DOMAIN script, Parsed(m)', m \notin hurt', ~script[m].eof
               PROVE  \E k \in DOMAIN packets : packets[k].m = m /\ packets[k].map = WholeMap(m)
    BY IntactStay
  <2>1. m \in 1 .. Len(script) /\ m \notin hurt
    BY <1>1, TheStream
  <2>2. \A q \in pos + 1 .. pos + n : units[q].m # m
    OBVIOUS
  <2> QED BY <2>1, <2>2, Passed DEF Advance
<1> QED BY <1>3, <1>4, <1>5, <1>6, <1>7 DEF HttpInv

\* A step into or within a body that ends with the connection.
LEMMA TakesAll ==
    ASSUME HttpInv, NEW n \in 1 .. left, UNCHANGED <<script, units, packets, hurt>>, Advance(n),
           state' = "eof", script[units[pos + 1].m].eof, field_' \in Value,
           recv_header_map_' \subseteq Entry, recv_body_str_' \in Seq(Piece)
    PROVE  HttpInv'
<1>1. HttpTypes /\ left > 0 /\ Len(units) \in Nat /\ pos \in Nat /\ n \in Nat /\ pos + n \in 1 .. Len(units) /\ pos + 1 \in 1 .. Len(units)
  BY TheStream DEF HttpInv, HttpTypes
<1>2. HttpTypes' /\ pos' = pos + n
  <2>1. hurt' \subseteq 1 .. Len(script) /\ packets' \in Seq(Packet)
    BY <1>1 DEF HttpTypes
  <2> QED BY <1>1, <2>1, Moved
<1>3. ASSUME NEW q \in pos + 1 .. pos + n PROVE script[units[q].m].eof
  <2>1. q \in 1 .. Len(units) /\ pos + 1 <= q
    BY <1>1
  <2>2. units[pos + 1].m <= units[q].m /\ units[pos + 1].m \in 1 .. Len(script) /\ units[q].m \in 1 .. Len(script)
    BY <1>1, <2>1, TheStream
  <2>3. units[pos + 1].m = Len(script)
    BY <1>1, <2>2, TheStream
  <2>4. units[q].m = units[pos + 1].m
    <3>1. Len(script) \in Nat
      BY <1>1, TheStream
    <3> QED BY <2>2, <2>3, <3>1
  <2> QED BY <2>4
<1>4. InMessage' /\ BetweenMessages'
  BY DEF InMessage, BetweenMessages
<1>5. ToTheEnd'
  <2>1. pos + n \in pos + 1 .. pos + n
    BY <1>1
  <2>2. script[units[pos + n].m].eof /\ pos + n > 0
    BY <1>1, <1>3, <2>1
  <2> QED BY <1>2, <2>2 DEF ToTheEnd
<1>6. PacketsInOrder'
  BY Passed DEF Advance
<1>7. IntactAreDelivered'
  <2> SUFFICES ASSUME NEW m \in DOMAIN script, Parsed(m)', m \notin hurt, ~script[m].eof
               PROVE  \E k \in DOMAIN packets : packets[k].m = m /\ packets[k].map = WholeMap(m)
    BY IntactStay
  <2>1. m \in 1 .. Len(script)
    BY <1>1, TheStream
  <2>2. \A q \in pos + 1 .. pos + n : units[q].m # m
    BY <1>3
  <2> QED BY <2>1, <2>2, Passed DEF Advance
<1> QED BY <1>2, <1>4, <1>5, <1>6, <1>7 DEF HttpInv

\* The step that completes a message.
LEMMA Delivers ==
    ASSUME HttpInv, NEW n \in 1 .. left, UNCHANGED <<script, units, hurt, field_, recv_header_map_>>, Advance(n),
           state = "msg", state' = "start", recv_body_str_' \in Seq(Piece),
           NEW b \in Seq(Piece), b = WholeBody(Next1.m),
           packets' = Append(packets, [m |-> Next1.m, map |-> recv_header_map_, body |-> b]),
           units[pos + n].m = Next1.m, Final(units[pos + n], Msg),
           Next1.m \notin hurt => recv_header_map_ = WholeMap(Next1.m)
    PROVE  HttpInv'
<1> DEFINE packet == [m |-> Next1.m, map |-> recv_header_map_, body |-> b]
           L == Len(packets)
<1>1. /\ HttpTypes /\ InMessage /\ PacketsInOrder /\ IntactAreDelivered
      /\ left > 0 /\ Len(units) \in Nat /\ pos \in Nat /\ n \in Nat /\ pos + n \in 1 .. Len(units)
      /\ pos + 1 \in 1 .. Len(units) /\ Next1.m \in 1 .. Len(script) /\ Next1.m \in Nat
  <2>1. HttpTypes /\ InMessage /\ PacketsInOrder /\ IntactAreDelivered
    BY DEF HttpInv
  <2>2. left > 0 /\ Len(units) \in Nat /\ pos \in Nat /\ n \in Nat /\ pos + n \in 1 .. Len(units)
    BY <2>1, TheStream DEF HttpTypes
  <2>3. pos + 1 \in 1 .. Len(units) /\ Next1.m \in 1 .. Len(script)
    BY <2>1, <2>2, TheUnit
  <2>4. Next1.m \in Nat
    BY <2>1, <2>3, TheStream DEF Next1
  <2> QED BY <2>1, <2>2, <2>3, <2>4
<1>2. packet \in Packet /\ packet.m = Next1.m /\ packet.map = recv_header_map_ /\ packet.body = b
  BY <1>1 DEF HttpTypes, Packet
<1> HIDE DEF packet
<1>3. /\ packets' \in Seq(Packet) /\ L \in Nat /\ Len(packets') = L + 1 /\ packets'[L + 1] = packet
      /\ \A k \in 1 .. L : packets'[k] = packets[k]
  <2>1. packets \in Seq(Packet) /\ packets' = Append(packets, packet)
    BY <1>1 DEF HttpTypes, packet
  <2> QED BY <1>2, <2>1, AppendProperties, LenProperties
<1>4. HttpTypes' /\ pos' = pos + n /\ Next1' = units[pos + n + 1]
  <2>1. /\ hurt' \subseteq 1 .. Len(script) /\ field_' \in Value /\ recv_header_map_' \subseteq Entry
    BY <1>1 DEF HttpTypes
  <2> QED BY <1>1, <1>3, <2>1, Moved
<1> HIDE DEF L
<1>5. InMessage' /\ ToTheEnd'
  BY DEF InMessage, ToTheEnd
<1>6. BetweenMessages'
  <2> SUFFICES ASSUME pos + n < Len(units) PROVE units[pos + n + 1].m # units[pos + n].m
    BY <1>4 DEF BetweenMessages
  <2>1. pos + n \in 1 .. Len(units) - 1 /\ (pos + n) + 1 = pos + n + 1
    BY <1>1
  <2>2. After(units[pos + n + 1], units[pos + n], script)
    BY <1>1, <2>1, TheStream DEF Flow
  <2>3. units[pos + n + 1].m = units[pos + n].m + 1
    BY <2>2 DEF After, Msg
  <2> QED BY <1>1, <2>3
<1>7. \A k \in 1 .. L : packets[k].m < Next1.m
  BY <1>1 DEF InMessage, L
<1>8. PacketsInOrder'
  <2>1. \A k \in 1 .. L + 1 : k \in 1 .. L \/ k = L + 1
    BY <1>3
  <2>2. ASSUME NEW k \in 1 .. L
        PROVE  /\ packets'[k].m <= units[pos + n].m
               /\ packets'[k].body = WholeBody(packets'[k].m)
               /\ OwnValues(packets'[k].map, packets'[k].m)
               /\ k > 1 => packets'[k - 1].m < packets'[k].m
    <3>1. /\ packets[k].body = WholeBody(packets[k].m)
          /\ OwnValues(packets[k].map, packets[k].m)
          /\ k > 1 => packets[k - 1].m < packets[k].m
      BY <1>1 DEF PacketsInOrder, L
    <3>2. packets[k] \in Packet
      BY <1>1, ElementOfSeq DEF HttpTypes, L
    <3>3. packets[k].m \in Nat /\ packets[k].m < Next1.m
      BY <1>7, <3>2 DEF Packet
    <3>4. k > 1 => k - 1 \in 1 .. L
      BY <1>3
    <3> QED BY <1>1, <1>3, <3>1, <3>3, <3>4
  <2>3. /\ packets'[L + 1].m <= units[pos + n].m
        /\ packets'[L + 1].body = WholeBody(packets'[L + 1].m)
        /\ OwnValues(packets'[L + 1].map, packets'[L + 1].m)
        /\ L + 1 > 1 => packets'[(L + 1) - 1].m < packets'[L + 1].m
    <3>1. OwnValues(recv_header_map_, Next1.m)
      BY <1>1 DEF InMessage
    <3>2. L + 1 > 1 => (L + 1) - 1 = L /\ L \in 1 .. L
      BY <1>3
    <3> QED BY <1>1, <1>2, <1>3, <1>7, <3>1, <3>2
  <2>4. pos + n > 0
    BY <1>1
  <2>6. \A m : WholeBody(m)' = WholeBody(m)
    BY DEF WholeBody
  <2>5. \A k \in 1 .. L + 1 :
               /\ packets'[k].m <= units[pos + n].m
               /\ packets'[k].body = WholeBody(packets'[k].m)
               /\ OwnValues(packets'[k].map, packets'[k].m)
               /\ k > 1 => packets'[k - 1].m < packets'[k].m
    BY <2>1, <2>2, <2>3, <2>4
  <2>7. \A map, m : OwnValues(map, m)' = OwnValues(map, m)
    BY DEF OwnValues
  <2> QED BY <1>3, <1>4, <2>4, <2>5, <2>6, <2>7 DEF PacketsInOrder
<1>9. IntactAreDelivered'
  <2> SUFFICES ASSUME NEW m \in DOMAIN script, Parsed(m)', m \notin hurt, ~script[m].eof
               PROVE  \E k \in DOMAIN packets' : packets'[k].m = m /\ packets'[k].map = WholeMap(m)
    <3>1. \A m : WholeMap(m)' = WholeMap(m)
      BY DEF WholeMap, Whole
    <3> QED BY <3>1 DEF IntactAreDelivered
  <2>1. m \in 1 .. Len(script) /\ DOMAIN packets' = 1 .. L + 1 /\ DOMAIN packets = 1 .. L
    BY <1>1, <1>3, TheStream, LenProperties DEF HttpTypes, L
  <2>2. CASE m = Next1.m
    <3>1. packets'[L + 1].m = m /\ packets'[L + 1].map = WholeMap(m)
      BY <1>2, <1>3, <2>2
    <3>2. L + 1 \in 1 .. L + 1
      BY <1>3
    <3> QED BY <2>1, <3>1, <3>2
  <2>3. CASE m # Next1.m
    <3>1. Parsed(m)
      <4> SUFFICES ASSUME ~Parsed(m) PROVE FALSE
        OBVIOUS
      <4>1. \A q \in pos + n + 1 .. Len(units) : units[q].m > m
        BY <1>4 DEF Parsed
      <4>2. PICK q \in pos + 1 .. pos + n : units[q].m = m
        <5>1. n \in Nat /\ pos + n <= Len(units)
          BY <1>1
        <5> QED BY <1>1, <2>1, <4>1, <5>1, NewlyParsed
      <4>3. q \in 1 .. Len(units) /\ pos + 1 <= q /\ q <= pos + n
        BY <1>1
      <4>4. units[pos + 1].m <= units[q].m /\ units[q].m <= units[pos + n].m
        BY <1>1, <4>3, TheStream
      <4>5. units[pos + 1].m = Next1.m /\ units[q].m \in Nat
        BY <1>1, <4>3, TheStream DEF Next1
      <4> QED BY <1>1, <2>3, <4>2, <4>4, <4>5
    <3>2. PICK k \in 1 .. L : packets[k].m = m /\ packets[k].map = WholeMap(m)
      BY <1>1, <2>1, <3>1 DEF IntactAreDelivered
    <3>3. k \in 1 .. L + 1
      BY <1>3
    <3> QED BY <1>3, <2>1, <3>2, <3>3
  <2> QED BY <2>2, <2>3
<1> QED BY <1>4, <1>5, <1>6, <1>8, <1>9 DEF HttpInv

\* v is the unit at hand after a step.
LEMMA CollectedNext ==
    ASSUME UNCHANGED script, NEW v, Next1' = v, IsText(v) => v.i = 1 \/ v.i = TextLen + 1,
           recv_header_map_' = MapUpTo(v.m, IF IsText(v) /\ v.i = TextLen + 1 THEN v.e ELSE v.e - 1),
           v.kind = "value" => field_' = Whole(v.m, v.e - 1)
    PROVE  Collected(Next1)'
<1>1. \A m, d : MapUpTo(m, d)' = MapUpTo(m, d)
  BY DEF MapUpTo, Whole
<1>2. IsText(Next1)' = IsText(v)
  BY DEF IsText
<1>3. \A m, e : Whole(m, e)' = Whole(m, e)
  BY DEF Whole
<1> QED BY <1>1, <1>2, <1>3 DEF Collected

\* on_message_begin.
LEMMA Begins ==
    ASSUME HttpInv, on_message_begin
    PROVE  HttpInv'
<1> DEFINE u == units[pos + 1]
           w == units[pos + 2]
<1>1. HttpTypes /\ PacketsInOrder /\ left > 0 /\ Next1.kind = "start" /\ state' = "msg" /\ recv_header_map_' = {}
      /\ recv_body_str_' = <<>> /\ Advance(1) /\ UNCHANGED <<script, units, packets, field_, hurt>> /\ field_ \in Value
  BY DEF HttpInv, HttpTypes, on_message_begin
<1>2. /\ pos + 1 \in 1 .. Len(units) /\ Len(units) \in Nat /\ pos \in Nat /\ left \in Nat /\ Msg \in Message
      /\ u = Next1 /\ u.m \in 1 .. Len(script) /\ u.m \in Nat /\ Msg = script[u.m] /\ Flow(script, units)
  <2>1. pos + 1 \in 1 .. Len(units) /\ Msg \in Message /\ Next1.m \in 1 .. Len(script)
    BY <1>1, TheUnit
  <2>2. Len(units) \in Nat /\ units[pos + 1].m \in Nat /\ Flow(script, units)
    BY <1>1, <2>1, TheStream
  <2> QED BY <1>1, <2>1, <2>2 DEF HttpTypes, Next1, Msg
<1>3. u.e = 1 /\ u.i = 1 /\ Ends(Msg) >= 3 /\ Ends(Msg) \in Nat /\ TextLen \in Nat /\ TextLen > 0 /\ Size(Msg, 1) = 1
  <2>1. u.e \in 1 .. Ends(Msg) + 1 /\ u.i \in 1 .. Size(Msg, u.e) /\ u.kind = KindOf(Msg, u.e) /\ TextLen \in Nat /\ TextLen > 0
    BY <1>1, <1>2, TheUnit
  <2>2. u.e = 1
    BY <1>1, <1>2, <2>1, ElementOf
  <2> QED BY <1>2, <2>1, <2>2, SizeIsNat DEF Size
<1>4. ~Final(u, Msg)
  BY <1>3 DEF Final
<1>5. pos + 1 < Len(units) /\ w.m = u.m /\ w.e = 2 /\ w.i = 1
  <2>1. pos + 1 # Len(units)
    <3>1. Final(units[Len(units)], script[units[Len(units)].m])
      BY <1>2 DEF Flow
    <3> QED BY <1>2, <1>4, <3>1
  <2>2. pos + 1 \in 1 .. Len(units) - 1 /\ (pos + 1) + 1 = pos + 2 /\ pos + 2 \in 1 .. Len(units)
    BY <1>2, <2>1
  <2>3. After(w, u, script)
    BY <1>2, <2>2 DEF Flow
  <2> QED BY <1>2, <1>3, <1>4, <2>2, <2>3 DEF After, Follows
<1>6. \A k \in 1 .. Len(packets) : packets[k].m < Next1.m
  <2> SUFFICES ASSUME NEW k \in 1 .. Len(packets) PROVE packets[k].m < u.m
    BY <1>2
  <2> DEFINE t == units[pos]
  <2>1. pos > 0 /\ packets[k].m <= t.m
    BY <1>1 DEF PacketsInOrder
  <2>2. pos \in 1 .. Len(units) - 1 /\ pos \in 1 .. Len(units)
    BY <1>2, <2>1
  <2>3. After(u, t, script) /\ UnitOf(t, t.m, script[t.m]) /\ t.m \in 1 .. Len(script) /\ t.m \in Nat
    BY <1>1, <1>2, <2>2, TheStream DEF Flow
  <2>4. t.e >= 1 /\ t.i >= 1 /\ t.e \in Int /\ t.i \in Int
    BY <2>3 DEF UnitOf, UnitType
  <2>5. u.m = t.m + 1
    BY <1>3, <2>3, <2>4 DEF After, Follows
  <2>6. packets[k] \in Packet
    BY <1>1, ElementOfSeq DEF HttpTypes
  <2>7. packets[k].m \in Nat
    BY <2>6 DEF Packet
  <2> QED BY <2>1, <2>3, <2>5, <2>7
<1>7. Next1' = w /\ pos' = pos + 1 /\ w.kind # "body" /\ w.kind # "value"
  <2>1. Next1' = w /\ pos' = pos + 1
    BY <1>1, <1>2 DEF Next1, Advance
  <2>2. UnitOf(w, w.m, script[w.m])
    <3>1. pos + 2 \in 1 .. Len(units)
      BY <1>2, <1>5
    <3> QED BY <1>2, <3>1 DEF Flow
  <2>3. w.kind \in {"url", "status"}
    BY <1>2, <1>3, <1>5, <2>2 DEF UnitOf, KindOf
  <2> QED BY <2>1, <2>3
<1>8. Collected(Next1)'
  <2>1. MapUpTo(u.m, 1) = {}
    <3>1. {i \in 1 .. script[u.m].heads : 2 * i + 2 <= 1} = {}
      BY <1>2 DEF Message
    <3> QED BY <3>1 DEF MapUpTo
  <2>2. w.i # TextLen + 1 /\ w.e - 1 = 1
    BY <1>3, <1>5
  <2> HIDE DEF w
  <2>3. recv_header_map_' = MapUpTo(w.m, IF IsText(w) /\ w.i = TextLen + 1 THEN w.e ELSE w.e - 1)
    BY <1>1, <1>5, <2>1, <2>2
  <2> QED BY <1>1, <1>5, <1>7, <2>3, CollectedNext
<1>9. OwnValues(recv_header_map_', Next1.m)
  BY <1>1 DEF OwnValues
<1>10. recv_body_str_' = IF Next1'.kind = "body" THEN [b \in 1 .. Next1'.i - 1 |-> <<Next1'.m, b>>] ELSE <<>>
  BY <1>1, <1>7
<1>11. /\ 1 \in 1 .. left /\ pos + 1 < Len(units) /\ units[pos + 1].m = Next1.m /\ units[pos + 1 + 1].m = Next1.m
       /\ recv_header_map_' \subseteq Entry /\ recv_body_str_' \in Seq(Piece) /\ field_' \in Value /\ hurt' = hurt
  <2>1. recv_body_str_' \in Seq(Piece)
    BY <1>1
  <2>2. (pos + 1) + 1 = pos + 2 /\ 1 \in 1 .. left
    BY <1>1, <1>2
  <2> QED BY <1>1, <1>2, <1>5, <2>1, <2>2
<1> DEFINE one == 1
<1>12. one \in 1 .. left /\ Advance(one) /\ pos + one < Len(units) /\ units[pos + one].m = Next1.m /\ units[pos + one + 1].m = Next1.m
  BY <1>1, <1>11
<1> HIDE DEF one
<1> QED BY <1>1, <1>6, <1>8, <1>9, <1>10, <1>11, <1>12, GoesOn

\* A read, the end of the stream, and no step at all.
LEMMA ReadsOrRests ==
    ASSUME HttpInv, (\E n \in 1 .. Len(units) - pos : on_read(n)) \/ end_of_stream \/ UNCHANGED vars
    PROVE  HttpInv'
<1>1. /\ UNCHANGED <<script, units, pos, state, field_, recv_header_map_, recv_body_str_, packets, hurt>>
      /\ left' \in Nat /\ pos + left' <= Len(units)
  <2>1. left \in Nat /\ pos \in Nat /\ pos + left <= Len(units) /\ Len(units) \in Nat
    BY TheStream DEF HttpInv, HttpTypes
  <2>2. CASE \E n \in 1 .. Len(units) - pos : on_read(n)
    BY <2>1, <2>2 DEF on_read
  <2>3. CASE end_of_stream
    BY <2>1, <2>3 DEF end_of_stream
  <2>4. CASE UNCHANGED vars
    BY <2>1, <2>4 DEF vars
  <2> QED BY <2>2, <2>3, <2>4
<1>2. HttpTypes'
  BY <1>1 DEF HttpInv, HttpTypes
<1>3. Next1' = Next1 /\ (\A m : Parsed(m)' = Parsed(m)) /\ (\A m : WholeMap(m)' = WholeMap(m)) /\ (\A m : WholeBody(m)' = WholeBody(m))
  BY <1>1 DEF Next1, Parsed, WholeMap, WholeBody, Whole
<1>4. \A map, m : OwnValues(map, m)' = OwnValues(map, m)
  BY DEF OwnValues
<1>5. Collected(Next1)' = Collected(Next1)
  <2>1. \A m, d : MapUpTo(m, d)' = MapUpTo(m, d)
    BY <1>1 DEF MapUpTo, Whole
  <2>2. \A u : IsText(u)' = IsText(u)
    BY <1>1 DEF IsText
  <2> QED BY <1>1, <1>3, <2>1, <2>2 DEF Collected, Whole
<1>6. InMessage'
  BY <1>1, <1>3, <1>4, <1>5 DEF HttpInv, InMessage
<1>7. BetweenMessages' /\ ToTheEnd'
  BY <1>1, <1>3 DEF HttpInv, BetweenMessages, ToTheEnd
<1>8. PacketsInOrder'
  BY <1>1, <1>3, <1>4 DEF HttpInv, PacketsInOrder
<1>9. IntactAreDelivered'
  BY <1>1, <1>3 DEF HttpInv, IntactAreDelivered
<1> QED BY <1>2, <1>6, <1>7, <1>8, <1>9 DEF HttpInv

\* skip_line_end and parse_error.
LEMMA Errors ==
    ASSUME HttpInv, skip_line_end \/ parse_error
    PROVE  HttpInv'
<1>1. /\ HttpTypes /\ left > 0 /\ left \in Nat /\ pos \in Nat
      /\ field_ \in Value /\ recv_header_map_ \subseteq Entry /\ recv_body_str_ \in Seq(Piece)
  BY DEF HttpInv, HttpTypes, skip_line_end, parse_error
<1>2. UNCHANGED <<script, units, packets, field_, recv_header_map_, recv_body_str_>> /\ state' = "start"
  BY DEF skip_line_end, parse_error, Fail
<1>3. CASE skip_line_end
  <2> DEFINE one == 1
  <2>1. pos + one = pos + 1 /\ pos + 1 .. pos + one = {pos + 1} /\ one \in 1 .. left
    BY <1>1
  <2>2. hurt' = hurt \cup {units[q].m : q \in pos + 1 .. pos + one}
    <3>1. {units[q].m : q \in pos + 1 .. pos + one} = {units[pos + 1].m}
      BY <2>1
    <3> QED BY <1>3, <3>1 DEF skip_line_end, Next1
  <2>3. Advance(one)
    BY <1>3 DEF skip_line_end
  <2> HIDE DEF one
  <2> QED BY <1>1, <1>2, <2>1, <2>2, <2>3, Skips
<1>4. CASE parse_error
  <2>1. left \in 1 .. left /\ Advance(left) /\ hurt' = hurt \cup {units[q].m : q \in pos + 1 .. pos + left}
    BY <1>1, <1>4 DEF parse_error, Fail
  <2> QED BY <1>1, <1>2, <2>1, Skips
<1> QED BY <1>3, <1>4

\* Texts that are told whole have keys of their own.
LEMMA WholeText ==
    ASSUME NEW m \in Nat, NEW e \in Nat
    PROVE  /\ Whole(m, e) = <<m, e, 1, TextLen>> /\ Whole(m, e) \in Value /\ Whole(m, e)[1] = m
           /\ \A d : Whole(m, d) = Whole(m, e) => d = e
           /\ \A x : Whole(m, e) # <<x>>
<1>1. TextLen \in Nat /\ TextLen > 0
  BY HttpAssumption
<1>2. \A d : Whole(m, d) = <<m, d, 1, TextLen>>
  BY <1>1 DEF Whole, Str
<1>3. <<m, e, 1, TextLen>> \in Value
  BY <1>1 DEF Value
<1>4. \A x : Len(<<x>>) = 1 /\ Len(<<m, e, 1, TextLen>>) = 4
  OBVIOUS
<1>5. \A x : <<m, e, 1, TextLen>> # <<x>>
  BY <1>4
<1>6. \A d : <<m, d, 1, TextLen>> = <<m, e, 1, TextLen>> => d = e
  <2> SUFFICES ASSUME NEW d, <<m, d, 1, TextLen>> = <<m, e, 1, TextLen>> PROVE d = e
    OBVIOUS
  <2>1. <<m, d, 1, TextLen>>[2] = d /\ <<m, e, 1, TextLen>>[2] = e
    OBVIOUS
  <2> QED BY <2>1
<1> QED BY <1>2, <1>3, <1>5, <1>6

\* What each text adds to the map, and what the whole map is.
LEMMA MapSteps ==
    ASSUME HttpTypes, NEW m \in 1 .. Len(script)
    PROVE  LET msg == script[m]
               first == <<IF msg.kind = "request" THEN "Method" ELSE "Status">>
               second == <<IF msg.kind = "request" THEN "Path" ELSE "Reason">>
           IN  /\ MapUpTo(m, 2) = put(put(MapUpTo(m, 1), first, <<m>>), second, Whole(m, 2))
               /\ \A h \in 1 .. msg.heads : MapUpTo(m, 2 * h + 1) = MapUpTo(m, 2 * h)
               /\ \A h \in 1 .. msg.heads :
                    MapUpTo(m, 2 * h + 2) = put(MapUpTo(m, 2 * h + 1), Whole(m, 2 * h + 1), Whole(m, 2 * h + 2))
               /\ MapUpTo(m, Ends(msg) - 1) = WholeMap(m) /\ MapUpTo(m, Ends(msg)) = WholeMap(m)
<1> DEFINE msg == script[m]
           H == msg.heads
           first == <<IF msg.kind = "request" THEN "Method" ELSE "Status">>
           second == <<IF msg.kind = "request" THEN "Path" ELSE "Reason">>
           Line == {[k |-> first, v |-> <<m>>], [k |-> second, v |-> Whole(m, 2)]}
           HeaderOf(h) == [k |-> Whole(m, 2 * h + 1), v |-> Whole(m, 2 * h + 2)]
           Heads(d) == {HeaderOf(h) : h \in {i \in 1 .. H : 2 * i + 2 <= d}}
<1>1. m \in Nat /\ H \in Nat /\ TextLen \in Nat /\ Ends(msg) = 3 + 2 * H
  <2>1. m \in Nat
    OBVIOUS
  <2>2. script[m] \in Message
    BY TheStream
  <2> QED BY <2>1, <2>2, HttpAssumption DEF Message, Ends
<1>2. first # second /\ (\A e \in Nat : Whole(m, e) # first /\ Whole(m, e) # second)
  <2>1. first[1] # second[1]
    OBVIOUS
  <2>2. \A e \in Nat : Whole(m, e) # first /\ Whole(m, e) # second
    BY <1>1, WholeText
  <2> QED BY <2>1, <2>2
<1>3. \A d : MapUpTo(m, d) = (IF d < 2 THEN {} ELSE Line) \cup Heads(d)
  BY DEF MapUpTo
<1>4. WholeMap(m) = Line \cup {HeaderOf(h) : h \in 1 .. H}
  BY DEF WholeMap
<1>5. MapUpTo(m, 2) = put(put(MapUpTo(m, 1), first, <<m>>), second, Whole(m, 2))
  <2>1. {i \in 1 .. H : 2 * i + 2 <= 1} = {} /\ {i \in 1 .. H : 2 * i + 2 <= 2} = {}
    BY <1>1
  <2>2. Heads(1) = {} /\ Heads(2) = {}
    BY <2>1
  <2> HIDE DEF Heads
  <2>3. MapUpTo(m, 1) = {} /\ MapUpTo(m, 2) = Line
    BY <1>3, <2>2
  <2> HIDE DEF first, second
  <2>4. put({}, first, <<m>>) = {[k |-> first, v |-> <<m>>]}
    BY DEF put
  <2>5. put({[k |-> first, v |-> <<m>>]}, second, Whole(m, 2)) = Line
    BY <1>2 DEF put
  <2> QED BY <2>3, <2>4, <2>5
<1>6. ASSUME NEW h \in 1 .. H PROVE MapUpTo(m, 2 * h + 1) = MapUpTo(m, 2 * h)
  <2>1. {i \in 1 .. H : 2 * i + 2 <= 2 * h + 1} = {i \in 1 .. H : 2 * i + 2 <= 2 * h}
    BY <1>1
  <2>2. ~(2 * h < 2) /\ ~(2 * h + 1 < 2)
    BY <1>1
  <2>3. Heads(2 * h + 1) = Heads(2 * h)
    BY <2>1
  <2> HIDE DEF Heads, Line
  <2> QED BY <1>3, <2>2, <2>3
<1>7. ASSUME NEW h \in 1 .. H
      PROVE  MapUpTo(m, 2 * h + 2) = put(MapUpTo(m, 2 * h + 1), Whole(m, 2 * h + 1), Whole(m, 2 * h + 2))
  <2> DEFINE old == {i \in 1 .. H : 2 * i + 2 <= 2 * h + 1}
             new == {i \in 1 .. H : 2 * i + 2 <= 2 * h + 2}
             key == Whole(m, 2 * h + 1)
             Key(i) == Whole(m, 2 * i + 1)
  <2>1. new = old \cup {h} /\ h \notin old
    BY <1>1
  <2>2. ~(2 * h + 2 < 2) /\ ~(2 * h + 1 < 2) /\ 2 * h + 1 \in Nat
    BY <1>1
  <2>3. \A i \in old : Key(i) # key
    <3> SUFFICES ASSUME NEW i \in old PROVE 2 * i + 1 # 2 * h + 1
      BY <1>1, <2>2, WholeText
    <3> QED BY <1>1
  <2>4. key # first /\ key # second
    BY <1>2, <2>2
  <2> DEFINE OldHeads == {HeaderOf(i) : i \in old}
  <2>5. Heads(2 * h + 1) = OldHeads /\ Heads(2 * h + 2) = {HeaderOf(i) : i \in new}
    OBVIOUS
  <2>6. {HeaderOf(i) : i \in new} = OldHeads \cup {HeaderOf(h)}
    BY <2>1
  <2>7. \A x \in Line \cup OldHeads : x.k # key
    <3>1. \A x \in OldHeads : x.k # key
      BY <2>3
    <3>2. \A x \in Line : x.k # key
      BY <2>4
    <3> QED BY <3>1, <3>2
  <2>8. HeaderOf(h) = [k |-> key, v |-> Whole(m, 2 * h + 2)]
    OBVIOUS
  <2>9. MapUpTo(m, 2 * h + 1) = Line \cup OldHeads
    <3> HIDE DEF Line, Heads, OldHeads
    <3> QED BY <1>3, <2>2, <2>5
  <2>10. MapUpTo(m, 2 * h + 2) = Line \cup OldHeads \cup {HeaderOf(h)}
    <3> HIDE DEF Line, Heads, OldHeads, HeaderOf
    <3>1. MapUpTo(m, 2 * h + 2) = Line \cup Heads(2 * h + 2)
      BY <1>3, <2>2
    <3> QED BY <2>5, <2>6, <3>1
  <2> HIDE DEF Line, Heads, OldHeads, HeaderOf, key
  <2>11. {x \in Line \cup OldHeads : x.k # key} = Line \cup OldHeads
    BY <2>7
  <2> QED BY <2>8, <2>9, <2>10, <2>11 DEF put, key
<1>8. MapUpTo(m, Ends(msg) - 1) = WholeMap(m) /\ MapUpTo(m, Ends(msg)) = WholeMap(m)
  <2>1. ~(Ends(msg) - 1 < 2) /\ ~(Ends(msg) < 2)
    BY <1>1
  <2>2. {i \in 1 .. H : 2 * i + 2 <= Ends(msg) - 1} = 1 .. H /\ {i \in 1 .. H : 2 * i + 2 <= Ends(msg)} = 1 .. H
    BY <1>1
  <2>3. Heads(Ends(msg) - 1) = {HeaderOf(h) : h \in 1 .. H} /\ Heads(Ends(msg)) = {HeaderOf(h) : h \in 1 .. H}
    BY <2>2
  <2> HIDE DEF Line, Heads, HeaderOf
  <2> QED BY <1>3, <1>4, <2>1, <2>3
<1> QED BY <1>5, <1>6, <1>7, <1>8

\* The part of a text that a read holds, and what comes after it.
LEMMA TextTaken ==
    ASSUME HttpTypes, left > 0, IsText(Next1)
    PROVE  /\ Taken \in 1 .. left /\ pos + Taken < Len(units)
           /\ units[pos + Taken].m = Next1.m /\ units[pos + Taken + 1].m = Next1.m
           /\ LET w == units[pos + Taken + 1]
              IN  \/ w.e = Next1.e /\ w.i = Next1.i + Taken /\ Taken = left /\ Chars = left /\ left <= TextLen + 1 - Next1.i
                  \/ w.e = Next1.e + 1 /\ w.i = 1 /\ Chars = TextLen + 1 - Next1.i
           /\ Chars \in Nat /\ Next1.m \in Nat /\ Next1.e \in Nat /\ Next1.i \in Nat /\ Next1.i > 0
           /\ Fragment \in Value /\ (Fragment # <<>> => Fragment[1] = Next1.m)
           /\ (Chars = TextLen => Next1.i = 1 /\ Fragment = Whole(Next1.m, Next1.e))
<1> DEFINE u == units[pos + 1]
           q == pos + 1
           n == Taken
           w == units[pos + n + 1]
           msg == script[u.m]
<1>1. /\ q \in 1 .. Len(units) /\ u = Next1 /\ u.m \in 1 .. Len(script) /\ Msg = msg /\ msg \in Message
      /\ u.e \in 1 .. Ends(msg) + 1 /\ u.i \in 1 .. Size(msg, u.e) /\ TextLen \in Nat /\ TextLen > 0
  BY TheUnit DEF Next1, Msg
<1>2. Flow(script, units) /\ Len(units) \in Nat /\ Len(script) \in Nat /\ script \in Script
  BY TheStream DEF HttpTypes
<1>3. pos \in Nat /\ left \in Nat /\ Ends(msg) \in Nat /\ u.e \in Nat /\ u.m \in Nat /\ u.e > 1 /\ u.e < Ends(msg)
      /\ left > 0
  BY <1>1, <1>2, SizeIsNat DEF HttpTypes, IsText
<1>4. Size(msg, u.e) = TextLen + 1
  BY <1>1, <1>3 DEF Size
<1>5. u.i \in Nat /\ u.i > 0 /\ u.i <= TextLen + 1
  BY <1>1, <1>4
<1> DEFINE rest == TextLen + 1 - u.i
<1>6. rest \in Nat /\ Rest = rest /\ Chars = (IF left > rest THEN rest ELSE left) /\ n = (IF left > rest THEN rest + 1 ELSE left)
  BY <1>1, <1>5 DEF Rest, Chars, Taken
<1>7. n \in 1 .. left /\ n \in Nat /\ Chars \in Nat
  BY <1>3, <1>6
<1> HIDE DEF n
<1>8. ASSUME NEW k \in Nat, u.i + k <= TextLen + 1
      PROVE  q + k \in 1 .. Len(units) /\ units[q + k].m = u.m /\ units[q + k].e = u.e /\ units[q + k].i = u.i + k
  <2>1. units[q].i + k <= Size(script[units[q].m], units[q].e)
    BY <1>4, <1>8
  <2> HIDE DEF q
  <2>2. q + k \in 1 .. Len(units) /\ units[q + k].m = units[q].m /\ units[q + k].e = units[q].e /\ units[q + k].i = units[q].i + k
    <3>1. q \in 1 .. Len(units)
      BY <1>1 DEF q
    <3>2. script \in Script /\ Flow(script, units)
      BY <1>2
    <3> HIDE DEF u, msg, w, rest
    <3> QED BY <2>1, <3>1, <3>2, RunOfUnits
  <2> QED BY <2>2 DEF q
<1>9. /\ pos + n < Len(units) /\ units[pos + n].m = u.m /\ w.m = u.m
      /\ \/ w.e = u.e /\ w.i = u.i + n /\ n = left /\ Chars = left /\ left <= rest
         \/ w.e = u.e + 1 /\ w.i = 1 /\ Chars = rest
  <2>1. CASE left <= rest
    <3>1. n = left /\ Chars = left /\ n - 1 \in Nat /\ u.i + (n - 1) <= TextLen + 1 /\ u.i + n <= TextLen + 1
      BY <1>1, <1>3, <1>5, <1>6, <2>1
    <3>2. q + n = pos + n + 1 /\ q + (n - 1) = pos + n
      BY <1>3, <1>7
    <3>3. units[pos + n].m = u.m
      BY <1>8, <3>1, <3>2
    <3>4. pos + n + 1 \in 1 .. Len(units) /\ w.m = u.m /\ w.e = u.e /\ w.i = u.i + n
      BY <1>7, <1>8, <3>1, <3>2
    <3>5. pos + n < Len(units)
      BY <1>2, <1>3, <1>7, <3>4
    <3> QED BY <2>1, <3>1, <3>3, <3>4, <3>5
  <2>2. CASE left > rest
    <3> DEFINE t == units[pos + n]
    <3>1. n = rest + 1 /\ Chars = rest /\ u.i + rest = TextLen + 1 /\ q + rest = pos + n
      <4>1. n = rest + 1 /\ Chars = rest
        BY <1>6, <2>2
      <4>2. u.i + rest = TextLen + 1
        BY <1>1, <1>5
      <4>3. q + rest = pos + (rest + 1)
        BY <1>3, <1>6
      <4> QED BY <4>1, <4>2, <4>3
    <3>2. pos + n \in 1 .. Len(units) /\ t.m = u.m /\ t.e = u.e /\ t.i = TextLen + 1
      <4>1. q + rest \in 1 .. Len(units) /\ units[q + rest].m = u.m /\ units[q + rest].e = u.e /\ units[q + rest].i = u.i + rest
        <5>1. rest \in Nat /\ u.i + rest <= TextLen + 1
          BY <1>1, <1>5, <1>6
        <5> HIDE DEF rest, u, q
        <5> QED BY <1>8, <5>1
      <4> QED BY <3>1, <4>1
    <3>3. ~Final(t, msg)
      BY <1>3, <3>2 DEF Final
    <3>4. pos + n # Len(units)
      <4>1. Final(units[Len(units)], script[units[Len(units)].m])
        BY <1>1, <1>2 DEF Flow
      <4> QED BY <3>2, <3>3, <4>1
    <3>5. pos + n \in 1 .. Len(units) - 1 /\ pos + n < Len(units) /\ (pos + n) + 1 = pos + n + 1
      BY <1>2, <1>3, <1>7, <3>2, <3>4
    <3>6. After(w, t, script)
      BY <1>2, <3>5 DEF Flow
    <3>7. w.m = u.m /\ w.e = u.e + 1 /\ w.i = 1
      <4>1. w.m = t.m /\ Follows(w, t, msg)
        BY <3>2, <3>3, <3>6 DEF After
      <4>2. ~(t.i < Size(msg, t.e))
        BY <1>1, <1>4, <3>2
      <4> QED BY <3>2, <4>1, <4>2 DEF Follows
    <3> QED BY <3>1, <3>2, <3>5, <3>7
  <2> QED BY <1>3, <1>6, <2>1, <2>2
<1>10. Fragment = (IF u.i + Chars - 1 < u.i THEN <<>> ELSE <<u.m, u.e, u.i, u.i + Chars - 1>>)
  BY <1>1 DEF Fragment, Str
<1>11. Fragment \in Value /\ (Fragment # <<>> => Fragment[1] = u.m)
  <2>1. CASE Chars = 0
    <3>1. Fragment = <<>>
      BY <1>5, <1>10, <2>1
    <3>2. <<>> \in Value
      BY DEF Value
    <3> QED BY <3>1, <3>2
  <2>2. CASE Chars > 0
    <3> DEFINE hi == u.i + Chars - 1
    <3>1. hi \in Nat /\ ~(hi < u.i)
      BY <1>5, <1>7, <2>2
    <3> HIDE DEF hi
    <3>2. <<u.m, u.e, u.i, hi>> \in Value
      BY <1>3, <1>5, <3>1 DEF Value
    <3>3. Fragment = <<u.m, u.e, u.i, hi>>
      BY <1>10, <3>1 DEF hi
    <3> QED BY <3>2, <3>3
  <2> QED BY <1>7, <2>1, <2>2
<1>12. ASSUME Chars = TextLen PROVE u.i = 1 /\ Fragment = Whole(u.m, u.e)
  <2>1. Chars <= rest
    BY <1>3, <1>6
  <2>2. u.i = 1
    BY <1>1, <1>5, <1>12, <2>1
  <2>3. u.i + Chars - 1 = TextLen
    BY <1>1, <1>12, <2>2
  <2> QED BY <1>10, <2>2, <2>3 DEF Whole, Str
<1> QED BY <1>1, <1>3, <1>5, <1>7, <1>9, <1>11, <1>12 DEF n

\* A text of a message that is intact after the step came whole, and so did the ones before.
LEMMA TextKnown ==
    ASSUME HttpInv, left > 0, state = "msg", IsText(Next1), Next1.m \notin hurt, Chars = TextLen
    PROVE  /\ recv_header_map_ = MapUpTo(Next1.m, Next1.e - 1)
           /\ Next1.kind = "value" => field_ = Whole(Next1.m, Next1.e - 1)
<1>1. HttpTypes /\ Collected(Next1)
  BY DEF HttpInv, InMessage
<1>2. Next1.i = 1 /\ Fragment = Whole(Next1.m, Next1.e)
  BY <1>1, TextTaken
<1>3. 1 # TextLen + 1
  BY HttpAssumption
<1> QED BY <1>1, <1>2, <1>3 DEF Collected

\* A data callback of a text.
LEMMA TextStep ==
    ASSUME HttpInv, left > 0, state = "msg", state' = "msg", IsText(Next1), Advance(Taken), hurt' = Split,
           UNCHANGED <<script, units, recv_body_str_, packets>>, field_' \in Value, recv_header_map_' \subseteq Entry,
           OwnValues(recv_header_map_', Next1.m),
           Next1.m \notin hurt /\ Chars = TextLen =>
             /\ recv_header_map_' = MapUpTo(Next1.m, Next1.e)
             /\ Next1.kind = "field" => field_' = Whole(Next1.m, Next1.e)
             /\ Next1.kind = "value" => field_' = Whole(Next1.m, Next1.e - 1)
    PROVE  HttpInv'
<1> DEFINE u == units[pos + 1]
           n == Taken
           w == units[pos + n + 1]
           msg == script[u.m]
<1>1. HttpTypes /\ InMessage /\ TextLen \in Nat /\ TextLen > 0
  BY HttpAssumption DEF HttpInv
<1>2. /\ n \in 1 .. left /\ pos + n < Len(units) /\ units[pos + n].m = u.m /\ w.m = u.m
      /\ (w.e = u.e /\ w.i = u.i + n /\ n = left /\ Chars = left) \/ (w.e = u.e + 1 /\ w.i = 1)
      /\ Chars \in Nat /\ u.m \in Nat /\ u.e \in Nat /\ u.i \in Nat
      /\ (Chars = TextLen => u.i = 1)
  BY <1>1, TextTaken DEF Next1
<1>3. u = Next1
  BY DEF Next1
<1>4. u.m \in 1 .. Len(script) /\ msg \in Message /\ u.e \in 1 .. Ends(msg) + 1 /\ u.kind = KindOf(msg, u.e)
      /\ u.e > 1 /\ u.e < Ends(msg) /\ Ends(msg) \in Nat
  <2>1. u.m \in 1 .. Len(script) /\ msg \in Message /\ u.e \in 1 .. Ends(msg) + 1 /\ u.kind = KindOf(msg, u.e)
    BY <1>1, TheUnit DEF Next1, Msg
  <2>2. u.e > 1 /\ u.e < Ends(msg)
    BY <1>3 DEF IsText
  <2> QED BY <2>1, <2>2, SizeIsNat
<1>5. pos \in Nat /\ left \in Nat /\ Len(units) \in Nat /\ pos' = pos + n /\ Next1' = w
  BY <1>1, TheStream DEF HttpTypes, Advance, Next1
<1> HIDE DEF n
<1>6. w.kind = KindOf(msg, w.e) /\ w.e \in 1 .. Ends(msg) + 1 /\ w.e \in Nat /\ w.i \in Nat
  <2>1. pos + n + 1 \in 1 .. Len(units)
    BY <1>2, <1>5
  <2>2. UnitOf(w, w.m, script[w.m])
    BY <1>1, <2>1, TheStream DEF Flow
  <2> QED BY <1>2, <2>2 DEF UnitOf, UnitType
<1>7. w.kind # "body"
  <2>1. w.e # Ends(msg) + 1
    BY <1>2, <1>4
  <2> QED BY <1>4, <1>6, <2>1, ElementOf
<1>8. recv_body_str_' = <<>>
  <2>1. u.kind # "body"
    <3>1. u.e # Ends(msg) + 1
      BY <1>4
    <3> QED BY <1>4, <3>1, ElementOf
  <2> QED BY <1>1, <1>3, <2>1 DEF InMessage
<1>9. hurt' \in {hurt, hurt \cup {u.m}} /\ (u.m \notin hurt' => u.m \notin hurt /\ Chars = TextLen)
  BY <1>3 DEF Split
<1>10. ASSUME u.m \notin hurt' PROVE Collected(Next1)'
  <2>1. u.m \notin hurt /\ Chars = TextLen /\ u.i = 1
    BY <1>2, <1>9, <1>10
  <2>2. /\ recv_header_map_' = MapUpTo(u.m, u.e)
        /\ u.kind = "field" => field_' = Whole(u.m, u.e)
        /\ u.kind = "value" => field_' = Whole(u.m, u.e - 1)
    BY <1>3, <2>1
  <2>3. CASE w.e = u.e /\ w.i = u.i + n /\ n = left /\ Chars = left
    <3>1. w.i = TextLen + 1 /\ w.e = u.e
      BY <1>1, <1>5, <2>1, <2>3
    <3>2. IsText(w) /\ w.kind = u.kind
      BY <1>2, <1>4, <1>6, <3>1 DEF IsText
    <3> HIDE DEF w, u
    <3> QED BY <1>2, <1>5, <2>2, <3>1, <3>2, CollectedNext
  <2>4. CASE w.e = u.e + 1 /\ w.i = 1
    <3> DEFINE ue == u.e
               we == w.e
    <3>5. ue \in Nat /\ ue > 1 /\ ue < Ends(msg) /\ Ends(msg) \in Nat /\ we = ue + 1 /\ we \in 1 .. Ends(msg) + 1
      BY <1>2, <1>4, <1>6, <2>4
    <3> HIDE DEF ue, we
    <3>3. 1 # TextLen + 1
      BY <1>1
    <3>4. we - 1 = ue
      BY <3>5
    <3>1. w.i # TextLen + 1 /\ w.e - 1 = u.e
      BY <2>4, <3>3, <3>4 DEF ue, we
    <3>2. w.kind = "value" => u.kind = "field"
      <4> SUFFICES ASSUME w.kind = "value" PROVE u.kind = "field"
        OBVIOUS
      <4>0. w.kind = "value"
        OBVIOUS
      <4>1. PICK h \in 1 .. msg.heads : we = 2 * h + 2
        <5>1. KindOf(msg, we) = "value"
          BY <1>6, <4>0 DEF we
        <5> HIDE DEF msg
        <5> QED BY <1>4, <3>5, <5>1, ElementOf
      <4>2. msg.heads \in Nat /\ h \in Nat /\ h > 0
        BY <1>4 DEF Message
      <4>3. ue = 2 * h + 1 /\ ue # 1 /\ ue # 2 /\ ue # Ends(msg) /\ ue # Ends(msg) + 1
        BY <3>5, <4>1, <4>2
      <4>4. (ue - 2) % 2 = 1
        BY <4>2, <4>3
      <4>5. u.kind = KindOf(msg, ue)
        BY <1>4 DEF ue
      <4> QED BY <4>3, <4>4, <4>5 DEF KindOf
    <3> HIDE DEF w, u
    <3> QED BY <1>2, <1>5, <2>2, <2>4, <3>1, <3>2, CollectedNext
  <2> QED BY <1>2, <2>3, <2>4
<1>11. Advance(n) /\ recv_body_str_' \in Seq(Piece)
  BY <1>1 DEF n, HttpTypes
<1>12. \A k \in 1 .. Len(packets) : packets[k].m < Next1.m
  BY <1>1 DEF InMessage
<1>13. recv_body_str_' = IF Next1'.kind = "body" THEN [b \in 1 .. Next1'.i - 1 |-> <<Next1'.m, b>>] ELSE <<>>
  BY <1>5, <1>7, <1>8
<1> QED BY <1>2, <1>3, <1>9, <1>10, <1>11, <1>12, <1>13, GoesOn

\* ElementOf for the unit at hand.
LEMMA TheElement ==
    ASSUME HttpTypes, left > 0
    PROVE  /\ Next1.kind \in {"url", "status"} <=> Next1.e = 2
           /\ Next1.kind = "url" => Msg.kind = "request"
           /\ Next1.kind = "status" => Msg.kind # "request"
           /\ Next1.kind \in {"url", "status", "field", "value"} <=> IsText(Next1)
           /\ Next1.kind = "field" => \E h \in 1 .. Msg.heads : Next1.e = 2 * h + 1
           /\ Next1.kind = "value" => \E h \in 1 .. Msg.heads : Next1.e = 2 * h + 2
           /\ Next1.kind = "end" <=> Next1.e = Ends(Msg)
           /\ Next1.kind = "body" <=> Next1.e = Ends(Msg) + 1
           /\ Next1.m \in 1 .. Len(script) /\ Next1.m \in Nat /\ Msg = script[Next1.m] /\ Msg \in Message
           /\ Msg.heads \in Nat /\ Ends(Msg) \in Nat /\ Next1.e \in Nat
<1> DEFINE msg == Msg
           e == Next1.e
           class == Next1.kind
<1>1. /\ Next1.m \in 1 .. Len(script) /\ msg \in Message /\ e \in 1 .. Ends(msg) + 1 /\ class = KindOf(msg, e)
  BY TheUnit
<1>2. Msg = script[Next1.m] /\ Next1.m \in Nat
  BY <1>1, TheStream DEF Msg
<1>3. IsText(Next1) <=> e > 1 /\ e < Ends(msg)
  BY <1>2 DEF IsText
<1> HIDE DEF msg, e, class
<1>4. msg.heads \in Nat /\ Ends(msg) \in Nat
  BY <1>1, SizeIsNat DEF Message
<1>5. e \in Nat
  BY <1>1, <1>4
<1>6. /\ class \in {"url", "status"} <=> e = 2
      /\ class = "url" => msg.kind = "request"
      /\ class = "status" => msg.kind # "request"
      /\ class \in {"url", "status", "field", "value"} <=> (e > 1 /\ e < Ends(msg))
      /\ class = "field" => \E h \in 1 .. msg.heads : e = 2 * h + 1
      /\ class = "value" => \E h \in 1 .. msg.heads : e = 2 * h + 2
      /\ class = "end" <=> e = Ends(msg)
      /\ class = "body" <=> e = Ends(msg) + 1
  BY <1>1, ElementOf
<1> QED BY <1>1, <1>2, <1>3, <1>4, <1>5, <1>6 DEF msg, e, class

LEMMA PutOwn ==
    ASSUME NEW map, map \subseteq Entry, NEW m, OwnValues(map, m), NEW k \in Value, NEW v \in Value, v # <<>> => v[1] = m
    PROVE  put(map, k, v) \subseteq Entry /\ OwnValues(put(map, k, v), m)
<1>1. [k |-> k, v |-> v] \in Entry
  BY DEF Entry
<1> DEFINE x == [k |-> k, v |-> v]
<1>2. x.v = v
  OBVIOUS
<1> HIDE DEF x
<1>3. \A y \in put(map, k, v) : y \in map \/ y = x
  BY DEF put, x
<1> QED BY <1>1, <1>2, <1>3 DEF OwnValues, x

\* The first text: on_url of a path that parses, and on_status.
LEMMA FirstText ==
    ASSUME HttpInv, left > 0, state = "msg", state' = "msg", Next1.kind \in {"url", "status"}, Advance(Taken), hurt' = Split,
           UNCHANGED <<script, units, recv_body_str_, packets, field_>>,
           NEW first, NEW second,
           first = IF Next1.kind = "url" THEN "Method" ELSE "Status",
           second = IF Next1.kind = "url" THEN "Path" ELSE "Reason",
           recv_header_map_' = put(put(recv_header_map_, <<first>>, <<Next1.m>>), <<second>>, Fragment)
    PROVE  HttpInv'
<1> DEFINE m == Next1.m
           map == recv_header_map_
<1>1. HttpTypes /\ InMessage /\ field_ \in Value /\ map \subseteq Entry
  BY DEF HttpInv, HttpTypes
<1>2. m \in 1 .. Len(script) /\ Msg = script[m]
  BY <1>1, TheElement
<1>3. Next1.e = 2 /\ IsText(Next1) /\ (Next1.kind = "url" <=> Msg.kind = "request")
  BY <1>1, TheElement
<1>4. Fragment \in Value /\ (Fragment # <<>> => Fragment[1] = m) /\ m \in Nat /\ (Chars = TextLen => Fragment = Whole(m, 2))
  BY <1>1, <1>3, TextTaken
<1>5. <<first>> \in Value /\ <<second>> \in Value /\ <<m>> \in Value /\ <<m>>[1] = m
  <2>1. first \in {"Method", "Status"} /\ second \in {"Path", "Reason"}
    OBVIOUS
  <2> QED BY <1>4, <2>1 DEF Value
<1>6. OwnValues(map, m)
  BY <1>1 DEF InMessage
<1> HIDE DEF m, map
<1> DEFINE once == put(map, <<first>>, <<m>>)
           twice == put(once, <<second>>, Fragment)
<1>7. once \subseteq Entry /\ OwnValues(once, m)
  BY <1>1, <1>5, <1>6, PutOwn
<1> HIDE DEF once
<1>8. twice \subseteq Entry /\ OwnValues(twice, m)
  BY <1>4, <1>5, <1>7, PutOwn
<1>9. recv_header_map_' = twice
  BY DEF twice, once, map, m
<1>10. ASSUME m \notin hurt, Chars = TextLen PROVE twice = MapUpTo(m, 2)
  <2>1. map = MapUpTo(m, 2 - 1) /\ Fragment = Whole(m, 2)
    BY <1>3, <1>4, <1>10, TextKnown DEF m, map
  <2>2. 2 - 1 = 1
    OBVIOUS
  <2>3. first = (IF script[m].kind = "request" THEN "Method" ELSE "Status")
        /\ second = (IF script[m].kind = "request" THEN "Path" ELSE "Reason")
    BY <1>2, <1>3
  <2>4. MapUpTo(m, 2) = put(put(MapUpTo(m, 1), <<first>>, <<m>>), <<second>>, Whole(m, 2))
    BY <1>1, <1>2, <2>3, MapSteps
  <2> QED BY <2>1, <2>2, <2>4 DEF twice, once
<1> HIDE DEF twice
<1>11. Next1.kind # "field" /\ Next1.kind # "value"
  OBVIOUS
<1>12. field_' \in Value
  BY <1>1
<1>13. OwnValues(recv_header_map_', Next1.m) /\ recv_header_map_' \subseteq Entry
  BY <1>8, <1>9 DEF m
<1>14. Next1.m \notin hurt /\ Chars = TextLen =>
             /\ recv_header_map_' = MapUpTo(Next1.m, Next1.e)
             /\ Next1.kind = "field" => field_' = Whole(Next1.m, Next1.e)
             /\ Next1.kind = "value" => field_' = Whole(Next1.m, Next1.e - 1)
  BY <1>3, <1>9, <1>10, <1>11 DEF m
<1> QED BY <1>3, <1>12, <1>13, <1>14, TextStep

LEMMA Texts ==
    ASSUME HttpInv, on_url \/ on_status \/ on_header_field \/ on_header_value
    PROVE  HttpInv'
<1> DEFINE m == Next1.m
           map == recv_header_map_
<1>1. HttpTypes /\ InMessage /\ left > 0 /\ state = "msg" /\ field_ \in Value /\ map \subseteq Entry /\ recv_body_str_ \in Seq(Piece)
      /\ UNCHANGED <<script, units, recv_body_str_, packets>> /\ left \in Nat
  BY DEF HttpInv, HttpTypes, on_url, on_status, on_header_field, on_header_value, TextCallback
<1>2. m \in 1 .. Len(script) /\ m \in Nat /\ Msg = script[m] /\ Msg \in Message /\ Next1.e \in Nat /\ Msg.heads \in Nat
  BY <1>1, TheElement
<1>3. OwnValues(map, m)
  BY <1>1 DEF InMessage
<1>4. CASE on_status
  <2>1. /\ Next1.kind = "status" /\ state' = "msg" /\ Advance(Taken) /\ hurt' = Split /\ field_' = field_
        /\ recv_header_map_' = put(put(recv_header_map_, <<"Status">>, <<Next1.m>>), <<"Reason">>, Fragment)
    BY <1>1, <1>4 DEF on_status, TextCallback
  <2> QED BY <1>1, <2>1, FirstText
<1>5. CASE on_url /\ parse_url_ok
  <2>1. /\ Next1.kind = "url" /\ state' = "msg" /\ Advance(Taken) /\ hurt' = Split /\ field_' = field_
        /\ recv_header_map_' = put(put(recv_header_map_, <<"Method">>, <<Next1.m>>), <<"Path">>, Fragment)
    BY <1>1, <1>5 DEF on_url, TextCallback
  <2> QED BY <1>1, <2>1, FirstText
<1>6. CASE on_url /\ ~parse_url_ok
  <2>1. /\ Next1.kind = "url" /\ Fail /\ field_' = field_
        /\ recv_header_map_' = put(put(recv_header_map_, <<"Method">>, <<Next1.m>>), <<"Path">>, Fragment)
    BY <1>1, <1>6 DEF on_url, TextCallback
  <2>2. IsText(Next1)
    BY <1>1, <2>1, TheElement
  <2>3. Fragment \in Value /\ (Fragment # <<>> => Fragment[1] = m)
    BY <1>1, <2>2, TextTaken
  <2>4. <<"Method">> \in Value /\ <<"Path">> \in Value /\ <<m>> \in Value /\ <<m>>[1] = m
    BY <1>2 DEF Value
  <2> DEFINE first == <<"Method">>
             second == <<"Path">>
  <2> HIDE DEF m, map, first, second
  <2> DEFINE once == put(map, first, <<m>>)
             twice == put(once, second, Fragment)
  <2>5. once \subseteq Entry /\ OwnValues(once, m)
    BY <1>1, <1>3, <2>4, PutOwn DEF first
  <2> HIDE DEF once
  <2>6. twice \subseteq Entry
    BY <2>3, <2>4, <2>5, PutOwn DEF second
  <2>7. recv_header_map_' \subseteq Entry
    BY <2>1, <2>6 DEF once, m, map, first, second
  <2>8. left \in 1 .. left /\ Advance(left) /\ state' = "start" /\ hurt' = hurt \cup {units[q].m : q \in pos + 1 .. pos + left}
    BY <1>1, <2>1 DEF Fail
  <2>9. field_' \in Value /\ recv_body_str_' \in Seq(Piece)
    BY <1>1, <2>1
  <2> QED BY <1>1, <2>7, <2>8, <2>9, Skips
<1>7. ASSUME Next1.kind \in {"field", "value"}
      PROVE  /\ IsText(Next1) /\ Next1.e \in Nat /\ Fragment \in Value /\ (Fragment # <<>> => Fragment[1] = m)
             /\ (Chars = TextLen => Fragment = Whole(m, Next1.e))
  <2>1. IsText(Next1)
    BY <1>1, <1>7, TheElement
  <2> QED BY <1>1, <2>1, TextTaken
<1>8. CASE on_header_field
  <2>1. /\ Next1.kind = "field" /\ state' = "msg" /\ Advance(Taken) /\ hurt' = Split /\ field_' = Fragment
        /\ recv_header_map_' = recv_header_map_
    BY <1>1, <1>8 DEF on_header_field, TextCallback
  <2>2. PICK h \in 1 .. Msg.heads : Next1.e = 2 * h + 1
    BY <1>1, <2>1, TheElement
  <2>3. h \in Nat /\ (2 * h + 1) - 1 = 2 * h
    BY <1>2
  <2>4. MapUpTo(m, Next1.e) = MapUpTo(m, Next1.e - 1)
    BY <1>1, <1>2, <2>2, <2>3, MapSteps
  <2>5. m \notin hurt /\ Chars = TextLen => recv_header_map_' = MapUpTo(m, Next1.e) /\ field_' = Whole(m, Next1.e)
    BY <1>1, <1>7, <2>1, <2>4, TextKnown
  <2>6. OwnValues(recv_header_map_', m) /\ recv_header_map_' \subseteq Entry /\ field_' \in Value
    BY <1>1, <1>3, <1>7, <2>1
  <2>7. m \notin hurt /\ Chars = TextLen =>
             /\ recv_header_map_' = MapUpTo(m, Next1.e)
             /\ Next1.kind = "field" => field_' = Whole(m, Next1.e)
             /\ Next1.kind = "value" => field_' = Whole(m, Next1.e - 1)
    BY <2>1, <2>5
  <2> QED BY <1>1, <1>7, <2>1, <2>6, <2>7, TextStep
<1>9. CASE on_header_value
  <2>1. /\ Next1.kind = "value" /\ state' = "msg" /\ Advance(Taken) /\ hurt' = Split /\ field_' = field_
        /\ recv_header_map_' = put(map, field_, Fragment)
    BY <1>1, <1>9 DEF on_header_value, TextCallback
  <2>2. PICK h \in 1 .. Msg.heads : Next1.e = 2 * h + 2
    BY <1>1, <2>1, TheElement
  <2>3. h \in Nat /\ (2 * h + 2) - 1 = 2 * h + 1
    BY <1>2
  <2>4. MapUpTo(m, Next1.e) = put(MapUpTo(m, Next1.e - 1), Whole(m, Next1.e - 1), Whole(m, Next1.e))
    BY <1>1, <1>2, <2>2, <2>3, MapSteps
  <2>5. m \notin hurt /\ Chars = TextLen => recv_header_map_' = MapUpTo(m, Next1.e) /\ field_' = Whole(m, Next1.e - 1)
    BY <1>1, <1>7, <2>1, <2>4, TextKnown
  <2>6. OwnValues(recv_header_map_', m) /\ recv_header_map_' \subseteq Entry /\ field_' \in Value
    BY <1>1, <1>3, <1>7, <2>1, PutOwn
  <2>7. m \notin hurt /\ Chars = TextLen =>
             /\ recv_header_map_' = MapUpTo(m, Next1.e)
             /\ Next1.kind = "field" => field_' = Whole(m, Next1.e)
             /\ Next1.kind = "value" => field_' = Whole(m, Next1.e - 1)
    BY <2>1, <2>5
  <2> QED BY <1>1, <1>7, <2>1, <2>6, <2>7, TextStep
<1> QED BY <1>4, <1>5, <1>6, <1>8, <1>9

\* An intact message has its whole map at the end of its headers and in its body.
LEMMA MapIsWhole ==
    ASSUME HttpInv, left > 0, state = "msg", Next1.kind \in {"end", "body"}, Next1.m \notin hurt
    PROVE  recv_header_map_ = WholeMap(Next1.m)
<1>1. HttpTypes /\ Collected(Next1)
  BY DEF HttpInv, InMessage
<1>2. ~IsText(Next1) /\ Next1.m \in 1 .. Len(script) /\ Msg = script[Next1.m] /\ Ends(Msg) \in Nat
      /\ (Next1.e = Ends(Msg) \/ Next1.e = Ends(Msg) + 1)
  BY <1>1, TheElement
<1>3. recv_header_map_ = MapUpTo(Next1.m, Next1.e - 1)
  BY <1>1, <1>2 DEF Collected
<1>4. Next1.e - 1 = Ends(Msg) - 1 \/ Next1.e - 1 = Ends(Msg)
  BY <1>2
<1> QED BY <1>1, <1>2, <1>3, <1>4, MapSteps

\* A message goes on after unit q if that is not its final one.
LEMMA NotFinal ==
    ASSUME HttpTypes, NEW q \in 1 .. Len(units), ~Final(units[q], script[units[q].m])
    PROVE  q + 1 \in 1 .. Len(units) /\ units[q + 1].m = units[q].m /\ Follows(units[q + 1], units[q], script[units[q].m])
           /\ UnitOf(units[q + 1], units[q].m, script[units[q].m])
<1>1. Flow(script, units) /\ Len(units) \in Nat
  BY TheStream
<1>2. q # Len(units)
  BY <1>1 DEF Flow
<1>3. q \in 1 .. Len(units) - 1 /\ q + 1 \in 1 .. Len(units)
  BY <1>1, <1>2
<1>4. After(units[q + 1], units[q], script) /\ UnitOf(units[q + 1], units[q + 1].m, script[units[q + 1].m])
  BY <1>1, <1>3 DEF Flow
<1> QED BY <1>3, <1>4 DEF After

LEMMA HeadersComplete ==
    ASSUME HttpInv, on_headers_complete
    PROVE  HttpInv'
<1> DEFINE u == units[pos + 1]
           m == Next1.m
           one == 1
<1>1. /\ HttpTypes /\ InMessage /\ left > 0 /\ state = "msg" /\ Next1.kind = "end" /\ Advance(one)
      /\ UNCHANGED <<script, units, field_, recv_header_map_, recv_body_str_, hurt>>
      /\ field_ \in Value /\ recv_header_map_ \subseteq Entry /\ recv_body_str_ \in Seq(Piece) /\ left \in Nat /\ pos \in Nat
  BY DEF HttpInv, HttpTypes, on_headers_complete
<1>2. u = Next1 /\ m \in 1 .. Len(script) /\ Msg = script[m] /\ Msg \in Message /\ u.e = Ends(Msg) /\ Ends(Msg) \in Nat
      /\ m \in Nat
  BY <1>1, TheElement DEF Next1
<1>3. pos + 1 \in 1 .. Len(units) /\ u.i = 1 /\ Size(Msg, u.e) = 1
  <2>1. pos + 1 \in 1 .. Len(units) /\ u.i \in 1 .. Size(Msg, u.e)
    BY <1>1, TheUnit DEF Next1
  <2>2. Size(Msg, u.e) = 1
    BY <1>2 DEF Size
  <2> QED BY <2>1, <2>2
<1>4. recv_body_str_ = <<>> /\ OwnValues(recv_header_map_, m) /\ (\A k \in 1 .. Len(packets) : packets[k].m < m)
  BY <1>1 DEF InMessage
<1>5. one \in 1 .. left /\ pos + one = pos + 1 /\ (pos + 1) + 1 = pos + one + 1
  BY <1>1
<1> HIDE DEF one
<1>6. CASE Msg.eof
  <2>1. state' = "eof" /\ packets' = packets
    BY <1>6 DEF on_headers_complete
  <2>2. script[units[pos + 1].m].eof
    BY <1>2, <1>6
  <2> QED BY <1>1, <1>5, <2>1, <2>2, TakesAll
<1>7. CASE ~Msg.eof /\ Msg.body = 0
  <2>1. state' = "start" /\ packets' = Append(packets, [m |-> Next1.m, map |-> recv_header_map_, body |-> recv_body_str_])
    BY <1>7 DEF on_headers_complete, on_message_complete
  <2>2. recv_body_str_ = WholeBody(m)
    <3>1. 1 .. script[m].body = {}
      BY <1>2, <1>7
    <3>2. WholeBody(m) = <<>>
      BY <3>1 DEF WholeBody
    <3> QED BY <1>4, <3>2
  <2>3. units[pos + one].m = Next1.m /\ Final(units[pos + one], Msg)
    BY <1>2, <1>3, <1>5, <1>7 DEF Final
  <2>4. Next1.m \notin hurt => recv_header_map_ = WholeMap(Next1.m)
    BY <1>1, MapIsWhole
  <2>5. recv_body_str_' \in Seq(Piece)
    BY <1>1
  <2> QED BY <1>1, <1>5, <2>1, <2>2, <2>3, <2>4, <2>5, Delivers
<1>8. CASE ~Msg.eof /\ Msg.body # 0
  <2> DEFINE w == units[pos + one + 1]
  <2>1. state' = "msg" /\ packets' = packets
    BY <1>1, <1>8 DEF on_headers_complete
  <2>2. ~Final(u, script[u.m])
    BY <1>2, <1>8 DEF Final
  <2>3. pos + one + 1 \in 1 .. Len(units) /\ w.m = m /\ Follows(w, u, Msg) /\ UnitOf(w, m, Msg)
    <3> DEFINE q == pos + 1
    <3> HIDE DEF q
    <3>1. q \in 1 .. Len(units) /\ ~Final(units[q], script[units[q].m])
      BY <1>3, <2>2 DEF q
    <3>2. q + 1 \in 1 .. Len(units) /\ units[q + 1].m = units[q].m /\ Follows(units[q + 1], units[q], script[units[q].m])
          /\ UnitOf(units[q + 1], units[q].m, script[units[q].m])
      BY <1>1, <3>1, NotFinal
    <3>3. q + 1 = pos + one + 1 /\ units[q] = u
      BY <1>5 DEF q
    <3> QED BY <1>2, <3>2, <3>3
  <2>4. w.e = Ends(Msg) + 1 /\ w.i = 1
    BY <1>2, <1>3, <2>3 DEF Follows
  <2>5. w.kind = "body"
    <3>1. w.kind = KindOf(Msg, w.e) /\ w.e \in 1 .. Ends(Msg) + 1
      BY <2>3 DEF UnitOf
    <3> QED BY <1>2, <2>4, <3>1, ElementOf
  <2>6. Next1' = w
    BY <1>1 DEF Advance, Next1
  <2>7. recv_body_str_' = IF Next1'.kind = "body" THEN [b \in 1 .. Next1'.i - 1 |-> <<Next1'.m, b>>] ELSE <<>>
    <3>1. 1 .. w.i - 1 = {}
      BY <2>4
    <3>2. [b \in 1 .. w.i - 1 |-> <<w.m, b>>] = <<>>
      BY <3>1
    <3> HIDE DEF w
    <3> QED BY <1>1, <1>4, <2>6, <3>2
  <2>8. ASSUME m \notin hurt PROVE Collected(Next1)'
    <3>1. recv_header_map_ = WholeMap(m)
      BY <1>1, <2>8, MapIsWhole
    <3>2. w.e - 1 = Ends(Msg)
      BY <1>2, <2>4
    <3>3. WholeMap(m) = MapUpTo(m, w.e - 1)
      BY <1>1, <1>2, <3>2, MapSteps
    <3>4. ~IsText(w)
      BY <1>2, <2>3, <2>4 DEF IsText
    <3> HIDE DEF w
    <3> QED BY <1>1, <2>3, <2>5, <2>6, <3>1, <3>3, <3>4, CollectedNext
  <2>9. pos + one < Len(units) /\ units[pos + one].m = Next1.m /\ units[pos + one + 1].m = Next1.m
    <3>1. Len(units) \in Nat
      BY <1>1, TheStream
    <3> QED BY <1>1, <1>2, <1>5, <2>3, <3>1
  <2>10. /\ hurt' = hurt /\ field_' \in Value /\ recv_header_map_' \subseteq Entry /\ recv_body_str_' \in Seq(Piece)
         /\ OwnValues(recv_header_map_', Next1.m)
    BY <1>1, <1>4
  <2> HIDE DEF w, m
  <2>11. Next1.m \notin hurt' => Collected(Next1)'
    BY <2>8, <2>10 DEF m
  <2>12. \A k \in 1 .. Len(packets) : packets[k].m < Next1.m
    BY <1>4 DEF m
  <2> QED BY <1>1, <1>5, <2>1, <2>7, <2>9, <2>10, <2>11, <2>12, GoesOn
<1> QED BY <1>6, <1>7, <1>8

\* A fragment of a body, and what it makes of the body so far.
LEMMA BodyTaken ==
    ASSUME HttpInv, left > 0, state = "msg", Next1.kind = "body"
    PROVE  LET q == pos + BodyHere IN
           /\ BodyHere \in 1 .. left /\ q \in 1 .. Len(units) /\ units[q].m = Next1.m /\ units[q].e = Ends(Msg) + 1
           /\ units[q].i = Next1.i + BodyHere - 1 /\ Next1.i \in Nat /\ Next1.i > 0 /\ BodyHere \in Nat
           /\ Next1.i + BodyHere - 1 <= Msg.body
           /\ recv_body_str_ \o BodyFragment = [b \in 1 .. Next1.i + BodyHere - 1 |-> <<Next1.m, b>>]
           /\ recv_body_str_ \o BodyFragment \in Seq(Piece)
<1> DEFINE p == pos + 1
           u == units[p]
           n == BodyHere
           i == Next1.i
           m == Next1.m
<1>1. HttpTypes /\ InMessage /\ left \in Nat /\ pos \in Nat /\ recv_body_str_ \in Seq(Piece)
  BY DEF HttpInv, HttpTypes
<1>2. u = Next1 /\ m \in 1 .. Len(script) /\ Msg = script[m] /\ Msg \in Message /\ u.e = Ends(Msg) + 1 /\ Ends(Msg) \in Nat
      /\ m \in Nat /\ Msg.body \in Nat /\ Size(Msg, Ends(Msg) + 1) = Msg.body
  <2>1. u = Next1 /\ m \in 1 .. Len(script) /\ Msg = script[m] /\ Msg \in Message /\ u.e = Ends(Msg) + 1 /\ Ends(Msg) \in Nat
        /\ m \in Nat
    BY <1>1, TheElement DEF Next1
  <2> QED BY <2>1, SizeIsNat
<1>3. p \in 1 .. Len(units) /\ i \in 1 .. Msg.body /\ i = u.i
  BY <1>1, <1>2, TheUnit DEF Next1
<1>4. n = (IF left > Msg.body + 1 - i THEN Msg.body + 1 - i ELSE left)
  BY DEF BodyHere
<1>5. i \in Nat /\ i > 0 /\ n \in 1 .. left /\ n \in Nat /\ n - 1 \in Nat /\ i + (n - 1) <= Msg.body /\ p + (n - 1) = pos + n
      /\ i + n - 1 \in Nat /\ i - 1 \in Nat /\ i + (n - 1) = i + n - 1
  <2> HIDE DEF i, n, m
  <2>1. i \in Nat /\ i > 0 /\ i <= Msg.body
    BY <1>2, <1>3
  <2>2. n \in Nat /\ n > 0 /\ n <= left /\ n <= Msg.body + 1 - i
    BY <1>1, <1>2, <1>4, <2>1
  <2> QED BY <1>1, <1>2, <2>1, <2>2
<1>6. pos + n \in 1 .. Len(units) /\ units[pos + n].m = m /\ units[pos + n].e = u.e /\ units[pos + n].i = i + n - 1
  <2>1. Flow(script, units) /\ script \in Script
    BY <1>1, TheStream DEF HttpTypes
  <2>2. u.i + (n - 1) <= Size(script[u.m], u.e)
    BY <1>2, <1>3, <1>5
  <2> DEFINE j == n - 1
  <2> HIDE DEF p, n, j
  <2>3. p + j \in 1 .. Len(units) /\ units[p + j].m = u.m /\ units[p + j].e = u.e /\ units[p + j].i = u.i + j
    BY <1>3, <1>5, <2>1, <2>2, RunOfUnits DEF j
  <2> QED BY <1>2, <1>3, <1>5, <2>3 DEF j
<1> DEFINE s == [b \in 1 .. i - 1 |-> <<m, b>>]
           t == [b \in 1 .. n |-> <<m, i + b - 1>>]
           r == [b \in 1 .. i + n - 1 |-> <<m, b>>]
           SS == Seq(Piece)
<1>7. recv_body_str_ = s /\ BodyFragment = t
  BY <1>1 DEF InMessage, BodyFragment
<1>8. t \in Seq(Piece) /\ Len(t) = n /\ s \in Seq(Piece) /\ Len(s) = i - 1 /\ r \in Seq(Piece) /\ Len(r) = i + n - 1
  <2> HIDE DEF i, n, m
  <2>1. \A b \in 1 .. n : i + b - 1 \in Nat
    BY <1>5
  <2>2. t \in [1 .. n -> Piece] /\ s \in [1 .. i - 1 -> Piece] /\ r \in [1 .. i + n - 1 -> Piece]
    BY <1>2, <1>5, <2>1 DEF Piece
  <2>3. Len(t) = n /\ Len(s) = i - 1 /\ Len(r) = i + n - 1
    BY <1>5
  <2> HIDE DEF s, t, r
  <2> QED BY <1>5, <2>2, <2>3, SeqDef
<1>9. s \o t = r
  <2> HIDE DEF i, n, m
  <2>1. \A b \in 1 .. i + n - 1 : (b <= i - 1 => s[b] = r[b]) /\ (~(b <= i - 1) => t[b - (i - 1)] = r[b])
    <3> SUFFICES ASSUME NEW b \in 1 .. i + n - 1
                 PROVE  (b <= i - 1 => s[b] = r[b]) /\ (~(b <= i - 1) => t[b - (i - 1)] = r[b])
      OBVIOUS
    <3>1. b <= i - 1 => b \in 1 .. i - 1
      BY <1>5
    <3>2. ~(b <= i - 1) => b - (i - 1) \in 1 .. n /\ i + (b - (i - 1)) - 1 = b
      BY <1>5
    <3> QED BY <3>1, <3>2
  <2> HIDE DEF s, t, r
  <2>2. s \o t \in Seq(Piece) /\ Len(s \o t) = Len(s) + Len(t)
        /\ \A b \in 1 .. Len(s) + Len(t) : (s \o t)[b] = IF b <= Len(s) THEN s[b] ELSE t[b - Len(s)]
    BY <1>8, ConcatProperties
  <2>3. Len(s) + Len(t) = i + n - 1
    BY <1>5, <1>8
  <2>4. \A b \in 1 .. i + n - 1 : (s \o t)[b] = r[b]
    BY <1>8, <2>1, <2>2, <2>3
  <2>5. Len(s \o t) = Len(r)
    BY <1>8, <2>2, <2>3
  <2> QED BY <1>8, <2>2, <2>4, <2>5, SeqEqual
<1> QED BY <1>2, <1>5, <1>6, <1>7, <1>8, <1>9

LEMMA Bodies ==
    ASSUME HttpInv, on_body
    PROVE  HttpInv'
<1> DEFINE n == BodyHere
           m == Next1.m
           i == Next1.i
           body == recv_body_str_ \o BodyFragment
           t == units[pos + n]
<1>1. /\ HttpTypes /\ InMessage /\ left > 0 /\ state = "msg" /\ Next1.kind = "body" /\ Advance(n)
      /\ UNCHANGED <<script, units, field_, recv_header_map_, hurt>> /\ recv_body_str_' = body
      /\ field_ \in Value /\ recv_header_map_ \subseteq Entry /\ left \in Nat /\ pos \in Nat
  BY DEF HttpInv, HttpTypes, on_body
<1>2. /\ n \in 1 .. left /\ pos + n \in 1 .. Len(units) /\ t.m = m /\ t.e = Ends(Msg) + 1
      /\ t.i = i + n - 1 /\ i \in Nat /\ i > 0 /\ n \in Nat /\ i + n - 1 <= Msg.body
      /\ body = [b \in 1 .. i + n - 1 |-> <<m, b>>]
      /\ body \in Seq(Piece)
  BY <1>1, BodyTaken
<1>3. m \in 1 .. Len(script) /\ Msg = script[m] /\ Msg \in Message /\ Ends(Msg) \in Nat /\ m \in Nat /\ Msg.body \in Nat
      /\ Size(Msg, Ends(Msg) + 1) = Msg.body
  <2>1. m \in 1 .. Len(script) /\ Msg = script[m] /\ Msg \in Message /\ Ends(Msg) \in Nat /\ m \in Nat
    BY <1>1, TheElement
  <2> QED BY <2>1, SizeIsNat
<1>4. OwnValues(recv_header_map_, m) /\ (\A k \in 1 .. Len(packets) : packets[k].m < m)
      /\ (m \notin hurt => recv_header_map_ = WholeMap(m))
  BY <1>1, MapIsWhole DEF InMessage
<1>5. (i + n > Msg.body /\ i + n - 1 = Msg.body /\ t.i = Msg.body) \/ (~(i + n > Msg.body) /\ t.i # Msg.body)
  <2> HIDE DEF i, n, t
  <2> QED BY <1>2, <1>3
<1>6. CASE i + n > Msg.body /\ i + n - 1 = Msg.body /\ t.i = Msg.body
  <2>1. state' = "start" /\ packets' = Append(packets, [m |-> Next1.m, map |-> recv_header_map_, body |-> body])
    BY <1>1, <1>6 DEF on_body, on_message_complete
  <2>2. body = WholeBody(m)
    BY <1>2, <1>3, <1>6 DEF WholeBody
  <2>3. Final(t, Msg)
    BY <1>2, <1>3, <1>6 DEF Final
  <2>4. recv_body_str_' \in Seq(Piece)
    BY <1>1, <1>2
  <2> HIDE DEF n, body
  <2> QED BY <1>1, <1>2, <1>4, <2>1, <2>2, <2>3, <2>4, Delivers
<1>7. CASE ~(i + n > Msg.body) /\ t.i # Msg.body
  <2> DEFINE w == units[pos + n + 1]
  <2>1. state' = "msg" /\ packets' = packets
    BY <1>1, <1>7 DEF on_body
  <2>2. ~Final(t, script[t.m])
    BY <1>2, <1>3, <1>7 DEF Final
  <2>3. pos + n + 1 \in 1 .. Len(units) /\ w.m = m /\ Follows(w, t, Msg) /\ UnitOf(w, m, Msg)
    <3> DEFINE q == pos + n
    <3> HIDE DEF q
    <3>1. q \in 1 .. Len(units) /\ ~Final(units[q], script[units[q].m])
      BY <1>2, <2>2 DEF q
    <3>2. q + 1 \in 1 .. Len(units) /\ units[q + 1].m = units[q].m /\ Follows(units[q + 1], units[q], script[units[q].m])
          /\ UnitOf(units[q + 1], units[q].m, script[units[q].m])
      BY <1>1, <3>1, NotFinal
    <3> QED BY <1>2, <1>3, <3>2 DEF q
  <2>4. w.e = Ends(Msg) + 1 /\ w.i = i + n
    <3>1. t.i < Size(Msg, t.e)
      <4> DEFINE ti == t.i
      <4>1. ti = i + n - 1 /\ ti # Msg.body
        BY <1>2, <1>7
      <4> HIDE DEF ti, i, n
      <4>2. ti < Msg.body
        BY <1>2, <1>3, <4>1
      <4> QED BY <1>2, <1>3, <4>2 DEF ti
    <3>2. w.e = t.e /\ w.i = t.i + 1
      BY <2>3, <3>1 DEF Follows
    <3>3. (i + n - 1) + 1 = i + n
      BY <1>2
    <3> QED BY <1>2, <3>2, <3>3
  <2>5. w.kind = "body"
    <3>1. w.kind = KindOf(Msg, w.e) /\ w.e \in 1 .. Ends(Msg) + 1
      BY <2>3 DEF UnitOf
    <3> QED BY <1>3, <2>4, <3>1, ElementOf
  <2>6. Next1' = w
    BY <1>1 DEF Advance, Next1
  <2>7. recv_body_str_' = IF Next1'.kind = "body" THEN [b \in 1 .. Next1'.i - 1 |-> <<Next1'.m, b>>] ELSE <<>>
    <3> DEFINE wi == w.i
    <3>3. wi = i + n /\ i \in Nat /\ n \in Nat
      BY <1>2, <2>4
    <3> HIDE DEF wi, i, n
    <3>4. wi - 1 = i + n - 1
      BY <3>3
    <3>1. w.i - 1 = i + n - 1
      BY <3>4 DEF wi
    <3>2. body = [b \in 1 .. w.i - 1 |-> <<w.m, b>>]
      BY <1>2, <2>3, <3>1
    <3> HIDE DEF w, body
    <3> QED BY <1>1, <2>5, <2>6, <3>2
  <2>8. ASSUME m \notin hurt PROVE Collected(Next1)'
    <3>2. w.e - 1 = Ends(Msg)
      BY <1>3, <2>4
    <3>3. WholeMap(m) = MapUpTo(m, w.e - 1)
      BY <1>1, <1>3, <3>2, MapSteps
    <3>4. ~IsText(w)
      BY <1>3, <2>3, <2>4 DEF IsText
    <3> HIDE DEF w
    <3> QED BY <1>1, <1>4, <2>3, <2>5, <2>6, <2>8, <3>3, <3>4, CollectedNext
  <2>9. pos + n < Len(units) /\ units[pos + n].m = Next1.m /\ units[pos + n + 1].m = Next1.m
    <3>1. Len(units) \in Nat
      BY <1>1, TheStream
    <3> HIDE DEF n
    <3> QED BY <1>1, <1>2, <2>3, <3>1
  <2>10. /\ hurt' = hurt /\ field_' \in Value /\ recv_header_map_' \subseteq Entry /\ recv_body_str_' \in Seq(Piece)
         /\ OwnValues(recv_header_map_', Next1.m)
    BY <1>1, <1>2, <1>4
  <2> HIDE DEF w, m, n, body, t
  <2>11. Next1.m \notin hurt' => Collected(Next1)'
    BY <2>8, <2>10 DEF m
  <2>12. \A k \in 1 .. Len(packets) : packets[k].m < Next1.m
    BY <1>4 DEF m
  <2> QED BY <1>1, <1>2, <2>1, <2>7, <2>9, <2>10, <2>11, <2>12, GoesOn
<1> QED BY <1>5, <1>6, <1>7

\* on_body_eof.
LEMMA BodyToTheEnd ==
    ASSUME HttpInv, on_body_eof
    PROVE  HttpInv'
<1>1. /\ HttpTypes /\ ToTheEnd /\ left > 0 /\ state = "eof" /\ Advance(left)
      /\ recv_body_str_' = recv_body_str_ \o [b \in 1 .. left |-> <<units[pos + b].m, units[pos + b].i>>]
      /\ UNCHANGED <<script, units, state, field_, recv_header_map_, packets, hurt>>
      /\ field_ \in Value /\ recv_header_map_ \subseteq Entry /\ left \in Nat /\ pos \in Nat /\ recv_body_str_ \in Seq(Piece)
      /\ pos + left <= Len(units)
  BY DEF HttpInv, HttpTypes, on_body_eof
<1>2. Len(units) \in Nat
  BY <1>1, TheStream
<1>3. script[units[pos + 1].m].eof
  <2>1. pos > 0 /\ script[units[pos].m].eof
    BY <1>1 DEF ToTheEnd
  <2>2. pos \in 1 .. Len(units) /\ pos + 1 \in 1 .. Len(units) /\ pos <= pos + 1
    BY <1>1, <1>2, <2>1
  <2>3. units[pos].m \in 1 .. Len(script) /\ units[pos + 1].m \in 1 .. Len(script) /\ units[pos].m <= units[pos + 1].m
        /\ Len(script) \in Nat /\ units[pos].m = Len(script)
    <3>1. units[pos].m \in 1 .. Len(script) /\ units[pos + 1].m \in 1 .. Len(script) /\ units[pos].m <= units[pos + 1].m
          /\ Len(script) \in Nat
      BY <1>1, <2>2, TheStream
    <3> QED BY <1>1, <2>1, <3>1, TheStream
  <2>4. units[pos + 1].m = units[pos].m
    BY <2>3
  <2> QED BY <2>1, <2>4
<1>4. recv_body_str_' \in Seq(Piece)
  <2> DEFINE t == [b \in 1 .. left |-> <<units[pos + b].m, units[pos + b].i>>]
             SS == Seq(Piece)
  <2>1. ASSUME NEW b \in 1 .. left PROVE <<units[pos + b].m, units[pos + b].i>> \in Piece
    <3>1. pos + b \in 1 .. Len(units)
      BY <1>1, <1>2
    <3>2. units[pos + b] \in UnitType
      BY <1>1, <3>1, TheStream
    <3> QED BY <3>2 DEF UnitType, Piece
  <2>2. t \in [1 .. left -> Piece]
    BY <2>1
  <2>3. t \in SS
    BY <1>1, <2>2, SeqDef
  <2> HIDE DEF t
  <2>4. recv_body_str_ \o t \in SS
    BY <1>1, <2>3, ConcatProperties
  <2> QED BY <1>1, <2>4 DEF t
<1>5. left \in 1 .. left /\ state' = "eof" /\ field_' \in Value /\ recv_header_map_' \subseteq Entry
  BY <1>1
<1> QED BY <1>1, <1>3, <1>4, <1>5, TakesAll

LEMMA HttpInvHolds == Spec => []HttpInv
<1>1. Init => HttpInv
  <2> SUFFICES ASSUME Init PROVE HttpInv
    OBVIOUS
  <2>1. /\ script \in Script /\ units = Units(script) /\ pos = 0 /\ left = 0 /\ state = "start" /\ field_ = <<>>
        /\ recv_header_map_ = {} /\ recv_body_str_ = <<>> /\ packets = <<>> /\ hurt = {}
    BY DEF Init
  <2>2. <<>> \in Value /\ <<>> \in Seq(Piece) /\ <<>> \in Seq(Packet) /\ Len(<<>>) = 0
    BY DEF Value
  <2>3. Flow(script, units)
    BY <2>1, MessagesAre, StreamFlows
  <2>4. Len(units) \in Nat
    <3>1. units \in Seq(UnitType)
      BY <2>3 DEF Flow
    <3> QED BY <3>1, LenProperties
  <2>5. HttpTypes
    BY <2>1, <2>2, <2>4 DEF HttpTypes
  <2>6. InMessage /\ BetweenMessages /\ ToTheEnd
    BY <2>1 DEF InMessage, BetweenMessages, ToTheEnd
  <2>7. PacketsInOrder
    <3>1. 1 .. Len(packets) = {}
      BY <2>1
    <3> QED BY <3>1 DEF PacketsInOrder
  <2>8. IntactAreDelivered
    <3> SUFFICES ASSUME NEW m \in DOMAIN script, Parsed(m) PROVE FALSE
      BY DEF IntactAreDelivered
    <3>1. m \in 1 .. Len(script)
      BY <2>5, TheStream
    <3>2. PICK q \in 1 .. Len(units) : units[q].m = m
      BY <2>3, <3>1 DEF Flow
    <3>3. q \in pos + 1 .. Len(units)
      BY <2>1, <2>4
    <3>5. m \in Nat
      BY <2>5, <3>2, TheStream
    <3>4. units[q].m > m
      BY <3>3 DEF Parsed
    <3> QED BY <3>2, <3>4, <3>5
  <2> QED BY <2>5, <2>6, <2>7, <2>8 DEF HttpInv
<1>2. HttpInv /\ [Next]_vars => HttpInv'
  <2> SUFFICES ASSUME HttpInv, [Next]_vars PROVE HttpInv'
    OBVIOUS
  <2>1. CASE (\E n \in 1 .. Len(units) - pos : on_read(n)) \/ end_of_stream \/ UNCHANGED vars
    BY <2>1, ReadsOrRests
  <2>2. CASE skip_line_end \/ parse_error
    BY <2>2, Errors
  <2>3. CASE on_message_begin
    BY <2>3, Begins
  <2>4. CASE on_url \/ on_status \/ on_header_field \/ on_header_value
    BY <2>4, Texts
  <2>5. CASE on_headers_complete
    BY <2>5, HeadersComplete
  <2>6. CASE on_body
    BY <2>6, Bodies
  <2>7. CASE on_body_eof
    BY <2>7, BodyToTheEnd
  <2> QED BY <2>1, <2>2, <2>3, <2>4, <2>5, <2>6, <2>7 DEF Next
<1> QED BY <1>1, <1>2, PTL DEF Spec

\* However the stream is cut into reads, a packet has the whole body of one message, no value of
\* another, and packets come in the order of the messages, once each.
THEOREM PacketsAreOwn == Spec => []PacketOfOneMessage
<1>1. HttpInv => PacketOfOneMessage
  <2> SUFFICES ASSUME HttpInv PROVE PacketOfOneMessage
    OBVIOUS
  <2>1. HttpTypes /\ PacketsInOrder
    BY DEF HttpInv
  <2>2. TypeOK
    <3>1. Len(units) \in Nat /\ DOMAIN script = 1 .. Len(script)
      BY <2>1, TheStream
    <3> QED BY <2>1, <3>1 DEF HttpTypes, TypeOK
  <2>3. DOMAIN packets = 1 .. Len(packets)
    BY <2>1, LenProperties DEF HttpTypes
  <2> QED BY <2>1, <2>2, <2>3 DEF PacketsInOrder, OwnValues, PacketOfOneMessage
<1> QED BY <1>1, HttpInvHolds, PTL

\* A message whose texts each came in one read, and that no error took part of, is delivered with
\* its whole map as soon as its last unit is parsed.
THEOREM IntactDelivered == Spec => []IntactAreDelivered
<1>1. HttpInv => IntactAreDelivered
  BY DEF HttpInv
<1> QED BY <1>1, HttpInvHolds, PTL

(***************************************************************************)
(* Json::Value: an array that is a map                                      *)
(***************************************************************************)
\* The largest of some numbers below a bound.
LEMMA Largest ==
    ASSUME NEW K \in SUBSET Nat, K # {}, NEW n \in Nat, \A k \in K : k < n
    PROVE  Max(K) \in K /\ \A k \in K : k <= Max(K)
<1> DEFINE Has == \E x \in K : \A y \in K : x >= y
           S == {b \in Nat : (\A k \in K : k < b) => Has}
<1>1. 0 \in S
  <2>1. PICK k \in K : TRUE
    OBVIOUS
  <2>2. ~(k < 0)
    OBVIOUS
  <2> QED BY <2>1, <2>2
<1>2. ASSUME NEW b \in Nat, b \in S PROVE b + 1 \in S
  <2> SUFFICES ASSUME \A k \in K : k < b + 1 PROVE Has
    OBVIOUS
  <2>1. CASE b \in K
    <3>1. \A y \in K : b >= y
      OBVIOUS
    <3> QED BY <2>1, <3>1
  <2>2. CASE b \notin K
    <3>1. \A k \in K : k < b
      BY <2>2
    <3> QED BY <1>2, <3>1
  <2> QED BY <2>1, <2>2
<1>3. n \in S
  <2> HIDE DEF S
  <2> QED BY <1>1, <1>2, Induction
<1>4. Has
  BY <1>3
<1>5. Max(K) \in K /\ \A y \in K : Max(K) >= y
  BY <1>4 DEF Max
<1>6. Max(K) \in Nat
  BY <1>5
<1> QED BY <1>5, <1>6

\* The members of an array: a map from indices, a place of it, null where it has
\* nothing, some places filled, what its reader sees, and that no place is missing.
IsMap(m) == m \in [DOMAIN m -> Stored] /\ DOMAIN m \subseteq Nat /\ \E n \in Nat : \A k \in DOMAIN m : k < n
At(m, i) == IF i \in DOMAIN m THEN m[i] ELSE NullValue
Filled(m, places) == [i \in DOMAIN m \cup places |-> IF i \in DOMAIN m THEN m[i] ELSE NullValue]
Told(m) == [k \in 1 .. size(Array(m)) |-> At(m, k - 1)]
NoHoles(m) == DOMAIN m = 0 .. size(Array(m)) - 1

\* size(): one more than the largest index there is.
LEMMA SizeOfMap ==
    ASSUME NEW m, IsMap(m)
    PROVE  /\ size(Array(m)) \in Nat /\ \A k \in DOMAIN m : k < size(Array(m))
           /\ size(Array(m)) > 0 => size(Array(m)) - 1 \in DOMAIN m
<1> DEFINE K == DOMAIN m
<1>1. size(Array(m)) = IF K = {} THEN 0 ELSE Max(K) + 1
  BY DEF size, Keys, Array
<1>2. K \subseteq Nat /\ \E n \in Nat : \A k \in K : k < n
  BY DEF IsMap
<1> HIDE DEF K
<1>3. CASE K = {}
  BY <1>1, <1>3 DEF K
<1>4. CASE K # {}
  <2>1. Max(K) \in K /\ \A k \in K : k <= Max(K)
    BY <1>2, <1>4, Largest
  <2> DEFINE x == Max(K)
  <2>3. x \in Nat /\ \A k \in K : k \in Nat /\ k <= x
    BY <1>2, <2>1
  <2> HIDE DEF x
  <2>4. (x + 1) - 1 = x /\ x + 1 \in Nat /\ \A k \in K : k < x + 1
    BY <2>3
  <2>2. Max(K) \in Nat /\ Max(K) + 1 \in Nat /\ (Max(K) + 1) - 1 = Max(K) /\ \A k \in K : k < Max(K) + 1
    BY <2>3, <2>4 DEF x
  <2> QED BY <1>1, <1>4, <2>1, <2>2 DEF K
<1> QED BY <1>3, <1>4

\* What makes n the size.
LEMMA SizeIs ==
    ASSUME NEW m, NEW n \in Nat, m \in [DOMAIN m -> Stored], DOMAIN m \subseteq Nat,
           \A k \in DOMAIN m : k < n, n > 0 => n - 1 \in DOMAIN m
    PROVE  IsMap(m) /\ size(Array(m)) = n
<1>1. IsMap(m)
  BY DEF IsMap
<1> DEFINE z == size(Array(m))
<1>2. z \in Nat /\ (\A k \in DOMAIN m : k < z) /\ (z > 0 => z - 1 \in DOMAIN m)
  BY <1>1, SizeOfMap
<1> HIDE DEF z
<1>3. z = n
  BY <1>2
<1> QED BY <1>1, <1>3 DEF z

\* What the array's reader sees.
LEMMA ToldIs ==
    ASSUME NEW m, IsMap(m)
    PROVE  /\ Told(m) \in Seq(Stored) /\ Len(Told(m)) = size(Array(m)) /\ NullValue \in Stored
           /\ \A k \in 1 .. size(Array(m)) : Told(m)[k] = At(m, k - 1)
<1> DEFINE n == size(Array(m))
<1>1. n \in Nat
  BY SizeOfMap
<1>2. NullValue \in Stored
  BY DEF Stored
<1>3. \A i : At(m, i) \in Stored
  BY <1>2 DEF At, IsMap
<1> HIDE DEF n
<1>4. [k \in 1 .. n |-> At(m, k - 1)] \in Seq(Stored)
  BY <1>1, <1>3, SeqDef
<1>5. Len([k \in 1 .. n |-> At(m, k - 1)]) = n
  BY <1>1
<1> QED BY <1>2, <1>4, <1>5 DEF Told, n

\* operator[] at some places, which reach to n: what the map had stays.
LEMMA FilledIs ==
    ASSUME NEW m, IsMap(m), NEW P \in SUBSET Nat, NEW n \in Nat, \A k \in P : k < n,
           n = 0 \/ n <= size(Array(m)) \/ n - 1 \in P
    PROVE  LET f == Filled(m, P)
               z == size(Array(m))
           IN  /\ IsMap(f) /\ DOMAIN f = DOMAIN m \cup P /\ size(Array(f)) = IF n > z THEN n ELSE z
               /\ (\A i : At(f, i) = At(m, i)) /\ \A i \in DOMAIN f : f[i] = At(m, i)
<1> DEFINE f == Filled(m, P)
           z == size(Array(m))
           y == IF n > z THEN n ELSE z
<1>1. z \in Nat /\ (\A k \in DOMAIN m : k < z) /\ (z > 0 => z - 1 \in DOMAIN m) /\ DOMAIN m \subseteq Nat
  BY SizeOfMap DEF IsMap
<1>2. NullValue \in Stored
  BY DEF Stored
<1>3. DOMAIN f = DOMAIN m \cup P /\ f = [i \in DOMAIN m \cup P |-> At(m, i)]
  BY DEF Filled, At
<1>4. \A i : At(m, i) \in Stored
  BY <1>2 DEF At, IsMap
<1>5. (\A i : At(f, i) = At(m, i)) /\ \A i \in DOMAIN f : f[i] = At(m, i)
  BY <1>3 DEF At
<1>6. f \in [DOMAIN f -> Stored]
  BY <1>3, <1>4
<1>9. n = 0 \/ n <= z \/ n - 1 \in P
  OBVIOUS
<1> HIDE DEF z, f
<1>7. y \in Nat /\ DOMAIN f \subseteq Nat /\ (\A k \in DOMAIN f : k < y) /\ (y > 0 => y - 1 \in DOMAIN f)
  <2>1. CASE n > z
    <3>1. y = n /\ n # 0 /\ n - 1 \in P
      BY <1>1, <1>9, <2>1
    <3>2. \A k \in DOMAIN m : k < n
      BY <1>1, <2>1
    <3> QED BY <1>1, <1>3, <3>1, <3>2
  <2>2. CASE ~(n > z)
    <3>1. y = z
      BY <2>2
    <3>2. \A k \in P : k < z
      BY <1>1, <2>2
    <3> QED BY <1>1, <1>3, <3>1, <3>2
  <2> QED BY <2>1, <2>2
<1> HIDE DEF y
<1>8. IsMap(f) /\ size(Array(f)) = y
  BY <1>6, <1>7, SizeIs
<1> QED BY <1>3, <1>5, <1>8 DEF z, f, y

\* A list that is made to reach to n.
LEMMA PaddedIs ==
    ASSUME NEW l \in Seq(Stored), NEW n \in Nat, NEW e, e = IF n > Len(l) THEN l \o [k \in 1 .. n - Len(l) |-> NullValue] ELSE l
    PROVE  /\ e \in Seq(Stored) /\ Len(e) = (IF n > Len(l) THEN n ELSE Len(l))
           /\ \A j \in 1 .. Len(e) : e[j] = IF j <= Len(l) THEN l[j] ELSE NullValue
<1>1. Len(l) \in Nat
  BY LenProperties
<1>2. CASE n > Len(l)
  <2> DEFINE r == n - Len(l)
             t == [k \in 1 .. r |-> NullValue]
  <2>1. r \in Nat /\ Len(l) + r = n
    BY <1>1, <1>2
  <2> HIDE DEF r
  <2>2. NullValue \in Stored
    BY DEF Stored
  <2>3. t \in Seq(Stored) /\ Len(t) = r /\ \A k \in 1 .. r : t[k] = NullValue
    BY <2>1, <2>2, SeqDef
  <2>4. e = l \o t
    BY <1>2 DEF r
  <2> HIDE DEF t
  <2>5. e \in Seq(Stored) /\ Len(e) = n /\ \A j \in 1 .. n : e[j] = IF j <= Len(l) THEN l[j] ELSE t[j - Len(l)]
    BY <2>1, <2>3, <2>4, ConcatProperties
  <2>6. \A j \in 1 .. n : ~(j <= Len(l)) => j - Len(l) \in 1 .. r
    BY <1>1, <2>1
  <2> QED BY <1>2, <2>3, <2>5, <2>6
<1>3. CASE ~(n > Len(l))
  BY <1>1, <1>3
<1> QED BY <1>2, <1>3


\* An array is made of values at natural places; none is missing unless an index past the end was used.
ValueInv ==
    /\ val = NullValue \/ (val = Array(val.map) /\ IsMap(val.map))
    /\ past \in BOOLEAN
    /\ ~past => ~threw /\ (val = NullValue \/ NoHoles(val.map))

\* The members of the value at hand: null is an array without any.
LEMMA TheMembers ==
    ASSUME ValueInv
    PROVE  \E m : /\ IsMap(m) /\ Keys(val) = DOMAIN m /\ size(val) = size(Array(m)) /\ Dense = Told(m)
                  /\ \A P : resolve(val, P) = Array(Filled(m, P))
                  /\ (val.t = "array" => val = Array(m)) /\ (~past => NoHoles(m))
                  /\ (val.t # "array" => m = Empty)
<1>1. CASE val = NullValue
  <2>1. val.t = "null" /\ val.map = <<>> /\ Keys(val) = {} /\ size(val) = 0
    BY <1>1 DEF NullValue, Scalar, size, Keys
  <2>2. Empty \in [DOMAIN Empty -> Stored] /\ DOMAIN Empty = {}
    BY DEF Empty
  <2>3. IsMap(Empty) /\ size(Array(Empty)) = 0
    <3> DEFINE n == 0
    <3>1. n \in Nat /\ ~(n > 0) /\ (\A k \in DOMAIN Empty : k < n) /\ DOMAIN Empty \subseteq Nat
      BY <2>2
    <3> HIDE DEF n, Empty
    <3>2. IsMap(Empty) /\ size(Array(Empty)) = n
      BY <2>2, <3>1, SizeIs
    <3> QED BY <3>2 DEF n
  <2>4. Dense = Told(Empty)
    BY <2>1, <2>3 DEF Dense, Told
  <2>5. \A P : resolve(val, P) = Array(Filled(Empty, P))
    BY <2>1 DEF resolve, Filled
  <2>6. NoHoles(Empty)
    BY <2>2, <2>3 DEF NoHoles
  <2> HIDE DEF Empty
  <2> QED BY <2>1, <2>2, <2>3, <2>4, <2>5, <2>6
<1>2. CASE val = Array(val.map) /\ IsMap(val.map) /\ val # NullValue
  <2> DEFINE m == val.map
  <2>1. val.t = "array" /\ Keys(val) = DOMAIN m /\ IsMap(m) /\ val = Array(m)
    BY <1>2 DEF Array, Keys
  <2>2. \A i : get(val, i) = At(m, i)
    BY <2>1 DEF get, At
  <2>3. Dense = Told(m)
    BY <2>1, <2>2 DEF Dense, Told
  <2>4. \A P : resolve(val, P) = Array(Filled(m, P))
    BY <2>1 DEF resolve, Filled
  <2>5. ~past => NoHoles(m)
    BY <1>2 DEF ValueInv
  <2> HIDE DEF m
  <2> QED BY <2>1, <2>3, <2>4, <2>5
<1> QED BY <1>1, <1>2 DEF ValueInv

\* A call that leaves an array: the invariant and what is told of it.
LEMMA Becomes ==
    ASSUME NEW m, IsMap(m), val' = Array(m), past' \in BOOLEAN, ~past' => ~threw' /\ NoHoles(m)
    PROVE  ValueInv' /\ Dense' = Told(m)
<1>1. val'.t = "array" /\ val'.map = m
  BY DEF Array
<1>2. ValueInv'
  BY <1>1 DEF ValueInv, NullValue, Scalar, IsMap, NoHoles, Array, size, Keys
<1>3. Dense' = [k \in 1 .. size(Array(m)) |-> get(Array(m), k - 1)]
  BY DEF Dense
<1>4. \A i : get(Array(m), i) = At(m, i)
  BY DEF get, At, Keys, Array
<1> QED BY <1>2, <1>3, <1>4 DEF Told

\* Places filled up to n: the array reaches to it.
LEMMA GrownIs ==
    ASSUME NEW m, IsMap(m), NEW P \in SUBSET Nat, NEW n \in Nat, \A k \in P : k < n,
           n = 0 \/ n <= size(Array(m)) \/ n - 1 \in P
    PROVE  Told(Filled(m, P)) = IF n > Len(Told(m)) THEN Told(m) \o [k \in 1 .. n - Len(Told(m)) |-> NullValue] ELSE Told(m)
<1> DEFINE f == Filled(m, P)
           z == size(Array(m))
           l == Told(m)
           e == IF n > Len(l) THEN l \o [k \in 1 .. n - Len(l) |-> NullValue] ELSE l
<1>1. IsMap(f) /\ size(Array(f)) = (IF n > z THEN n ELSE z) /\ \A k : At(f, k) = At(m, k)
  BY FilledIs
<1> HIDE DEF f
<1>2. z \in Nat /\ (\A k \in DOMAIN m : k < z) /\ DOMAIN m \subseteq Nat
  BY SizeOfMap DEF IsMap
<1>3. l \in Seq(Stored) /\ Len(l) = z /\ (\A k \in 1 .. z : l[k] = At(m, k - 1))
  BY ToldIs
<1>4. Told(f) \in Seq(Stored) /\ Len(Told(f)) = size(Array(f)) /\ (\A k \in 1 .. size(Array(f)) : Told(f)[k] = At(m, k - 1))
  BY <1>1, ToldIs
<1> HIDE DEF l, z
<1>5. e \in Seq(Stored) /\ Len(e) = (IF n > z THEN n ELSE z) /\ \A j \in 1 .. Len(e) : e[j] = IF j <= z THEN l[j] ELSE NullValue
  BY <1>3, PaddedIs
<1> HIDE DEF e
<1>6. ASSUME NEW j \in 1 .. Len(e) PROVE Told(f)[j] = e[j]
  <2>1. CASE j <= z
    BY <1>1, <1>2, <1>3, <1>4, <1>5, <1>6, <2>1
  <2>2. CASE ~(j <= z)
    <3>1. ~(j - 1 \in DOMAIN m)
      BY <1>2, <1>5, <1>6, <2>2
    <3> QED BY <1>1, <1>4, <1>5, <2>2, <3>1 DEF At
  <2> QED BY <2>1, <2>2
<1>7. Told(f) = e
  BY <1>1, <1>4, <1>5, <1>6, SeqEqual
<1> QED BY <1>7 DEF f, e, l

\* operator[] of a place.
LEMMA Reached ==
    ASSUME NEW m, IsMap(m), NEW i \in Nat
    PROVE  LET f == Filled(m, {i})
           IN  /\ IsMap(f) /\ i \in DOMAIN f /\ (i <= size(Array(m)) /\ NoHoles(m) => NoHoles(f))
               /\ Told(f) = IF i + 1 > Len(Told(m)) THEN Told(m) \o [k \in 1 .. i + 1 - Len(Told(m)) |-> NullValue] ELSE Told(m)
<1> DEFINE P == {i}
           f == Filled(m, P)
           z == size(Array(m))
           n == i + 1
<1>1. P \in SUBSET Nat /\ n \in Nat /\ (\A k \in P : k < n) /\ n - 1 \in P
  OBVIOUS
<1> HIDE DEF n, P
<1>2. IsMap(f) /\ DOMAIN f = DOMAIN m \cup P /\ size(Array(f)) = IF n > z THEN n ELSE z
  BY <1>1, FilledIs
<1>3. Told(f) = IF n > Len(Told(m)) THEN Told(m) \o [k \in 1 .. n - Len(Told(m)) |-> NullValue] ELSE Told(m)
  BY <1>1, GrownIs
<1> HIDE DEF f
<1>4. z \in Nat
  BY SizeOfMap
<1>5. ASSUME i <= z, NoHoles(m) PROVE NoHoles(f)
  <2>1. DOMAIN m = 0 .. z - 1
    BY <1>5 DEF NoHoles, z
  <2> HIDE DEF z
  <2>2. DOMAIN f = 0 .. (IF n > z THEN n ELSE z) - 1
    BY <1>2, <1>4, <1>5, <2>1 DEF n, P
  <2> QED BY <1>2, <2>2 DEF NoHoles, z
<1>6. i \in DOMAIN f
  BY <1>2 DEF P
<1> QED BY <1>2, <1>3, <1>5, <1>6 DEF f, P, n, z

\* Reading a place of a value that is not const.
LEMMA ReadStep ==
    ASSUME ValueInv, NEW i \in Nat, Read(i)
    PROVE  A!Touch(i) /\ ValueInv'
<1>1. PICK m : /\ IsMap(m) /\ size(val) = size(Array(m)) /\ Dense = Told(m)
               /\ (\A P : resolve(val, P) = Array(Filled(m, P))) /\ (~past => NoHoles(m))
  BY TheMembers
<1> DEFINE f == Filled(m, {i})
<1>2. /\ IsMap(f) /\ (i <= size(val) /\ NoHoles(m) => NoHoles(f))
      /\ Told(f) = IF i + 1 > Len(Dense) THEN Dense \o [k \in 1 .. i + 1 - Len(Dense) |-> NullValue] ELSE Dense
  BY <1>1, Reached
<1>3. val' = Array(f) /\ past' = (past \/ i > size(val)) /\ ~threw'
  BY <1>1 DEF Read
<1> HIDE DEF f
<1>4. past' \in BOOLEAN /\ (~past' => NoHoles(f))
  <2>1. size(val) \in Nat
    BY <1>1, SizeOfMap
  <2>2. past' \in BOOLEAN /\ (~past' => ~past /\ ~(i > size(val)))
    BY <1>3 DEF ValueInv
  <2>3. ~(i > size(val)) => i <= size(val)
    BY <2>1
  <2> QED BY <1>1, <1>2, <2>2, <2>3
<1>5. ValueInv' /\ Dense' = Told(f)
  BY <1>2, <1>3, <1>4, Becomes
<1> QED BY <1>2, <1>5 DEF A!Touch, A!Padded, A!Nulls

\* Assigning to a place.
LEMMA Assigned ==
    ASSUME ValueInv, NEW i \in Nat, NEW x \in Stored, val' = assign(val, i, x), past' = (past \/ i > size(val)), ~threw'
    PROVE  A!Put(i, x) /\ ValueInv'
<1>1. PICK m : /\ IsMap(m) /\ size(val) = size(Array(m)) /\ Dense = Told(m)
               /\ (\A P : resolve(val, P) = Array(Filled(m, P))) /\ (~past => NoHoles(m))
  BY TheMembers
<1> DEFINE f == Filled(m, {i})
           g == [f EXCEPT ![i] = x]
           pad == IF i + 1 > Len(Dense) THEN Dense \o [k \in 1 .. i + 1 - Len(Dense) |-> NullValue] ELSE Dense
           z == size(Array(f))
<1>2. IsMap(f) /\ (i <= size(val) /\ NoHoles(m) => NoHoles(f)) /\ Told(f) = pad /\ i \in DOMAIN f
  BY <1>1, Reached
<1>3. val' = Array(g)
  <2>1. val' = [Array(f) EXCEPT !.map[i] = x]
    BY <1>1 DEF assign
  <2> HIDE DEF f
  <2> QED BY <2>1 DEF Array
<1> HIDE DEF f, pad
<1>4. DOMAIN g = DOMAIN f /\ g \in [DOMAIN g -> Stored] /\ (\A k \in DOMAIN f : g[k] = IF k = i THEN x ELSE f[k])
  BY <1>2 DEF IsMap
<1>5. z \in Nat /\ (\A k \in DOMAIN f : k < z) /\ (z > 0 => z - 1 \in DOMAIN f) /\ DOMAIN f \subseteq Nat
  BY <1>2, SizeOfMap DEF IsMap
<1> HIDE DEF g, z
<1>6. IsMap(g) /\ size(Array(g)) = z
  BY <1>4, <1>5, SizeIs
<1>7. Told(g) = [pad EXCEPT ![i + 1] = x]
  <2> DEFINE s == [pad EXCEPT ![i + 1] = x]
  <2>1. pad \in Seq(Stored) /\ Len(pad) = z /\ \A k \in 1 .. z : pad[k] = At(f, k - 1)
    BY <1>2, ToldIs DEF z
  <2>2. Told(g) \in Seq(Stored) /\ Len(Told(g)) = z /\ \A k \in 1 .. z : Told(g)[k] = At(g, k - 1)
    BY <1>6, ToldIs
  <2>3. i + 1 \in 1 .. Len(pad)
    BY <1>2, <1>5, <2>1
  <2>4. s \in Seq(Stored) /\ Len(s) = z /\ \A k \in 1 .. z : s[k] = IF k = i + 1 THEN x ELSE pad[k]
    BY <2>1, <2>3, ExceptSeq
  <2> HIDE DEF s
  <2>5. ASSUME NEW k \in 1 .. z PROVE Told(g)[k] = s[k]
    <3>1. k = i + 1 <=> k - 1 = i
      BY <1>5, <2>5
    <3>2. At(g, k - 1) = IF k - 1 = i THEN x ELSE At(f, k - 1)
      BY <1>2, <1>4 DEF At
    <3> QED BY <2>1, <2>2, <2>4, <3>1, <3>2
  <2>6. Told(g) = s
    BY <2>2, <2>4, <2>5, SeqEqual
  <2> QED BY <2>6 DEF s
<1>8. past' \in BOOLEAN /\ (~past' => NoHoles(g))
  <2>1. size(val) \in Nat
    BY <1>1, SizeOfMap
  <2>2. NoHoles(f) => NoHoles(g)
    BY <1>4, <1>6 DEF NoHoles, z
  <2>3. past' \in BOOLEAN /\ (~past' => ~past /\ ~(i > size(val)))
    BY DEF ValueInv
  <2>4. ~(i > size(val)) => i <= size(val)
    BY <2>1
  <2> QED BY <1>1, <1>2, <2>2, <2>3, <2>4
<1>9. ValueInv' /\ Dense' = Told(g)
  BY <1>3, <1>6, <1>8, Becomes
<1> QED BY <1>7, <1>9 DEF A!Put, A!Padded, A!Nulls, pad

\* operator[] with a value, and append.
LEMMA SetStep ==
    ASSUME ValueInv, NEW i \in Nat, NEW x \in Stored, Set(i, x)
    PROVE  A!Put(i, x) /\ ValueInv'
BY Assigned DEF Set

LEMMA AppendStep ==
    ASSUME ValueInv, NEW x \in Stored, append(x)
    PROVE  A!Put(Len(Dense), x) /\ ValueInv'
<1>1. PICK m : IsMap(m) /\ size(val) = size(Array(m)) /\ Dense = Told(m)
  BY TheMembers
<1>2. size(val) \in Nat /\ Len(Dense) = size(val)
  BY <1>1, SizeOfMap, ToldIs
<1>3. val' = assign(val, size(val), x) /\ ~threw' /\ past' = (past \/ size(val) > size(val))
  BY <1>2 DEF append, ValueInv
<1> QED BY <1>2, <1>3, Assigned


\* A part of a list.
LEMMA PartIs ==
    ASSUME NEW l \in Seq(Stored), NEW i \in Nat, NEW j \in Nat, 1 <= i, j <= Len(l), i <= j + 1
    PROVE  /\ SubSeq(l, i, j) \in Seq(Stored) /\ Len(SubSeq(l, i, j)) = j + 1 - i
           /\ \A k \in 1 .. j + 1 - i : SubSeq(l, i, j)[k] = l[k + i - 1]
<1>1. Len(l) \in Nat /\ \A k \in 1 .. Len(l) : l[k] \in Stored
  BY LenProperties, ElementOfSeq
<1>2. \A k \in i .. j : l[k] \in Stored
  BY <1>1
<1>3. i \in Int /\ j \in Int
  OBVIOUS
<1>4. /\ SubSeq(l, i, j) \in Seq(Stored) /\ Len(SubSeq(l, i, j)) = IF i <= j THEN j - i + 1 ELSE 0
      /\ \A k \in 1 .. j - i + 1 : SubSeq(l, i, j)[k] = l[i + k - 1]
  BY <1>2, <1>3, SubSeqProperties
<1>5. (IF i <= j THEN j - i + 1 ELSE 0) = j + 1 - i /\ j - i + 1 = j + 1 - i
  OBVIOUS
<1>6. \A k \in 1 .. j + 1 - i : i + k - 1 = k + i - 1
  OBVIOUS
<1> QED BY <1>4, <1>5, <1>6

\* The first n of a list, and the rest.
LEMMA FirstsIs ==
    ASSUME NEW l \in Seq(Stored), NEW n \in Nat, n <= Len(l)
    PROVE  /\ SubSeq(l, 1, n) \in Seq(Stored) /\ Len(SubSeq(l, 1, n)) = n
           /\ \A k \in 1 .. n : SubSeq(l, 1, n)[k] = l[k]
<1> DEFINE i == 1
<1>1. i \in Nat /\ 1 <= i /\ i <= n + 1 /\ n + 1 - i = n /\ \A k \in Nat : k + i - 1 = k
  OBVIOUS
<1>2. SubSeq(l, 1, n) = SubSeq(l, i, n)
  OBVIOUS
<1> HIDE DEF i
<1>3. /\ SubSeq(l, i, n) \in Seq(Stored) /\ Len(SubSeq(l, i, n)) = n + 1 - i
      /\ \A k \in 1 .. n + 1 - i : SubSeq(l, i, n)[k] = l[k + i - 1]
  BY <1>1, PartIs
<1> QED BY <1>1, <1>2, <1>3

LEMMA RestIs ==
    ASSUME NEW l \in Seq(Stored), NEW n \in Nat, n <= Len(l), NEW i, i = n + 1
    PROVE  /\ SubSeq(l, i, Len(l)) \in Seq(Stored) /\ Len(SubSeq(l, i, Len(l))) = Len(l) - n
           /\ \A k \in 1 .. Len(l) - n : SubSeq(l, i, Len(l))[k] = l[k + n]
<1> DEFINE z == Len(l)
<1>1. z \in Nat
  BY LenProperties
<1>2. i \in Nat /\ 1 <= i /\ i <= z + 1 /\ z + 1 - i = z - n /\ (\A k \in Nat : k + i - 1 = k + n) /\ z <= z
  BY <1>1
<1>3. /\ SubSeq(l, i, z) \in Seq(Stored) /\ Len(SubSeq(l, i, z)) = z + 1 - i
      /\ \A k \in 1 .. z + 1 - i : SubSeq(l, i, z)[k] = l[k + i - 1]
  BY <1>1, <1>2, PartIs
<1> HIDE DEF z
<1>4. \A k \in 1 .. z - n : k \in Nat
  OBVIOUS
<1> QED BY <1>2, <1>3, <1>4 DEF z

\* Two lists one behind the other.
LEMMA BehindIs ==
    ASSUME NEW l \in Seq(Stored), NEW r \in Seq(Stored)
    PROVE  /\ l \o r \in Seq(Stored) /\ Len(l \o r) = Len(l) + Len(r) /\ Len(l) \in Nat /\ Len(r) \in Nat
           /\ \A k \in 1 .. Len(l) + Len(r) : (l \o r)[k] = IF k <= Len(l) THEN l[k] ELSE r[k - Len(l)]
BY ConcatProperties, LenProperties

\* What is told of a map that has what a list has.
LEMMA ToldAs ==
    ASSUME NEW m, IsMap(m), NEW l \in Seq(Stored), Len(l) = size(Array(m)), \A k \in 1 .. Len(l) : l[k] = At(m, k - 1)
    PROVE  Told(m) = l
<1>1. Told(m) \in Seq(Stored) /\ Len(Told(m)) = size(Array(m)) /\ \A k \in 1 .. size(Array(m)) : Told(m)[k] = At(m, k - 1)
  BY ToldIs
<1> QED BY <1>1, SeqEqual

\* A list that may end with nulls the array does not keep.
LEMMA ShorterIs ==
    ASSUME NEW m, IsMap(m), NEW b \in Seq(Stored), size(Array(m)) <= Len(b), past \/ size(Array(m)) = Len(b),
           \A k \in 1 .. Len(b) : b[k] = At(m, k - 1), Dense' = Told(m)
    PROVE  A!Shorter(b)
<1> DEFINE z == size(Array(m))
<1>1. z \in Nat /\ (\A k \in DOMAIN m : k < z) /\ Len(b) \in Nat
  BY SizeOfMap, LenProperties
<1>a. z <= Len(b) /\ (past \/ z = Len(b))
  OBVIOUS
<1> DEFINE s == SubSeq(b, 1, z)
           i == 1
<1>2. i \in Nat /\ 1 <= i /\ i <= z + 1 /\ z + 1 - i = z /\ \A k \in Nat : k + i - 1 = k
  BY <1>1
<1>3. s \in Seq(Stored) /\ Len(s) = z /\ \A k \in 1 .. z : s[k] = b[k]
  <2> HIDE DEF i, z
  <2>1. /\ SubSeq(b, i, z) \in Seq(Stored) /\ Len(SubSeq(b, i, z)) = z + 1 - i
        /\ \A k \in 1 .. z + 1 - i : SubSeq(b, i, z)[k] = b[k + i - 1]
    BY <1>1, <1>a, <1>2, PartIs
  <2>2. SubSeq(b, i, z) = s
    BY DEF i
  <2> QED BY <1>1, <1>2, <2>1, <2>2
<1>4. Told(m) = s
  <2> HIDE DEF s
  <2>1. \A k \in 1 .. Len(s) : s[k] = At(m, k - 1)
    BY <1>1, <1>a, <1>3
  <2> QED BY <1>3, <2>1, ToldAs DEF z
<1> HIDE DEF z
<1>5. z \in 0 .. Len(b)
  BY <1>1, <1>a
<1>6. ASSUME NEW k \in z + 1 .. Len(b) PROVE past /\ b[k] = NullValue
  <2>1. past /\ k \in 1 .. Len(b)
    BY <1>1, <1>a, <1>6
  <2>2. k - 1 \notin DOMAIN m
    <3>1. ~(k - 1 < z)
      BY <1>1, <1>6
    <3> QED BY <1>1, <3>1
  <2> QED BY <2>1, <2>2 DEF At
<1> QED BY <1>4, <1>5, <1>6 DEF A!Shorter


\* Taking a place out: what follows it is moved up by one.
LEMMA RemoveStep ==
    ASSUME ValueInv, NEW i \in Nat, removeIndex(i)
    PROVE  A!Remove(i) /\ ValueInv'
<1>1. PICK m : /\ IsMap(m) /\ Keys(val) = DOMAIN m /\ size(val) = size(Array(m)) /\ Dense = Told(m)
               /\ (\A P : resolve(val, P) = Array(Filled(m, P))) /\ (~past => NoHoles(m))
  BY TheMembers
<1> DEFINE z == size(Array(m))
           l == Told(m)
           last == z - 1
           P == i .. last
           f == Filled(m, P)
           g == [k \in DOMAIN f \ {last} |-> IF k >= i THEN f[k + 1] ELSE f[k]]
           b == SubSeq(l, 1, i) \o SubSeq(l, i + 2, z)
<1>2. z \in Nat /\ (\A k \in DOMAIN m : k < z) /\ DOMAIN m \subseteq Nat /\ (z > 0 => last \in DOMAIN m) /\ i \in DOMAIN m
  BY <1>1, SizeOfMap DEF IsMap, removeIndex
<1>3. val' = Array(g) /\ past' = past /\ threw' = FALSE
  <2>1. val' = Shifted(val, i) /\ past' = past /\ threw' = FALSE
    BY DEF removeIndex
  <2>2. resolve(val, i .. size(val) - 1) = Array(f) /\ size(val) - 1 = last
    BY <1>1
  <2> HIDE DEF f, last
  <2>3. Keys(Array(f)) = DOMAIN f /\ Array(f).map = f
    BY DEF Keys, Array
  <2> QED BY <2>1, <2>2, <2>3 DEF Shifted
<1>4. i < z /\ i <= last /\ last \in Nat /\ z = last + 1
  BY <1>2
<1>5. l \in Seq(Stored) /\ Len(l) = z /\ \A k \in 1 .. z : l[k] = At(m, k - 1)
  BY <1>1, ToldIs
<1> HIDE DEF z, l
<1>6. P \in SUBSET Nat /\ (\A k \in P : k < z) /\ z - 1 \in P
  BY <1>4
<1> HIDE DEF last
<1>7. IsMap(f) /\ DOMAIN f = DOMAIN m \cup P /\ \A k \in DOMAIN f : f[k] = At(m, k)
  <2> HIDE DEF P
  <2> QED BY <1>1, <1>2, <1>6, FilledIs DEF z
<1>8. ASSUME NEW k \in DOMAIN g PROVE k \in Nat /\ k < last /\ g[k] \in Stored /\ g[k] = IF k >= i THEN At(m, k + 1) ELSE At(m, k)
  <2>1. k \in Nat /\ k < z /\ k # last
    BY <1>2, <1>6, <1>7
  <2>2. k < last
    BY <1>4, <2>1
  <2>3. k >= i => k + 1 \in DOMAIN f
    BY <1>4, <1>7, <2>1, <2>2
  <2>4. f \in [DOMAIN f -> Stored] /\ k \in DOMAIN f
    BY <1>7 DEF IsMap
  <2> HIDE DEF f
  <2> QED BY <1>7, <2>1, <2>2, <2>3, <2>4
<1>9. ASSUME NEW k \in Nat, k < last PROVE At(g, k) = IF k >= i THEN At(m, k + 1) ELSE At(m, k)
  <2>1. k >= i => k \in P /\ k # last
    BY <1>4, <1>9
  <2>2. k \in DOMAIN g <=> k \in DOMAIN m \/ k \in P
    BY <1>4, <1>7, <1>9
  <2>3. ~(k >= i) => (k \in P <=> FALSE)
    BY <1>4, <1>9
  <2> HIDE DEF g, P
  <2> QED BY <1>8, <2>1, <2>2, <2>3 DEF At
<1>10. IsMap(g) /\ size(Array(g)) <= last
  <2>1. DOMAIN g \subseteq Nat /\ g \in [DOMAIN g -> Stored] /\ \A k \in DOMAIN g : k < last
    BY <1>8
  <2> HIDE DEF g
  <2>2. IsMap(g)
    BY <1>4, <2>1 DEF IsMap
  <2>3. size(Array(g)) \in Nat /\ (size(Array(g)) > 0 => size(Array(g)) - 1 \in DOMAIN g)
    BY <2>2, SizeOfMap
  <2> DEFINE y == size(Array(g))
  <2>4. y \in Nat /\ (y > 0 => y - 1 < last)
    BY <2>1, <2>3
  <2> HIDE DEF y
  <2>5. y <= last
    BY <1>4, <2>4
  <2> QED BY <2>2, <2>5 DEF y
<1>11. b \in Seq(Stored) /\ Len(b) = last /\ \A k \in 1 .. last : b[k] = At(g, k - 1)
  <2> DEFINE c == SubSeq(l, 1, i)
             d == SubSeq(l, i + 2, z)
             n == i + 1
  <2>1. i <= Len(l) /\ n \in Nat /\ n <= Len(l) /\ i + 2 = n + 1 /\ Len(l) - n = last - i /\ \A k \in Nat : k + n = k + i + 1
    BY <1>4, <1>5
  <2>2. c \in Seq(Stored) /\ Len(c) = i /\ \A k \in 1 .. i : c[k] = l[k]
    BY <1>5, <2>1, FirstsIs
  <2> HIDE DEF n, c
  <2>3. /\ SubSeq(l, i + 2, Len(l)) \in Seq(Stored) /\ Len(SubSeq(l, i + 2, Len(l))) = Len(l) - n
        /\ \A k \in 1 .. Len(l) - n : SubSeq(l, i + 2, Len(l))[k] = l[k + n]
    BY <1>5, <2>1, RestIs
  <2>4. d \in Seq(Stored) /\ Len(d) = last - i /\ \A k \in 1 .. last - i : d[k] = l[k + i + 1]
    <3>1. \A k \in 1 .. last - i : k \in Nat
      OBVIOUS
    <3> QED BY <1>5, <2>1, <2>3, <3>1
  <2> HIDE DEF d
  <2>a. b = c \o d
    BY DEF b, c, d
  <2> HIDE DEF b
  <2>5. b \in Seq(Stored) /\ Len(b) = i + (last - i) /\ \A k \in 1 .. i + (last - i) : b[k] = IF k <= i THEN c[k] ELSE d[k - i]
    BY <2>a, <2>2, <2>4, BehindIs
  <2>6. i + (last - i) = last
    BY <1>4
  <2>7. ASSUME NEW k \in 1 .. last PROVE b[k] = At(g, k - 1)
    <3>1. k - 1 \in Nat /\ k - 1 < last /\ (k - 1 >= i <=> ~(k <= i)) /\ (k - 1) + 1 = k /\ k \in 1 .. z
      BY <1>4, <2>7
    <3>2. At(g, k - 1) = IF k <= i THEN At(m, k - 1) ELSE At(m, k)
      BY <1>9, <3>1
    <3>3. CASE k <= i
      <4>1. k \in 1 .. i
        BY <2>7, <3>3
      <4> QED BY <1>5, <2>2, <2>5, <2>6, <3>1, <3>2, <3>3, <4>1
    <3>4. CASE ~(k <= i)
      <4>1. k - i \in 1 .. last - i /\ (k - i) + i + 1 = k + 1 /\ k + 1 \in 1 .. z /\ (k + 1) - 1 = k
        BY <1>4, <2>7, <3>4
      <4>2. b[k] = d[k - i] /\ d[k - i] = l[k + 1] /\ l[k + 1] = At(m, k)
        <5>1. b[k] = d[k - i]
          BY <2>5, <2>6, <3>4
        <5>2. d[k - i] = l[k + 1]
          BY <2>4, <4>1
        <5>3. l[k + 1] = At(m, (k + 1) - 1)
          BY <1>5, <4>1
        <5> QED BY <4>1, <5>1, <5>2, <5>3
      <4> QED BY <3>2, <3>4, <4>2
    <3> QED BY <3>3, <3>4
  <2> QED BY <2>5, <2>6, <2>7
<1>12. ASSUME ~past PROVE NoHoles(g) /\ size(Array(g)) = last
  <2>1. DOMAIN m = 0 .. z - 1
    BY <1>1, <1>12 DEF NoHoles, z
  <2>2. DOMAIN g = 0 .. last - 1
    BY <1>4, <1>7, <2>1
  <2>3. g \in [DOMAIN g -> Stored] /\ DOMAIN g \subseteq Nat
    BY <1>8
  <2> HIDE DEF g
  <2>4. (\A k \in DOMAIN g : k < last) /\ (last > 0 => last - 1 \in DOMAIN g)
    BY <1>4, <2>2
  <2>5. size(Array(g)) = last
    BY <1>4, <2>3, <2>4, SizeIs
  <2> QED BY <2>2, <2>5 DEF NoHoles
<1> HIDE DEF g, b
<1>13. ValueInv' /\ Dense' = Told(g)
  <2>1. past' \in BOOLEAN /\ (~past' => ~threw' /\ NoHoles(g))
    BY <1>3, <1>12 DEF ValueInv
  <2> QED BY <1>3, <1>10, <2>1, Becomes
<1>14. A!Shorter(b)
  <2>1. past \/ size(Array(g)) = last
    BY <1>12
  <2> QED BY <1>10, <1>11, <1>13, <2>1, ShorterIs
<1>15. i < Len(Dense) /\ b = SubSeq(Dense, 1, i) \o SubSeq(Dense, i + 2, Len(Dense))
  BY <1>1, <1>4, <1>5 DEF b, l
<1> QED BY <1>13, <1>14, <1>15 DEF A!Remove


\* Putting a value at a place: what was there and after it is moved down by one.
LEMMA InsertStep ==
    ASSUME ValueInv, NEW i \in Nat, NEW x \in Stored, insert(i, x)
    PROVE  A!Insert(i, x) /\ ValueInv'
<1>1. PICK m : /\ IsMap(m) /\ Keys(val) = DOMAIN m /\ size(val) = size(Array(m)) /\ Dense = Told(m)
               /\ (\A P : resolve(val, P) = Array(Filled(m, P))) /\ (~past => NoHoles(m))
  BY TheMembers
<1> DEFINE z == size(Array(m))
           l == Told(m)
           n == z + 1
           P == {i} \cup i .. z
           f == Filled(m, P)
           g == [k \in DOMAIN f |-> IF k = i THEN x ELSE IF k > i THEN f[k - 1] ELSE f[k]]
           b == SubSeq(l, 1, i) \o <<x>> \o SubSeq(l, i + 1, z)
<1>2. z \in Nat /\ (\A k \in DOMAIN m : k < z) /\ DOMAIN m \subseteq Nat /\ n \in Nat /\ n > z
  BY <1>1, SizeOfMap DEF IsMap
<1>3. val' = Array(g) /\ past' = past /\ threw' = FALSE /\ i <= z
  <2>1. resolve(val, {i} \cup i .. size(val)) = Array(f) /\ i <= size(val) /\ size(val) = z
    BY <1>1 DEF insert, CanInsert
  <2> HIDE DEF f, z
  <2>2. Keys(Array(f)) = DOMAIN f /\ Array(f).map = f
    BY DEF Keys, Array
  <2> QED BY <2>1, <2>2 DEF insert
<1>4. l \in Seq(Stored) /\ Len(l) = z /\ \A k \in 1 .. z : l[k] = At(m, k - 1)
  BY <1>1, ToldIs
<1> HIDE DEF l
<1>5. P \in SUBSET Nat /\ (\A k \in P : k < n) /\ n - 1 \in P /\ P = i .. z
  BY <1>2, <1>3
<1>6. IsMap(f) /\ DOMAIN f = DOMAIN m \cup P /\ size(Array(f)) = n /\ \A k \in DOMAIN f : f[k] = At(m, k)
  <2> HIDE DEF P, n
  <2> QED BY <1>1, <1>2, <1>5, FilledIs
<1> HIDE DEF z, n
<1>7. ASSUME NEW k \in DOMAIN g PROVE k \in Nat /\ k < n /\ g[k] \in Stored /\ g[k] = IF k = i THEN x ELSE IF k > i THEN At(m, k - 1) ELSE At(m, k)
  <2>1. k \in Nat /\ k < n
    BY <1>2, <1>5, <1>6 DEF n
  <2>2. k > i => k - 1 \in DOMAIN f
    BY <1>2, <1>5, <1>6, <2>1 DEF n
  <2>3. f \in [DOMAIN f -> Stored] /\ k \in DOMAIN f
    BY <1>6 DEF IsMap
  <2> HIDE DEF f
  <2> QED BY <1>6, <2>1, <2>2, <2>3
<1>8. ASSUME NEW k \in Nat, k < n PROVE At(g, k) = IF k = i THEN x ELSE IF k > i THEN At(m, k - 1) ELSE At(m, k)
  <2>1. k >= i => k \in P
    BY <1>2, <1>5, <1>8 DEF n
  <2>2. ~(k >= i) => ~(k \in P) /\ ~(k = i) /\ ~(k > i)
    BY <1>2, <1>5, <1>8
  <2>3. DOMAIN g = DOMAIN m \cup P /\ (k = i => k >= i) /\ (k > i => k >= i)
    BY <1>2, <1>6, <1>8
  <2> HIDE DEF g, P
  <2> QED BY <1>7, <2>1, <2>2, <2>3 DEF At
<1>9. IsMap(g) /\ size(Array(g)) = n
  <2>1. DOMAIN g \subseteq Nat /\ g \in [DOMAIN g -> Stored] /\ (\A k \in DOMAIN g : k < n) /\ n - 1 \in DOMAIN g
    BY <1>5, <1>6, <1>7
  <2> HIDE DEF g
  <2> QED BY <1>2, <2>1, SizeIs
<1>10. b \in Seq(Stored) /\ Len(b) = n /\ \A k \in 1 .. n : b[k] = At(g, k - 1)
  <2> DEFINE c == SubSeq(l, 1, i)
             o == <<x>>
             co == c \o o
             d == SubSeq(l, i + 1, z)
  <2>1. c \in Seq(Stored) /\ Len(c) = i /\ \A k \in 1 .. i : c[k] = l[k]
    BY <1>3, <1>4, FirstsIs
  <2>2. o \in Seq(Stored) /\ Len(o) = 1 /\ o[1] = x
    BY SeqDef
  <2>5. b = co \o d
    BY DEF b
  <2>9. co = c \o o
    OBVIOUS
  <2> HIDE DEF c, o, b, co
  <2>a. co \in Seq(Stored) /\ Len(co) = Len(c) + Len(o) /\ \A k \in 1 .. Len(c) + Len(o) : co[k] = IF k <= Len(c) THEN c[k] ELSE o[k - Len(c)]
    BY <2>1, <2>2, <2>9, BehindIs
  <2>3. co \in Seq(Stored) /\ Len(co) = i + 1 /\ \A k \in 1 .. i + 1 : co[k] = IF k <= i THEN c[k] ELSE o[k - i]
    BY <2>1, <2>2, <2>a
  <2>4. d \in Seq(Stored) /\ Len(d) = z - i /\ \A k \in 1 .. z - i : d[k] = l[k + i]
    BY <1>3, <1>4, RestIs
  <2> HIDE DEF d
  <2>b. b \in Seq(Stored) /\ Len(b) = Len(co) + Len(d) /\ \A k \in 1 .. Len(co) + Len(d) : b[k] = IF k <= Len(co) THEN co[k] ELSE d[k - Len(co)]
    BY <2>3, <2>4, <2>5, BehindIs
  <2>6. b \in Seq(Stored) /\ Len(b) = (i + 1) + (z - i) /\ \A k \in 1 .. (i + 1) + (z - i) : b[k] = IF k <= i + 1 THEN co[k] ELSE d[k - (i + 1)]
    BY <2>3, <2>4, <2>b
  <2>7. (i + 1) + (z - i) = n
    BY <1>2, <1>3 DEF n
  <2>8. ASSUME NEW k \in 1 .. n PROVE b[k] = At(g, k - 1)
    <3>0. k - 1 \in Nat /\ k - 1 < n
      BY <1>2, <2>8
    <3>1. At(g, k - 1) = IF k - 1 = i THEN x ELSE IF k - 1 > i THEN At(m, (k - 1) - 1) ELSE At(m, k - 1)
      BY <1>8, <3>0
    <3>2. CASE k <= i
      <4>1. ~(k - 1 = i) /\ ~(k - 1 > i) /\ k <= i + 1 /\ k \in 1 .. i /\ k \in 1 .. i + 1 /\ k \in 1 .. z
        BY <1>2, <1>3, <2>8, <3>2
      <4> QED BY <1>4, <2>1, <2>3, <2>6, <2>7, <3>1, <3>2, <4>1
    <3>3. CASE k = i + 1
      <4>1. k - 1 = i /\ ~(k <= i) /\ k <= i + 1 /\ k \in 1 .. i + 1 /\ k - i = 1
        BY <3>3
      <4> QED BY <2>2, <2>3, <2>6, <2>7, <3>1, <4>1
    <3>4. CASE k > i + 1
      <4>1. ~(k - 1 = i) /\ k - 1 > i /\ ~(k <= i + 1)
        BY <2>8, <3>4
      <4>2. k - (i + 1) \in 1 .. z - i /\ (k - (i + 1)) + i = k - 1 /\ k - 1 \in 1 .. z
        BY <1>2, <1>3, <2>8, <3>4 DEF n
      <4>3. b[k] = d[k - (i + 1)]
        BY <2>6, <2>7, <4>1
      <4>4. d[k - (i + 1)] = l[k - 1]
        BY <2>4, <4>2
      <4>5. l[k - 1] = At(m, (k - 1) - 1)
        BY <1>4, <4>2
      <4> QED BY <3>1, <4>1, <4>3, <4>4, <4>5
    <3>5. k <= i \/ k = i + 1 \/ k > i + 1
      BY <2>8
    <3> QED BY <3>2, <3>3, <3>4, <3>5
  <2> QED BY <2>6, <2>7, <2>8
<1>11. Told(g) = b
  <2> HIDE DEF g, b
  <2> QED BY <1>9, <1>10, ToldAs
<1>12. ASSUME ~past PROVE NoHoles(g)
  <2>1. DOMAIN m = 0 .. z - 1
    BY <1>1, <1>12 DEF NoHoles, z
  <2>2. DOMAIN g = 0 .. n - 1
    <3>1. DOMAIN g = (0 .. z - 1) \cup (i .. z)
      BY <1>5, <1>6, <2>1
    <3>2. n - 1 = z /\ (0 .. z - 1) \cup (i .. z) = 0 .. z
      BY <1>2, <1>3 DEF n
    <3> QED BY <3>1, <3>2
  <2> HIDE DEF g
  <2> QED BY <1>9, <2>2 DEF NoHoles
<1> HIDE DEF g, b
<1>13. ValueInv' /\ Dense' = Told(g)
  <2>1. past' \in BOOLEAN /\ (~past' => ~threw' /\ NoHoles(g))
    BY <1>3, <1>12 DEF ValueInv
  <2> QED BY <1>3, <1>9, <2>1, Becomes
<1>14. i <= Len(Dense) /\ b = SubSeq(Dense, 1, i) \o <<x>> \o SubSeq(Dense, i + 1, Len(Dense))
  BY <1>1, <1>3, <1>4 DEF b, l
<1> QED BY <1>11, <1>13, <1>14 DEF A!Insert

\* The array without members.
LEMMA EmptyIs == IsMap(Empty) /\ size(Array(Empty)) = 0 /\ NoHoles(Empty) /\ Told(Empty) = <<>>
<1> DEFINE n == 0
<1>1. n \in Nat /\ ~(n > 0) /\ (\A k \in DOMAIN Empty : k < n) /\ DOMAIN Empty \subseteq Nat
      /\ Empty \in [DOMAIN Empty -> Stored] /\ DOMAIN Empty = {}
  BY DEF Empty
<1> HIDE DEF n, Empty
<1>2. IsMap(Empty) /\ size(Array(Empty)) = n
  BY <1>1, SizeIs
<1>3. IsMap(Empty) /\ size(Array(Empty)) = 0
  BY <1>2 DEF n
<1> QED BY <1>1, <1>3 DEF NoHoles, Told

\* The first places of an array, none of them missing from its reader's view.
LEMMA FromNothing ==
    ASSUME ValueInv, Dense' = <<>>
    PROVE  A!Shrink(0) /\ ~(0 > Len(Dense))
<1>1. PICK m : IsMap(m) /\ Dense = Told(m)
  BY TheMembers
<1>2. Len(Dense) \in Nat /\ Dense \in Seq(Stored)
  BY <1>1, ToldIs, LenProperties
<1> DEFINE b == SubSeq(Dense, 1, 0)
<1>3. b = <<>>
  BY <1>2
<1>4. SubSeq(b, 1, 0) = <<>> /\ Len(b) = 0
  BY <1>3
<1>5. 0 \in 0 .. Len(b) /\ \A k \in 0 + 1 .. Len(b) : FALSE
  BY <1>4
<1> HIDE DEF b
<1>6. A!Shorter(b)
  BY <1>4, <1>5 DEF A!Shorter
<1> QED BY <1>2, <1>6 DEF A!Shrink, b

\* clear: null stays null, and an array loses its members.
LEMMA ClearStep ==
    ASSUME ValueInv, clear
    PROVE  A!Shrink(0) /\ ValueInv'
<1>1. CASE val.t = "null"
  <2>1. val = NullValue
    BY <1>1 DEF ValueInv, Array
  <2>2. val' = NullValue /\ ~past' /\ past' \in BOOLEAN /\ ~threw'
    BY <1>1, <2>1 DEF clear
  <2>3. ValueInv'
    BY <2>2 DEF ValueInv
  <2>4. size(NullValue) = 0
    BY DEF size, NullValue, Scalar
  <2>5. Dense' = <<>>
    BY <2>2, <2>4 DEF Dense
  <2> QED BY <2>3, <2>5, FromNothing
<1>2. CASE val.t # "null"
  <2>1. val' = Array(Empty) /\ ~past' /\ past' \in BOOLEAN /\ ~threw'
    BY <1>2 DEF clear
  <2>2. ValueInv' /\ Dense' = <<>>
    BY <2>1, EmptyIs, Becomes
  <2> QED BY <2>2, FromNothing
<1> QED BY <1>1, <1>2


\* resize: to nothing, up with nulls, or down, when the members past n are erased.
LEMMA ResizeStep ==
    ASSUME ValueInv, NEW n \in Nat, resize(n)
    PROVE  (IF n > Len(Dense) THEN A!Grow(n) ELSE A!Shrink(n)) /\ ValueInv'
<1>1. PICK m : /\ IsMap(m) /\ Keys(val) = DOMAIN m /\ size(val) = size(Array(m)) /\ Dense = Told(m)
               /\ (\A P : resolve(val, P) = Array(Filled(m, P))) /\ (~past => NoHoles(m))
               /\ (val.t = "array" => val = Array(m)) /\ (val.t # "array" => m = Empty)
  BY TheMembers
<1> DEFINE z == size(Array(m))
           l == Told(m)
<1>2. z \in Nat /\ (\A k \in DOMAIN m : k < z) /\ DOMAIN m \subseteq Nat
  BY <1>1, SizeOfMap DEF IsMap
<1>3. l \in Seq(Stored) /\ Len(l) = z /\ \A k \in 1 .. z : l[k] = At(m, k - 1)
  BY <1>1, ToldIs
<1>4. CASE n = 0
  <2>1. val' = Array(Empty) /\ ~past' /\ past' \in BOOLEAN /\ ~threw'
    BY <1>4 DEF resize
  <2>2. ValueInv' /\ Dense' = <<>>
    BY <2>1, EmptyIs, Becomes
  <2> QED BY <1>4, <2>2, FromNothing
<1>5. CASE n > z
  <2> DEFINE P == z .. n - 1
             f == Filled(m, P)
  <2>1. n # 0 /\ ~(n <= z)
    BY <1>2, <1>5
  <2>2. val' = Array(f) /\ threw' = FALSE /\ past' = (past /\ n # 0)
    <3> HIDE DEF f
    <3>1. resolve(val, size(val) .. n - 1) = Array(f)
      BY <1>1 DEF f
    <3> QED BY <1>1, <1>5, <2>1, <3>1 DEF resize
  <2>3. P \in SUBSET Nat /\ (\A k \in P : k < n) /\ n - 1 \in P
    BY <1>2, <1>5
  <2> HIDE DEF P
  <2>4. IsMap(f) /\ DOMAIN f = DOMAIN m \cup P /\ size(Array(f)) = IF n > z THEN n ELSE z
    BY <1>1, <2>3, FilledIs
  <2>5. Told(f) = IF n > Len(l) THEN l \o [k \in 1 .. n - Len(l) |-> NullValue] ELSE l
    BY <1>1, <2>3, GrownIs
  <2> HIDE DEF f
  <2>6. ASSUME ~past PROVE NoHoles(f)
    <3>1. DOMAIN m = 0 .. z - 1
      BY <1>1, <2>6 DEF NoHoles
    <3> HIDE DEF z
    <3>2. (0 .. z - 1) \cup (z .. n - 1) = 0 .. n - 1
      BY <1>2, <1>5
    <3> QED BY <1>5, <2>4, <3>1, <3>2 DEF NoHoles, P
  <2>7. past' \in BOOLEAN /\ (~past' => ~threw' /\ NoHoles(f))
    BY <2>1, <2>2, <2>6 DEF ValueInv
  <2>8. ValueInv' /\ Dense' = Told(f)
    BY <2>2, <2>4, <2>7, Becomes
  <2>9. n > Len(Dense) /\ n >= Len(Dense)
    BY <1>1, <1>2, <1>3, <1>5
  <2> QED BY <1>1, <2>5, <2>8, <2>9 DEF A!Grow, A!Padded, A!Nulls
<1>6. CASE n # 0 /\ ~(n > z)
  <2> DEFINE g == [k \in DOMAIN m \ (n .. z) |-> m[k]]
             y == size(Array(g))
             b == SubSeq(l, 1, n)
  <2>1. n <= z /\ z # 0 /\ z > 0
    BY <1>2, <1>6
  <2>2. val = Array(m)
    BY <1>1, <2>1 DEF size
  <2>3. val' = Array(g) /\ threw' = (y # n) /\ past' = past
    <3>1. val.map = m /\ size(val) = z /\ Keys(val) = DOMAIN m
      BY <1>1, <2>2 DEF Array
    <3>2. [k \in Keys(val) \ (n .. size(val)) |-> val.map[k]] = g
      BY <3>1
    <3> HIDE DEF g, z
    <3>3. val' = Array(g) /\ past' = (past /\ n # 0)
      BY <1>6, <3>1, <3>2 DEF resize
    <3>4. threw' = (size(Array(g)) # n)
      BY <1>6, <2>1, <3>1, <3>2 DEF resize
    <3> QED BY <1>6, <3>3, <3>4 DEF ValueInv
  <2>4. DOMAIN g = {k \in DOMAIN m : k < n}
    BY <1>2, <1>6
  <2>5. g \in [DOMAIN g -> Stored] /\ DOMAIN g \subseteq Nat /\ (\A k \in DOMAIN g : k < n) /\ \A k \in Nat : k < n => At(g, k) = At(m, k)
    BY <1>1, <1>2, <2>4 DEF IsMap, At
  <2> HIDE DEF g
  <2>6. IsMap(g)
    BY <2>5 DEF IsMap
  <2>7. y \in Nat /\ (y > 0 => y - 1 \in DOMAIN g)
    BY <2>6, SizeOfMap
  <2> HIDE DEF y
  <2>8. y <= n
    BY <2>5, <2>7
  <2>9. b \in Seq(Stored) /\ Len(b) = n /\ \A k \in 1 .. n : b[k] = l[k]
    BY <1>3, <2>1, FirstsIs
  <2> HIDE DEF z, b
  <2>10. ASSUME NEW k \in 1 .. Len(b) PROVE b[k] = At(g, k - 1)
    <3>1. k \in 1 .. n /\ k \in 1 .. z /\ k - 1 \in Nat /\ k - 1 < n
      BY <1>2, <2>1, <2>9
    <3> QED BY <1>3, <2>5, <2>9, <3>1
  <2>11. ASSUME ~past PROVE y = n /\ NoHoles(g)
    <3>1. DOMAIN m = 0 .. z - 1
      BY <1>1, <2>11 DEF NoHoles, z
    <3>2. DOMAIN g = 0 .. n - 1 /\ (n > 0 => n - 1 \in DOMAIN g)
      BY <1>2, <2>1, <2>4, <3>1
    <3>3. size(Array(g)) = n
      BY <2>5, <3>2, SizeIs
    <3> QED BY <3>2, <3>3 DEF NoHoles, y
  <2>12. past' \in BOOLEAN /\ (~past' => ~threw' /\ NoHoles(g))
    BY <2>3, <2>11 DEF ValueInv
  <2>13. ValueInv' /\ Dense' = Told(g)
    BY <2>3, <2>6, <2>12, Becomes
  <2>14. A!Shorter(b)
    <3>1. size(Array(g)) <= Len(b) /\ (past \/ size(Array(g)) = Len(b))
      BY <2>8, <2>9, <2>11 DEF y
    <3> QED BY <2>6, <2>9, <2>10, <2>13, <3>1, ShorterIs
  <2>15. n <= Len(Dense) /\ ~(n > Len(Dense)) /\ b = SubSeq(Dense, 1, n)
    BY <1>1, <1>2, <1>3, <2>1 DEF b, l
  <2> QED BY <2>13, <2>14, <2>15 DEF A!Shrink
<1> QED BY <1>4, <1>5, <1>6

\* The invariant is kept.
LEMMA ValueStart == ValueInit => ValueInv
BY DEF ValueInit, ValueInv

LEMMA ValueStep == ValueInv /\ [ValueNext]_vvars => ValueInv'
<1> SUFFICES ASSUME ValueInv, [ValueNext]_vvars PROVE ValueInv'
  OBVIOUS
<1>0. 0 .. MaxSize - 1 \subseteq Nat /\ 0 .. MaxSize \subseteq Nat
  BY ValueAssumption
<1>1. ASSUME NEW i \in 0 .. MaxSize - 1, NEW x \in Stored, Set(i, x) PROVE ValueInv'
  BY <1>0, <1>1, SetStep
<1>2. ASSUME NEW i \in 0 .. MaxSize - 1, NEW x \in Stored, insert(i, x) PROVE ValueInv'
  BY <1>0, <1>2, InsertStep
<1>3. ASSUME NEW i \in 0 .. MaxSize - 1, Read(i) PROVE ValueInv'
  BY <1>0, <1>3, ReadStep
<1>4. ASSUME NEW i \in 0 .. MaxSize - 1, removeIndex(i) PROVE ValueInv'
  BY <1>0, <1>4, RemoveStep
<1>5. ASSUME NEW x \in Stored, append(x) PROVE ValueInv'
  BY <1>5, AppendStep
<1>6. ASSUME NEW n \in 0 .. MaxSize, resize(n) PROVE ValueInv'
  BY <1>0, <1>6, ResizeStep
<1>7. CASE clear
  BY <1>7, ClearStep
<1>8. CASE UNCHANGED vvars
  <2>1. val' = val /\ past' = past /\ threw' = threw
    BY <1>8 DEF vvars
  <2> QED BY <2>1 DEF ValueInv, NoHoles, IsMap
<1> QED BY <1>1, <1>2, <1>3, <1>4, <1>5, <1>6, <1>7, <1>8 DEF ValueNext

\* Each operation of Json::Value does to what a reader of the array sees what the one of
\* JsonArray does, whatever places the map misses: resolve, append, insert, removeIndex,
\* resize, clear.
THEOREM ArrayRefines == ValueSpec => ArrayIsSequence
<1> DEFINE Does == \A i \in 0..MaxSize :
       /\ \A x \in Stored : (Set(i, x) => A!Put(i, x)) /\ (insert(i, x) => A!Insert(i, x)) /\ (append(x) => A!Put(Len(Dense), x))
       /\ Read(i) => A!Touch(i)
       /\ removeIndex(i) => A!Remove(i)
       /\ resize(i) => IF i > Len(Dense) THEN A!Grow(i) ELSE A!Shrink(i)
       /\ clear => A!Shrink(0)
<1>1. ASSUME ValueInv PROVE Does
  <2> SUFFICES ASSUME NEW i \in 0 .. MaxSize
               PROVE  /\ \A x \in Stored : (Set(i, x) => A!Put(i, x)) /\ (insert(i, x) => A!Insert(i, x)) /\ (append(x) => A!Put(Len(Dense), x))
                      /\ Read(i) => A!Touch(i)
                      /\ removeIndex(i) => A!Remove(i)
                      /\ resize(i) => IF i > Len(Dense) THEN A!Grow(i) ELSE A!Shrink(i)
                      /\ clear => A!Shrink(0)
    OBVIOUS
  <2>1. i \in Nat
    BY ValueAssumption
  <2>2. ASSUME NEW x \in Stored PROVE (Set(i, x) => A!Put(i, x)) /\ (insert(i, x) => A!Insert(i, x)) /\ (append(x) => A!Put(Len(Dense), x))
    BY <1>1, <2>1, SetStep, InsertStep, AppendStep
  <2>3. Read(i) => A!Touch(i)
    BY <1>1, <2>1, ReadStep
  <2>4. removeIndex(i) => A!Remove(i)
    BY <1>1, <2>1, RemoveStep
  <2>5. resize(i) => IF i > Len(Dense) THEN A!Grow(i) ELSE A!Shrink(i)
    BY <1>1, <2>1, ResizeStep
  <2>6. clear => A!Shrink(0)
    BY <1>1, ClearStep
  <2> QED BY <2>2, <2>3, <2>4, <2>5, <2>6
<1>2. ArrayIsSequence <=> [][Does]_vvars
  BY PTL DEF ArrayIsSequence
<1> HIDE DEF Does
<1> QED BY <1>1, <1>2, ValueStart, ValueStep, PTL DEF ValueSpec

\* An array used in order misses no place, and no assertion of resize fails on it.
THEOREM ArrayIsWhole == ValueSpec => []WholeWhenUsedInOrder
<1>1. ValueInv => WholeWhenUsedInOrder
  <2> SUFFICES ASSUME ValueInv, ~past PROVE ~threw /\ (val.t = "array" => Keys(val) = 0 .. size(val) - 1)
    BY DEF WholeWhenUsedInOrder
  <2>1. NullValue.t # "array"
    BY DEF NullValue, Scalar
  <2>2. CASE val = Array(val.map) /\ NoHoles(val.map)
    <3>1. size(Array(val.map)) = size(val)
      BY <2>2
    <3> QED BY <2>2, <3>1 DEF ValueInv, NoHoles, Keys
  <2> QED BY <2>1, <2>2 DEF ValueInv
<1> QED BY <1>1, ValueStart, ValueStep, PTL DEF ValueSpec

(***************************************************************************)
(* The comparisons of JsonValue are a total order on all values: strings by    *)
(* their first place that differs, members by theirs, anything else by type    *)
(* and number.  Strings and members are compared as functions on Nat.          *)
(***************************************************************************)
\* A strict total order R on V.
Orders(R, V) ==
    /\ \A x, y \in V : <<x, y>> \in R => x # y /\ <<y, x>> \notin R
    /\ \A x, y \in V : x = y \/ <<x, y>> \in R \/ <<y, x>> \in R
    /\ \A x, y, z \in V : <<x, y>> \in R /\ <<y, z>> \in R => <<x, z>> \in R

\* The order that the first place at which they differ gives two functions.
FirstLess(R, f, g) == \E k \in Nat : <<f[k], g[k]>> \in R /\ \A j \in Nat : j < k => f[j] = g[j]

LEMMA Least ==
    ASSUME NEW K \in SUBSET Nat, K # {}
    PROVE  \E k \in K : \A j \in Nat : j < k => j \notin K
<1> DEFINE S == {b \in Nat : \A k \in Nat : k <= b => k \notin K}
<1> SUFFICES ASSUME \A k \in K : \E j \in Nat : j < k /\ j \in K PROVE FALSE
  OBVIOUS
<1>1. 0 \in S
  <2> SUFFICES ASSUME 0 \in K PROVE FALSE
    OBVIOUS
  <2>1. PICK j \in Nat : j < 0
    OBVIOUS
  <2> QED BY <2>1
<1>2. ASSUME NEW b \in Nat, b \in S PROVE b + 1 \in S
  <2> SUFFICES ASSUME NEW k \in Nat, k <= b + 1, k \in K PROVE FALSE
    OBVIOUS
  <2>1. PICK j \in Nat : j < k /\ j \in K
    OBVIOUS
  <2>2. j <= b
    BY <2>1
  <2> QED BY <1>2, <2>1, <2>2
<1>3. Nat \subseteq S
  <2> HIDE DEF S
  <2> QED BY <1>1, <1>2, Induction
<1>4. \A k \in Nat : k <= k
  OBVIOUS
<1> QED BY <1>3, <1>4

LEMMA FirstLessOrders ==
    ASSUME NEW R, NEW V, Orders(R, V), NEW f \in [Nat -> V], NEW g \in [Nat -> V]
    PROVE  /\ FirstLess(R, f, g) => f # g /\ ~FirstLess(R, g, f)
           /\ f = g \/ FirstLess(R, f, g) \/ FirstLess(R, g, f)
<1> DEFINE K == {k \in Nat : f[k] # g[k]}
<1>1. ASSUME FirstLess(R, f, g) PROVE f # g /\ ~FirstLess(R, g, f)
  <2>1. PICK k \in Nat : <<f[k], g[k]>> \in R /\ \A j \in Nat : j < k => f[j] = g[j]
    BY <1>1 DEF FirstLess
  <2>2. f[k] \in V /\ g[k] \in V /\ f[k] # g[k] /\ <<g[k], f[k]>> \notin R
    BY <2>1 DEF Orders
  <2>3. ASSUME NEW i \in Nat, <<g[i], f[i]>> \in R, \A j \in Nat : j < i => g[j] = f[j] PROVE FALSE
    <3>1. g[i] # f[i]
      <4>1. g[i] \in V /\ f[i] \in V
        OBVIOUS
      <4> QED BY <2>3, <4>1 DEF Orders
    <3>2. ~(i < k) /\ ~(k < i) /\ i # k
      BY <2>1, <2>2, <2>3, <3>1
    <3> QED BY <3>2
  <2> QED BY <2>2, <2>3 DEF FirstLess
<1>2. ASSUME f # g PROVE FirstLess(R, f, g) \/ FirstLess(R, g, f)
  <2>1. K # {} /\ K \in SUBSET Nat
    BY <1>2
  <2>2. PICK k \in K : \A j \in Nat : j < k => j \notin K
    <3> HIDE DEF K
    <3> QED BY <2>1, Least
  <2>3. k \in Nat /\ f[k] # g[k] /\ f[k] \in V /\ g[k] \in V /\ \A j \in Nat : j < k => f[j] = g[j]
    BY <2>2
  <2>4. <<f[k], g[k]>> \in R \/ <<g[k], f[k]>> \in R
    BY <2>3 DEF Orders
  <2> QED BY <2>3, <2>4 DEF FirstLess
<1> QED BY <1>1, <1>2

LEMMA FirstLessTransitive ==
    ASSUME NEW R, NEW V, Orders(R, V), NEW f \in [Nat -> V], NEW g \in [Nat -> V], NEW h \in [Nat -> V],
           FirstLess(R, f, g), FirstLess(R, g, h)
    PROVE  FirstLess(R, f, h)
<1>1. PICK k \in Nat : <<f[k], g[k]>> \in R /\ \A j \in Nat : j < k => f[j] = g[j]
  BY DEF FirstLess
<1>2. PICK i \in Nat : <<g[i], h[i]>> \in R /\ \A j \in Nat : j < i => g[j] = h[j]
  BY DEF FirstLess
<1>3. CASE k < i
  <2>1. <<f[k], h[k]>> \in R /\ \A j \in Nat : j < k => f[j] = h[j]
    BY <1>1, <1>2, <1>3
  <2> QED BY <2>1 DEF FirstLess
<1>4. CASE i < k
  <2>1. <<f[i], h[i]>> \in R /\ \A j \in Nat : j < i => f[j] = h[j]
    BY <1>1, <1>2, <1>4
  <2> QED BY <2>1 DEF FirstLess
<1>5. CASE i = k
  <2>1. f[k] \in V /\ g[k] \in V /\ h[k] \in V
    OBVIOUS
  <2>2. <<f[k], h[k]>> \in R
    BY <1>1, <1>2, <1>5, <2>1 DEF Orders
  <2>3. \A j \in Nat : j < k => f[j] = h[j]
    BY <1>1, <1>2, <1>5
  <2> QED BY <2>2, <2>3 DEF FirstLess
<1> QED BY <1>3, <1>4, <1>5

\* A string as a function: its end is before every character.
Coded(s) == [k \in Nat |-> IF k \in 1 .. Len(s) THEN <<1, s[k]>> ELSE <<0, 0>>]
Code == {0, 1} \X Int
CodeBefore(c, d) == c[1] < d[1] \/ (c[1] = d[1] /\ c[2] < d[2])
CodeOrder == {p \in Code \X Code : CodeBefore(p[1], p[2])}

LEMMA CodesOrdered == Orders(CodeOrder, Code)
<1>1. \A x, y \in Code : <<x, y>> \in CodeOrder <=> CodeBefore(x, y)
  BY DEF CodeOrder
<1>2. \A x, y \in Code : CodeBefore(x, y) => x # y /\ ~CodeBefore(y, x)
  BY DEF Code, CodeBefore
<1>3. \A x, y \in Code : x = y \/ CodeBefore(x, y) \/ CodeBefore(y, x)
  BY DEF Code, CodeBefore
<1>4. \A x, y, z \in Code : CodeBefore(x, y) /\ CodeBefore(y, z) => CodeBefore(x, z)
  BY DEF Code, CodeBefore
<1> QED BY <1>1, <1>2, <1>3, <1>4 DEF Orders

LEMMA CodedIs ==
    ASSUME NEW s \in Seq(Int)
    PROVE  /\ Coded(s) \in [Nat -> Code] /\ Len(s) \in Nat
           /\ \A k \in 1 .. Len(s) : Coded(s)[k] = <<1, s[k]>> /\ s[k] \in Int
           /\ \A k \in Nat : k \notin 1 .. Len(s) => Coded(s)[k] = <<0, 0>>
<1>1. Len(s) \in Nat /\ \A k \in 1 .. Len(s) : s[k] \in Int
  BY LenProperties, ElementOfSeq
<1>2. \A k \in 1 .. Len(s) : k \in Nat
  OBVIOUS
<1> QED BY <1>1, <1>2 DEF Coded, Code

LEMMA CodedEqual ==
    ASSUME NEW s \in Seq(Int), NEW t \in Seq(Int), Coded(s) = Coded(t)
    PROVE  s = t
<1>1. ASSUME NEW k \in Nat PROVE k \in 1 .. Len(s) <=> k \in 1 .. Len(t)
  <2>1. <<1, s[k]>> # <<0, 0>> /\ <<1, t[k]>> # <<0, 0>>
    OBVIOUS
  <2> QED BY <2>1, CodedIs
<1>2. Len(s) = Len(t)
  <2>1. Len(s) \in Nat /\ Len(t) \in Nat
    BY CodedIs
  <2>2. ASSUME Len(s) < Len(t) PROVE FALSE
    BY <1>1, <2>1, <2>2
  <2>3. ASSUME Len(t) < Len(s) PROVE FALSE
    BY <1>1, <2>1, <2>3
  <2> QED BY <2>1, <2>2, <2>3
<1>3. ASSUME NEW k \in 1 .. Len(s) PROVE s[k] = t[k]
  <2>1. <<1, s[k]>> = <<1, t[k]>>
    BY <1>2, CodedIs
  <2> QED BY <2>1
<1> QED BY <1>2, <1>3, SeqEqual

LEMMA LessStringIs ==
    ASSUME NEW s \in Seq(Int), NEW t \in Seq(Int)
    PROVE  LessString(s, t) <=> FirstLess(CodeOrder, Coded(s), Coded(t))
<1> DEFINE a == Len(s)
           b == Len(t)
           f == Coded(s)
           g == Coded(t)
           n == IF a < b THEN a ELSE b
           diff == {i \in 1 .. n : s[i] # t[i]}
<1>1. a \in Nat /\ b \in Nat /\ f \in [Nat -> Code] /\ g \in [Nat -> Code]
  BY CodedIs
<1>2. \A k \in Nat : /\ k \in 1 .. a => f[k] = <<1, s[k]>> /\ s[k] \in Int
                     /\ k \notin 1 .. a => f[k] = <<0, 0>>
                     /\ k \in 1 .. b => g[k] = <<1, t[k]>> /\ t[k] \in Int
                     /\ k \notin 1 .. b => g[k] = <<0, 0>>
  BY CodedIs
<1>3. LessString(s, t) <=> IF diff = {} THEN a < b ELSE s[Min(diff)] < t[Min(diff)]
  BY DEF LessString
<1> HIDE DEF f, g, a, b
<1>4. \A k \in Nat : <<f[k], g[k]>> \in CodeOrder <=>
                       \/ k \in 1 .. b /\ k \notin 1 .. a
                       \/ k \in 1 .. a /\ k \in 1 .. b /\ s[k] < t[k]
  <2> SUFFICES ASSUME NEW k \in Nat
               PROVE  <<f[k], g[k]>> \in CodeOrder <=>
                        \/ k \in 1 .. b /\ k \notin 1 .. a
                        \/ k \in 1 .. a /\ k \in 1 .. b /\ s[k] < t[k]
    OBVIOUS
  <2>1. f[k] \in Code /\ g[k] \in Code
    BY <1>1
  <2>2. <<f[k], g[k]>> \in CodeOrder <=> CodeBefore(f[k], g[k])
    BY <2>1 DEF CodeOrder
  <2> QED BY <1>2, <2>2 DEF CodeBefore
<1>5. n \in Nat /\ n <= a /\ n <= b /\ (n = a \/ n = b)
  BY <1>1
<1>6. CASE diff = {}
  <2>1. \A i \in 1 .. n : s[i] = t[i]
    BY <1>6
  <2>2. ASSUME a < b PROVE FirstLess(CodeOrder, f, g)
    <3> DEFINE k == a + 1
    <3>1. k \in Nat /\ k \in 1 .. b /\ k \notin 1 .. a /\ n = a
      BY <1>1, <2>2
    <3>2. \A j \in Nat : j < k => (j \in 1 .. n /\ j \in 1 .. a /\ j \in 1 .. b) \/ (j \notin 1 .. a /\ j \notin 1 .. b)
      BY <1>1, <2>2
    <3> HIDE DEF k, n, diff
    <3>3. \A j \in Nat : j < k => f[j] = g[j]
      BY <1>2, <2>1, <3>2
    <3> QED BY <1>4, <3>1, <3>3 DEF FirstLess
  <2>3. ASSUME FirstLess(CodeOrder, f, g) PROVE a < b
    <3>1. PICK k \in Nat : <<f[k], g[k]>> \in CodeOrder
      BY <2>3 DEF FirstLess
    <3>2. CASE k \in 1 .. b /\ k \notin 1 .. a
      BY <1>1, <3>2
    <3>3. CASE k \in 1 .. a /\ k \in 1 .. b /\ s[k] < t[k]
      <4>1. k \in 1 .. n
        BY <1>1, <3>3
      <4>2. s[k] = t[k] /\ s[k] \in Int
        BY <1>2, <2>1, <3>3, <4>1
      <4> QED BY <3>3, <4>2
    <3> QED BY <1>4, <3>1, <3>2, <3>3
  <2> HIDE DEF n, diff
  <2> QED BY <1>3, <1>6, <2>2, <2>3 DEF f, g
<1>7. CASE diff # {}
  <2>0. diff \in SUBSET Nat
    BY <1>5
  <2>1. PICK k \in diff : \A j \in Nat : j < k => j \notin diff
    <3> HIDE DEF diff
    <3> QED BY <1>7, <2>0, Least
  <2>2. k \in Nat /\ k \in 1 .. n /\ s[k] # t[k] /\ \A j \in 1 .. n : j < k => s[j] = t[j]
    BY <1>5, <2>1
  <2>3. Min(diff) = k
    <3>1. \A j \in diff : k <= j
      BY <2>0, <2>1
    <3>2. Min(diff) \in diff /\ \A j \in diff : Min(diff) <= j
      <4> HIDE DEF diff
      <4> QED BY <2>1, <3>1 DEF Min
    <3>3. Min(diff) \in Nat /\ k <= Min(diff) /\ Min(diff) <= k
      BY <2>0, <2>1, <3>1, <3>2
    <3> HIDE DEF diff
    <3> QED BY <2>2, <3>3
  <2>4. k \in 1 .. a /\ k \in 1 .. b /\ s[k] \in Int /\ t[k] \in Int
    BY <1>1, <1>2, <1>5, <2>2
  <2>5. \A j \in Nat : j < k => (j \in 1 .. n /\ j \in 1 .. a /\ j \in 1 .. b) \/ (j \notin 1 .. a /\ j \notin 1 .. b)
    BY <1>1, <1>5, <2>2
  <2> HIDE DEF n, diff
  <2>6. \A j \in Nat : j < k => f[j] = g[j]
    BY <1>2, <2>2, <2>5
  <2>7. ASSUME s[k] < t[k] PROVE FirstLess(CodeOrder, f, g)
    BY <1>4, <2>2, <2>4, <2>6, <2>7 DEF FirstLess
  <2>8. ASSUME FirstLess(CodeOrder, f, g) PROVE s[k] < t[k]
    <3>1. PICK i \in Nat : <<f[i], g[i]>> \in CodeOrder /\ \A j \in Nat : j < i => f[j] = g[j]
      BY <2>8 DEF FirstLess
    <3>2. f[k] # g[k]
      <4>1. <<1, s[k]>> # <<1, t[k]>>
        BY <2>2
      <4> QED BY <1>2, <2>2, <2>4, <4>1
    <3>3. ~(k < i)
      BY <2>2, <3>1, <3>2
    <3>4. ~(i < k)
      <4> SUFFICES ASSUME i < k PROVE FALSE
        OBVIOUS
      <4>1. f[i] = g[i] /\ f[i] \in Code /\ g[i] \in Code
        BY <1>1, <2>6
      <4> QED BY <3>1, <4>1, CodesOrdered DEF Orders
    <3>5. i = k
      BY <2>2, <3>3, <3>4
    <3> QED BY <1>4, <2>4, <3>1, <3>5
  <2> QED BY <1>3, <1>7, <2>3, <2>7, <2>8 DEF f, g
<1> QED BY <1>6, <1>7 DEF f, g

\* operator< on strings.
LEMMA StringsOrdered ==
    ASSUME NEW s \in Seq(Int), NEW t \in Seq(Int), NEW r \in Seq(Int)
    PROVE  /\ LessString(s, t) => s # t /\ ~LessString(t, s)
           /\ s = t \/ LessString(s, t) \/ LessString(t, s)
           /\ LessString(s, t) /\ LessString(t, r) => LessString(s, r)
<1>1. Coded(s) \in [Nat -> Code] /\ Coded(t) \in [Nat -> Code] /\ Coded(r) \in [Nat -> Code]
  BY CodedIs
<1>2. /\ LessString(s, t) <=> FirstLess(CodeOrder, Coded(s), Coded(t))
      /\ LessString(t, s) <=> FirstLess(CodeOrder, Coded(t), Coded(s))
      /\ LessString(t, r) <=> FirstLess(CodeOrder, Coded(t), Coded(r))
      /\ LessString(s, r) <=> FirstLess(CodeOrder, Coded(s), Coded(r))
  BY LessStringIs
<1> DEFINE f == Coded(s)
           g == Coded(t)
           h == Coded(r)
<1>3. f = g => s = t
  BY CodedEqual
<1>4. s = t => f = g
  OBVIOUS
<1> HIDE DEF f, g, h
<1>5. /\ FirstLess(CodeOrder, f, g) => f # g /\ ~FirstLess(CodeOrder, g, f)
      /\ f = g \/ FirstLess(CodeOrder, f, g) \/ FirstLess(CodeOrder, g, f)
  BY <1>1, CodesOrdered, FirstLessOrders DEF f, g
<1>6. FirstLess(CodeOrder, f, g) /\ FirstLess(CodeOrder, g, h) => FirstLess(CodeOrder, f, h)
  BY <1>1, CodesOrdered, FirstLessTransitive DEF f, g, h
<1> QED BY <1>2, <1>3, <1>4, <1>5, <1>6 DEF f, g, h

\* Values without members, and maps of them.
ScalarTypes == {"null", "int", "uint", "real", "string", "boolean"}
Scalars == {v \in [t : ScalarTypes, h : Int, s : Seq(Int), map : {<<>>}] : IF v.t = "string" THEN v.h = 0 ELSE v.s = <<>>}
Maps == UNION {[D -> Scalars] : D \in {E \in SUBSET Nat : IsFiniteSet(E)}}
Jsons == Scalars \cup [t : {"array", "object"}, h : {0}, s : {<<>>}, map : Maps]

\* The types are in the order of the enumeration.
LEMMA TypesNumbered ==
    \A t \in ScalarTypes \cup {"array", "object"} : TypeNumber(t) \in 1 .. 8 /\ Types[TypeNumber(t)] = t
<1>1. DOMAIN Types = 1 .. 8
  BY DEF Types
<1>2. /\ Types[1] = "null" /\ Types[2] = "int" /\ Types[3] = "uint" /\ Types[4] = "real"
      /\ Types[5] = "string" /\ Types[6] = "boolean" /\ Types[7] = "array" /\ Types[8] = "object"
  BY DEF Types
<1> HIDE DEF Types
<1>3. ASSUME NEW t \in ScalarTypes \cup {"array", "object"} PROVE \E i \in 1 .. 8 : Types[i] = t
  BY <1>2 DEF ScalarTypes
<1> QED BY <1>1, <1>3 DEF TypeNumber

LEMMA ScalarsOrdered ==
    ASSUME NEW u \in Scalars, NEW v \in Scalars, NEW w \in Scalars
    PROVE  /\ LessScalar(u, v) => u # v /\ ~LessScalar(v, u)
           /\ u = v \/ LessScalar(u, v) \/ LessScalar(v, u)
           /\ LessScalar(u, v) /\ LessScalar(v, w) => LessScalar(u, w)
<1>1. \A x \in Scalars : /\ x = [t |-> x.t, h |-> x.h, s |-> x.s, map |-> <<>>]
                         /\ x.t \in ScalarTypes /\ x.h \in Int /\ x.s \in Seq(Int)
                         /\ IF x.t = "string" THEN x.h = 0 ELSE x.s = <<>>
  BY DEF Scalars
<1> DEFINE N(x) == TypeNumber(x.t)
<1>2. \A x, y \in Scalars : N(x) \in Int /\ (N(x) = N(y) => x.t = y.t)
  <2> TAKE x, y \in Scalars
  <2> DEFINE T == ScalarTypes \cup {"array", "object"}
  <2>1. x.t \in T /\ y.t \in T
    BY <1>1
  <2> HIDE DEF T
  <2>2. \A t \in T : TypeNumber(t) \in 1 .. 8 /\ Types[TypeNumber(t)] = t
    BY TypesNumbered DEF T
  <2>3. N(x) \in 1 .. 8 /\ Types[N(x)] = x.t /\ N(y) \in 1 .. 8 /\ Types[N(y)] = y.t
    BY <2>1, <2>2
  <2> HIDE DEF N
  <2> QED BY <2>3
<1>3. \A x, y \in Scalars : /\ x.t # y.t => (LessScalar(x, y) <=> N(x) < N(y))
                            /\ x.t = y.t /\ x.t = "string" => (LessScalar(x, y) <=> LessString(x.s, y.s))
                            /\ x.t = y.t /\ x.t # "string" => (LessScalar(x, y) <=> x.h < y.h)
  <2> TAKE x, y \in Scalars
  <2>1. ASSUME x.t # y.t PROVE LessScalar(x, y) <=> N(x) < N(y)
    BY <2>1 DEF LessScalar
  <2>2. ASSUME x.t = y.t, x.t = "string" PROVE LessScalar(x, y) <=> LessString(x.s, y.s)
    BY <2>2, Zenon DEF LessScalar
  <2>3. ASSUME x.t = y.t, x.t # "string" PROVE LessScalar(x, y) <=> x.h < y.h
    BY <2>3 DEF LessScalar
  <2> QED BY <2>1, <2>2, <2>3
<1>4. \A x, y \in Scalars : x.t = y.t /\ x.h = y.h /\ x.s = y.s => x = y
  BY <1>1
<1> HIDE DEF N
<1>5. LessScalar(u, v) => u # v /\ ~LessScalar(v, u)
  <2>1. CASE u.t # v.t
    BY <1>2, <1>3, <2>1
  <2>2. CASE u.t = v.t /\ u.t = "string"
    BY <1>1, <1>3, <2>2, StringsOrdered
  <2>3. CASE u.t = v.t /\ u.t # "string"
    BY <1>1, <1>3, <2>3
  <2> QED BY <2>1, <2>2, <2>3
<1>6. u = v \/ LessScalar(u, v) \/ LessScalar(v, u)
  <2>1. CASE u.t # v.t
    BY <1>2, <1>3, <2>1
  <2>2. CASE u.t = v.t /\ u.t = "string"
    <3>1. u.s = v.s \/ LessString(u.s, v.s) \/ LessString(v.s, u.s)
      BY <1>1, StringsOrdered
    <3>2. u.h = v.h
      BY <1>1, <2>2
    <3> QED BY <1>3, <1>4, <2>2, <3>1, <3>2
  <2>3. CASE u.t = v.t /\ u.t # "string"
    <3>1. u.s = v.s /\ u.h \in Int /\ v.h \in Int
      BY <1>1, <2>3
    <3>2. u.h = v.h \/ u.h < v.h \/ v.h < u.h
      BY <3>1
    <3> QED BY <1>3, <1>4, <2>3, <3>1, <3>2
  <2> QED BY <2>1, <2>2, <2>3
<1>7. ASSUME LessScalar(u, v), LessScalar(v, w) PROVE LessScalar(u, w)
  <2>1. CASE u.t = v.t /\ v.t = w.t /\ u.t = "string"
    <3>1. LessString(u.s, v.s) /\ LessString(v.s, w.s)
      BY <1>3, <1>7, <2>1
    <3>2. LessString(u.s, w.s)
      BY <1>1, <3>1, StringsOrdered
    <3> QED BY <1>3, <2>1, <3>2
  <2>2. CASE u.t = v.t /\ v.t = w.t /\ u.t # "string"
    <3>1. u.h < v.h /\ v.h < w.h
      BY <1>3, <1>7, <2>2
    <3>2. u.h < w.h
      BY <1>1, <3>1
    <3> QED BY <1>3, <2>2, <3>2
  <2>3. CASE ~(u.t = v.t /\ v.t = w.t)
    <3>1. u.t # v.t => N(u) < N(v)
      BY <1>3, <1>7
    <3>2. v.t # w.t => N(v) < N(w)
      BY <1>3, <1>7
    <3>3. (u.t = v.t => N(u) = N(v)) /\ (v.t = w.t => N(v) = N(w)) /\ (u.t = w.t => N(u) = N(w))
      BY DEF N
    <3>4. N(u) < N(w) /\ u.t # w.t
      BY <1>2, <2>3, <3>1, <3>2, <3>3
    <3> QED BY <1>3, <3>4
  <2> QED BY <2>1, <2>2, <2>3
<1> QED BY <1>5, <1>6, <1>7

\* A map as a function: a place it misses is after any value.
Placed(m) == [k \in Nat |-> IF k \in DOMAIN m THEN <<1, m[k]>> ELSE <<2, NullValue>>]
Places == ({1} \X Scalars) \cup {<<2, NullValue>>}
PlaceBefore(c, d) == c[1] < d[1] \/ (c[1] = 1 /\ d[1] = 1 /\ LessScalar(c[2], d[2]))
PlaceOrder == {p \in Places \X Places : PlaceBefore(p[1], p[2])}

LEMMA PlacesOrdered == Orders(PlaceOrder, Places)
<1>1. \A x, y \in Places : <<x, y>> \in PlaceOrder <=> PlaceBefore(x, y)
  BY DEF PlaceOrder
<1>0. \A x \in Places : (x[1] = 1 /\ x[2] \in Scalars /\ x = <<1, x[2]>>) \/ (x[1] = 2 /\ x = <<2, NullValue>>)
  BY DEF Places
<1>2. \A x, y \in Places : PlaceBefore(x, y) => x # y /\ ~PlaceBefore(y, x)
  <2> TAKE x, y \in Places
  <2> HAVE PlaceBefore(x, y)
  <2>1. CASE x[1] = 1 /\ y[1] = 1
    <3>1. LessScalar(x[2], y[2]) /\ x[2] \in Scalars /\ y[2] \in Scalars
      BY <1>0, <2>1 DEF PlaceBefore
    <3>2. x[2] # y[2] /\ ~LessScalar(y[2], x[2])
      BY <3>1, ScalarsOrdered
    <3> QED BY <2>1, <3>2 DEF PlaceBefore
  <2>2. CASE ~(x[1] = 1 /\ y[1] = 1)
    <3>1. x[1] < y[1] /\ x[1] \in Int /\ y[1] \in Int
      BY <1>0, <2>2 DEF PlaceBefore
    <3> QED BY <2>2, <3>1 DEF PlaceBefore
  <2> QED BY <2>1, <2>2
<1>3. \A x, y \in Places : x = y \/ PlaceBefore(x, y) \/ PlaceBefore(y, x)
  <2> TAKE x, y \in Places
  <2>1. CASE x[1] = 1 /\ y[1] = 1
    <3>1. x[2] = y[2] \/ LessScalar(x[2], y[2]) \/ LessScalar(y[2], x[2])
      BY <1>0, <2>1, ScalarsOrdered
    <3> QED BY <1>0, <2>1, <3>1 DEF PlaceBefore
  <2>2. CASE ~(x[1] = 1 /\ y[1] = 1)
    BY <1>0, <2>2 DEF PlaceBefore
  <2> QED BY <2>1, <2>2
<1>4. \A x, y, z \in Places : PlaceBefore(x, y) /\ PlaceBefore(y, z) => PlaceBefore(x, z)
  <2> TAKE x, y, z \in Places
  <2> HAVE PlaceBefore(x, y) /\ PlaceBefore(y, z)
  <2>1. CASE x[1] = 1 /\ y[1] = 1 /\ z[1] = 1
    <3>1. LessScalar(x[2], y[2]) /\ LessScalar(y[2], z[2])
      BY <2>1 DEF PlaceBefore
    <3>2. LessScalar(x[2], z[2])
      BY <1>0, <2>1, <3>1, ScalarsOrdered
    <3> QED BY <2>1, <3>2 DEF PlaceBefore
  <2>2. CASE ~(x[1] = 1 /\ y[1] = 1 /\ z[1] = 1)
    <3>1. x[1] \in {1, 2} /\ y[1] \in {1, 2} /\ z[1] \in {1, 2}
      BY <1>0
    <3> QED BY <2>2, <3>1 DEF PlaceBefore
  <2> QED BY <2>1, <2>2
<1> QED BY <1>1, <1>2, <1>3, <1>4 DEF Orders

LEMMA MapsAre ==
    ASSUME NEW m \in Maps
    PROVE  /\ DOMAIN m \in SUBSET Nat /\ IsFiniteSet(DOMAIN m) /\ Cardinality(DOMAIN m) \in Nat
           /\ \A k \in DOMAIN m : m[k] \in Scalars
           /\ m = [k \in DOMAIN m |-> m[k]]
<1>1. PICK D \in SUBSET Nat : IsFiniteSet(D) /\ m \in [D -> Scalars]
  BY DEF Maps
<1>2. DOMAIN m = D
  BY <1>1
<1>3. Cardinality(D) \in Nat
  BY <1>1, FS_CardinalityType
<1> QED BY <1>1, <1>2, <1>3

LEMMA PlacedIs ==
    ASSUME NEW m \in Maps
    PROVE  /\ Placed(m) \in [Nat -> Places]
           /\ \A k \in Nat : Placed(m)[k] = IF k \in DOMAIN m THEN <<1, m[k]>> ELSE <<2, NullValue>>
<1>1. ASSUME NEW k \in Nat PROVE (IF k \in DOMAIN m THEN <<1, m[k]>> ELSE <<2, NullValue>>) \in Places
  BY MapsAre DEF Places
<1> QED BY <1>1 DEF Placed

LEMMA PlacedEqual ==
    ASSUME NEW m \in Maps, NEW n \in Maps, Placed(m) = Placed(n)
    PROVE  m = n
<1>1. ASSUME NEW k \in Nat
      PROVE  (k \in DOMAIN m <=> k \in DOMAIN n) /\ (k \in DOMAIN m => m[k] = n[k])
  <2>1. (IF k \in DOMAIN m THEN <<1, m[k]>> ELSE <<2, NullValue>>)
          = (IF k \in DOMAIN n THEN <<1, n[k]>> ELSE <<2, NullValue>>)
    <3>1. Placed(m)[k] = Placed(n)[k]
      OBVIOUS
    <3> QED BY <3>1, PlacedIs
  <2>2. <<1, m[k]>> # <<2, NullValue>> /\ <<1, n[k]>> # <<2, NullValue>>
    OBVIOUS
  <2>3. <<1, m[k]>> = <<1, n[k]>> => m[k] = n[k]
    OBVIOUS
  <2> QED BY <2>1, <2>2, <2>3
<1>2. DOMAIN m = DOMAIN n
  BY <1>1, MapsAre
<1>3. \A k \in DOMAIN m : m[k] = n[k]
  BY <1>1, MapsAre
<1>4. m = [k \in DOMAIN m |-> m[k]] /\ n = [k \in DOMAIN n |-> n[k]]
  BY MapsAre
<1> QED BY <1>2, <1>3, <1>4

LEMMA LessMapIs ==
    ASSUME NEW m \in Maps, NEW n \in Maps, Cardinality(DOMAIN m) = Cardinality(DOMAIN n)
    PROVE  LessMap(m, n) <=> FirstLess(PlaceOrder, Placed(m), Placed(n))
<1> DEFINE f == Placed(m)
           g == Placed(n)
           same(k) == k \in DOMAIN m \cap DOMAIN n /\ ~LessScalar(m[k], n[k]) /\ ~LessScalar(n[k], m[k])
           first(k) == (k \in DOMAIN n => LessScalar(m[k], n[k])) /\ (\A j \in DOMAIN m \cup DOMAIN n : j < k => same(j))
<1>0. LessMap(m, n) <=> \E k \in DOMAIN m : first(k)
  BY Zenon DEF LessMap
<1>1. \A k \in Nat : /\ f[k] = (IF k \in DOMAIN m THEN <<1, m[k]>> ELSE <<2, NullValue>>) /\ f[k] \in Places
                     /\ g[k] = (IF k \in DOMAIN n THEN <<1, n[k]>> ELSE <<2, NullValue>>) /\ g[k] \in Places
  BY PlacedIs
<1>2. /\ DOMAIN m \in SUBSET Nat /\ \A k \in DOMAIN m : m[k] \in Scalars
      /\ DOMAIN n \in SUBSET Nat /\ \A k \in DOMAIN n : n[k] \in Scalars
  BY MapsAre
<1>3. \A k \in DOMAIN m \cap DOMAIN n : same(k) <=> m[k] = n[k]
  <2> TAKE k \in DOMAIN m \cap DOMAIN n
  <2>1. m[k] \in Scalars /\ n[k] \in Scalars
    BY <1>2
  <2>2. /\ LessScalar(m[k], n[k]) => m[k] # n[k]
        /\ LessScalar(n[k], m[k]) => n[k] # m[k]
        /\ m[k] = n[k] \/ LessScalar(m[k], n[k]) \/ LessScalar(n[k], m[k])
    BY <2>1, ScalarsOrdered
  <2> QED BY <2>2
<1> HIDE DEF f, g
<1>4. \A k \in Nat : f[k] = g[k] <=> (k \in DOMAIN m \cup DOMAIN n => same(k))
  <2> TAKE k \in Nat
  <2>1. <<1, m[k]>> # <<2, NullValue>> /\ <<1, n[k]>> # <<2, NullValue>>
    OBVIOUS
  <2>2. <<1, m[k]>> = <<1, n[k]>> <=> m[k] = n[k]
    OBVIOUS
  <2>3. k \notin DOMAIN m \cap DOMAIN n => ~same(k)
    OBVIOUS
  <2> HIDE DEF same
  <2> QED BY <1>1, <1>3, <2>1, <2>2, <2>3
<1>5. \A k \in Nat : <<f[k], g[k]>> \in PlaceOrder <=> k \in DOMAIN m /\ (k \in DOMAIN n => LessScalar(m[k], n[k]))
  <2> TAKE k \in Nat
  <2>1. <<f[k], g[k]>> \in PlaceOrder <=> PlaceBefore(f[k], g[k])
    BY <1>1 DEF PlaceOrder
  <2>2. CASE k \in DOMAIN m
    <3>1. f[k] = <<1, m[k]>>
      BY <1>1, <2>2
    <3>2. CASE k \in DOMAIN n
      <4>1. g[k] = <<1, n[k]>>
        BY <1>1, <3>2
      <4> QED BY <2>1, <2>2, <3>1, <3>2, <4>1 DEF PlaceBefore
    <3>3. CASE k \notin DOMAIN n
      <4>1. g[k] = <<2, NullValue>>
        BY <1>1, <3>3
      <4> QED BY <2>1, <2>2, <3>1, <3>3, <4>1 DEF PlaceBefore
    <3> QED BY <3>2, <3>3
  <2>3. CASE k \notin DOMAIN m
    <3>1. f[k] = <<2, NullValue>>
      BY <1>1, <2>3
    <3>2. CASE k \in DOMAIN n
      <4>1. g[k] = <<1, n[k]>>
        BY <1>1, <3>2
      <4> QED BY <2>1, <2>3, <3>1, <4>1 DEF PlaceBefore
    <3>3. CASE k \notin DOMAIN n
      <4>1. g[k] = <<2, NullValue>>
        BY <1>1, <3>3
      <4> QED BY <2>1, <2>3, <3>1, <4>1 DEF PlaceBefore
    <3> QED BY <3>2, <3>3
  <2> QED BY <2>2, <2>3
<1> HIDE DEF same
<1>6. \A k \in Nat : (\A j \in Nat : j < k => f[j] = g[j]) <=> (\A j \in DOMAIN m \cup DOMAIN n : j < k => same(j))
  BY <1>2, <1>4
<1>7. \A k \in Nat : k \in DOMAIN m /\ first(k) <=> <<f[k], g[k]>> \in PlaceOrder /\ (\A j \in Nat : j < k => f[j] = g[j])
  BY <1>5, <1>6
<1> HIDE DEF first
<1> QED BY <1>0, <1>2, <1>7 DEF FirstLess, f, g

LEMMA MapsOrdered ==
    ASSUME NEW m \in Maps, NEW n \in Maps, NEW o \in Maps
    PROVE  /\ LessMap(m, n) => m # n /\ ~LessMap(n, m)
           /\ m = n \/ LessMap(m, n) \/ LessMap(n, m)
           /\ LessMap(m, n) /\ LessMap(n, o) => LessMap(m, o)
<1> DEFINE C(x) == Cardinality(DOMAIN x)
<1>1. \A x \in Maps : C(x) \in Nat
  BY MapsAre
<1>2. \A x, y \in Maps : C(x) # C(y) => (LessMap(x, y) <=> C(x) < C(y))
  BY DEF LessMap
<1>3. \A x, y \in Maps : C(x) = C(y) => (LessMap(x, y) <=> FirstLess(PlaceOrder, Placed(x), Placed(y)))
  BY LessMapIs
<1>4. \A x, y \in Maps : /\ FirstLess(PlaceOrder, Placed(x), Placed(y)) => Placed(x) # Placed(y) /\ ~FirstLess(PlaceOrder, Placed(y), Placed(x))
                         /\ Placed(x) = Placed(y) \/ FirstLess(PlaceOrder, Placed(x), Placed(y)) \/ FirstLess(PlaceOrder, Placed(y), Placed(x))
  <2> TAKE x, y \in Maps
  <2>1. Placed(x) \in [Nat -> Places] /\ Placed(y) \in [Nat -> Places]
    BY PlacedIs
  <2> QED BY <2>1, PlacesOrdered, FirstLessOrders
<1>5. \A x, y, z \in Maps : FirstLess(PlaceOrder, Placed(x), Placed(y)) /\ FirstLess(PlaceOrder, Placed(y), Placed(z))
                              => FirstLess(PlaceOrder, Placed(x), Placed(z))
  <2> TAKE x, y, z \in Maps
  <2>1. Placed(x) \in [Nat -> Places] /\ Placed(y) \in [Nat -> Places] /\ Placed(z) \in [Nat -> Places]
    BY PlacedIs
  <2> QED BY <2>1, PlacesOrdered, FirstLessTransitive
<1>6. \A x, y \in Maps : Placed(x) = Placed(y) => x = y
  BY PlacedEqual
<1>7. C(m) # C(n) => m # n
  OBVIOUS
<1> HIDE DEF C
<1>8. LessMap(m, n) => m # n /\ ~LessMap(n, m)
  <2>1. CASE C(m) # C(n)
    BY <1>1, <1>2, <1>7, <2>1
  <2>2. CASE C(m) = C(n)
    BY <1>3, <1>4, <2>2
  <2> QED BY <2>1, <2>2
<1>9. m = n \/ LessMap(m, n) \/ LessMap(n, m)
  <2>1. CASE C(m) # C(n)
    BY <1>1, <1>2, <2>1
  <2>2. CASE C(m) = C(n)
    BY <1>3, <1>4, <1>6, <2>2
  <2> QED BY <2>1, <2>2
<1>10. ASSUME LessMap(m, n), LessMap(n, o) PROVE LessMap(m, o)
  <2>1. CASE C(m) = C(n) /\ C(n) = C(o)
    BY <1>3, <1>5, <1>10, <2>1
  <2>2. CASE ~(C(m) = C(n) /\ C(n) = C(o))
    <3>1. (C(m) # C(n) => C(m) < C(n)) /\ (C(n) # C(o) => C(n) < C(o))
      BY <1>2, <1>10
    <3>2. C(m) < C(o) /\ C(m) # C(o)
      BY <1>1, <2>2, <3>1
    <3> QED BY <1>2, <3>2
  <2> QED BY <2>1, <2>2
<1> QED BY <1>8, <1>9, <1>10

LEMMA ValuesAre ==
    ASSUME NEW v \in Jsons
    PROVE  /\ v = [t |-> v.t, h |-> v.h, s |-> v.s, map |-> v.map]
           /\ v.t \in ScalarTypes \cup {"array", "object"}
           /\ v.t \in {"array", "object"} <=> v \notin Scalars
           /\ v.t \in {"array", "object"} => v.h = 0 /\ v.s = <<>> /\ v.map \in Maps
           /\ v \in Scalars => v.map = <<>> /\ (IF v.t = "string" THEN v.h = 0 ELSE v.s = <<>>)
<1>1. CASE v \in Scalars
  <2>1. /\ v = [t |-> v.t, h |-> v.h, s |-> v.s, map |-> v.map] /\ v.t \in ScalarTypes /\ v.map = <<>>
        /\ IF v.t = "string" THEN v.h = 0 ELSE v.s = <<>>
    BY <1>1 DEF Scalars
  <2>2. v.t \notin {"array", "object"}
    BY <2>1 DEF ScalarTypes
  <2> QED BY <1>1, <2>1, <2>2
<1>2. CASE v \in [t : {"array", "object"}, h : {0}, s : {<<>>}, map : Maps]
  <2>1. /\ v = [t |-> v.t, h |-> v.h, s |-> v.s, map |-> v.map] /\ v.t \in {"array", "object"}
        /\ v.h = 0 /\ v.s = <<>> /\ v.map \in Maps
    BY <1>2
  <2>2. v \notin Scalars
    BY <2>1 DEF Scalars, ScalarTypes
  <2> QED BY <2>1, <2>2
<1> QED BY <1>1, <1>2 DEF Jsons

LEMMA EqualIs ==
    ASSUME NEW v \in Jsons, NEW w \in Jsons
    PROVE  Equal(v, w) <=> v = w
<1>1. Equal(v, w) <=> /\ v.t = w.t
                      /\ IF v.t = "string" THEN v.s = w.s
                         ELSE IF v.t \in {"array", "object"}
                              THEN DOMAIN v.map = DOMAIN w.map /\ \A i \in DOMAIN v.map : v.map[i] = w.map[i]
                              ELSE v.h = w.h
  BY Zenon DEF Equal, Keys
<1>2. v.t = w.t /\ v.h = w.h /\ v.s = w.s /\ v.map = w.map => v = w
  BY ValuesAre
<1>3. CASE v.t = w.t /\ v.t \in {"array", "object"}
  <2>1. v.map \in Maps /\ w.map \in Maps /\ v.h = w.h /\ v.s = w.s /\ v.t # "string"
    BY <1>3, ValuesAre
  <2> DEFINE m == v.map
             n == w.map
  <2>2. m = [k \in DOMAIN m |-> m[k]] /\ n = [k \in DOMAIN n |-> n[k]]
    BY <2>1, MapsAre
  <2>3. (DOMAIN m = DOMAIN n /\ \A i \in DOMAIN m : m[i] = n[i]) <=> m = n
    <3> HIDE DEF m, n
    <3> QED BY <2>2
  <2> QED BY <1>1, <1>2, <1>3, <2>1, <2>3
<1>4. CASE v.t = w.t /\ v.t \notin {"array", "object"}
  <2>1. v.map = w.map /\ (v.t = "string" => v.h = w.h) /\ (v.t # "string" => v.s = w.s)
    BY <1>4, ValuesAre
  <2> QED BY <1>1, <1>2, <1>4, <2>1
<1>5. CASE v.t # w.t
  BY <1>1, <1>5
<1> QED BY <1>3, <1>4, <1>5

\* operator< on values.
LEMMA ValuesOrdered ==
    ASSUME NEW u \in Jsons, NEW v \in Jsons, NEW w \in Jsons
    PROVE  /\ Less(u, v) => u # v /\ ~Less(v, u)
           /\ u = v \/ Less(u, v) \/ Less(v, u)
           /\ Less(u, v) /\ Less(v, w) => Less(u, w)
<1> DEFINE N(x) == TypeNumber(x.t)
           T == ScalarTypes \cup {"array", "object"}
           Multi(x) == x.t \in {"array", "object"}
<1>1. \A x \in Jsons : /\ x.t \in T /\ (Multi(x) <=> x \notin Scalars) /\ (Multi(x) => x.map \in Maps)
  BY ValuesAre
<1>2. \A x, y \in Jsons : N(x) \in Int /\ (N(x) = N(y) <=> x.t = y.t)
  <2> TAKE x, y \in Jsons
  <2>1. x.t \in T /\ y.t \in T
    BY <1>1
  <2> HIDE DEF T
  <2>2. \A t \in T : TypeNumber(t) \in 1 .. 8 /\ Types[TypeNumber(t)] = t
    BY TypesNumbered DEF T
  <2>3. N(x) \in 1 .. 8 /\ Types[N(x)] = x.t /\ N(y) \in 1 .. 8 /\ Types[N(y)] = y.t
    BY <2>1, <2>2
  <2>4. x.t = y.t => N(x) = N(y)
    OBVIOUS
  <2> HIDE DEF N
  <2> QED BY <2>3, <2>4
<1>3. \A x, y \in Jsons : /\ x.t # y.t => (Less(x, y) <=> N(x) < N(y))
                          /\ x.t = y.t /\ Multi(x) => (Less(x, y) <=> LessMap(x.map, y.map))
                          /\ x.t = y.t /\ ~Multi(x) => (Less(x, y) <=> LessScalar(x, y))
  <2> TAKE x, y \in Jsons
  <2>1. ASSUME x.t # y.t PROVE Less(x, y) <=> N(x) < N(y)
    BY <2>1 DEF Less, LessScalar
  <2>2. ASSUME x.t = y.t, Multi(x) PROVE Less(x, y) <=> LessMap(x.map, y.map)
    BY <2>2, Zenon DEF Less
  <2>3. ASSUME x.t = y.t, ~Multi(x) PROVE Less(x, y) <=> LessScalar(x, y)
    BY <2>3, Zenon DEF Less
  <2> QED BY <2>1, <2>2, <2>3
<1>4. \A x, y \in Jsons : x.t = y.t /\ Multi(x) => (x = y <=> x.map = y.map)
  <2> TAKE x, y \in Jsons
  <2> HAVE x.t = y.t /\ Multi(x)
  <2>1. x.h = y.h /\ x.s = y.s
    BY ValuesAre
  <2> QED BY <2>1, ValuesAre
<1>5. \A x, y \in Jsons : x.t = y.t => (Multi(x) <=> Multi(y))
  OBVIOUS
<1>6. \A x, y \in Jsons : x.t # y.t => x # y
  OBVIOUS
<1> HIDE DEF N, T, Multi
<1>7. Less(u, v) => u # v /\ ~Less(v, u)
  <2>1. CASE u.t # v.t
    BY <1>2, <1>3, <1>6, <2>1
  <2>2. CASE u.t = v.t /\ Multi(u)
    <3>1. u.map \in Maps /\ v.map \in Maps
      BY <1>1, <1>5, <2>2
    <3>2. LessMap(u.map, v.map) => u.map # v.map /\ ~LessMap(v.map, u.map)
      BY <3>1, MapsOrdered
    <3> QED BY <1>3, <1>4, <1>5, <2>2, <3>2
  <2>3. CASE u.t = v.t /\ ~Multi(u)
    <3>1. u \in Scalars /\ v \in Scalars
      BY <1>1, <1>5, <2>3
    <3>2. LessScalar(u, v) => u # v /\ ~LessScalar(v, u)
      BY <3>1, ScalarsOrdered
    <3> QED BY <1>3, <1>5, <2>3, <3>2
  <2> QED BY <2>1, <2>2, <2>3
<1>8. u = v \/ Less(u, v) \/ Less(v, u)
  <2>1. CASE u.t # v.t
    BY <1>2, <1>3, <2>1
  <2>2. CASE u.t = v.t /\ Multi(u)
    <3>1. u.map \in Maps /\ v.map \in Maps
      BY <1>1, <1>5, <2>2
    <3>2. u.map = v.map \/ LessMap(u.map, v.map) \/ LessMap(v.map, u.map)
      BY <3>1, MapsOrdered
    <3> QED BY <1>3, <1>4, <1>5, <2>2, <3>2
  <2>3. CASE u.t = v.t /\ ~Multi(u)
    <3>1. u \in Scalars /\ v \in Scalars
      BY <1>1, <1>5, <2>3
    <3>2. u = v \/ LessScalar(u, v) \/ LessScalar(v, u)
      BY <3>1, ScalarsOrdered
    <3> QED BY <1>3, <1>5, <2>3, <3>2
  <2> QED BY <2>1, <2>2, <2>3
<1>9. ASSUME Less(u, v), Less(v, w) PROVE Less(u, w)
  <2>1. CASE u.t = v.t /\ v.t = w.t /\ Multi(u)
    <3>1. u.map \in Maps /\ v.map \in Maps /\ w.map \in Maps
      BY <1>1, <1>5, <2>1
    <3>2. LessMap(u.map, v.map) /\ LessMap(v.map, w.map)
      BY <1>3, <1>5, <1>9, <2>1
    <3>3. LessMap(u.map, w.map)
      BY <3>1, <3>2, MapsOrdered
    <3> QED BY <1>3, <2>1, <3>3
  <2>2. CASE u.t = v.t /\ v.t = w.t /\ ~Multi(u)
    <3>1. u \in Scalars /\ v \in Scalars /\ w \in Scalars
      BY <1>1, <1>5, <2>2
    <3>2. LessScalar(u, v) /\ LessScalar(v, w)
      BY <1>3, <1>5, <1>9, <2>2
    <3>3. LessScalar(u, w)
      BY <3>1, <3>2, ScalarsOrdered
    <3> QED BY <1>3, <2>2, <3>3
  <2>3. CASE ~(u.t = v.t /\ v.t = w.t)
    <3>1. (u.t # v.t => N(u) < N(v)) /\ (v.t # w.t => N(v) < N(w))
      BY <1>3, <1>9
    <3>2. N(u) < N(w) /\ u.t # w.t
      BY <1>2, <2>3, <3>1
    <3> QED BY <1>3, <3>2
  <2> QED BY <2>1, <2>2, <2>3
<1> QED BY <1>7, <1>8, <1>9

\* operator<, operator== and compare of Json::Value: of two values exactly one is
\* less or they are equal, compare tells which, and less is transitive, so that
\* values are in one order whatever their types, their strings and their members;
\* for arrays and objects whose members have no members of their own.
THEOREM ComparesAll == \A u, v, w \in Jsons : ComparesInOrder(u, v, w)
<1> SUFFICES ASSUME NEW u \in Jsons, NEW v \in Jsons, NEW w \in Jsons
             PROVE  ComparesInOrder(u, v, w)
  OBVIOUS
<1>1. /\ Less(u, v) => u # v /\ ~Less(v, u)
      /\ Less(v, u) => v # u /\ ~Less(u, v)
      /\ u = v \/ Less(u, v) \/ Less(v, u)
      /\ Less(u, v) /\ Less(v, w) => Less(u, w)
  <2>1. Less(v, u) => v # u /\ ~Less(u, v)
    BY ValuesOrdered
  <2> QED BY <2>1, ValuesOrdered
<1>2. Equal(u, v) <=> u = v
  BY EqualIs
<1> DEFINE S == {x \in {"<", "=", ">"} : CASE x = "<" -> Less(u, v) [] x = "=" -> Equal(u, v) [] OTHER -> Less(v, u)}
<1>3. Cardinality(S) = 1
  <2>1. \E x : S = {x}
    <3>1. ("<" \in S <=> Less(u, v)) /\ ("=" \in S <=> Equal(u, v)) /\ (">" \in S <=> Less(v, u))
      OBVIOUS
    <3>2. S \subseteq {"<", "=", ">"}
      OBVIOUS
    <3> HIDE DEF S
    <3>3. CASE u = v
      <4>1. S = {"="}
        BY <1>1, <1>2, <3>1, <3>2, <3>3
      <4> QED BY <4>1
    <3>4. CASE Less(u, v)
      <4>1. S = {"<"}
        BY <1>1, <1>2, <3>1, <3>2, <3>4
      <4> QED BY <4>1
    <3>5. CASE Less(v, u)
      <4>1. S = {">"}
        BY <1>1, <1>2, <3>1, <3>2, <3>5
      <4> QED BY <4>1
    <3> QED BY <1>1, <3>3, <3>4, <3>5
  <2> HIDE DEF S
  <2> QED BY <2>1, FS_Singleton
<1>4. compare(u, v) = -compare(v, u) /\ (compare(u, v) = 0 <=> Equal(u, v))
  <2>1. compare(u, v) = (IF Less(u, v) THEN -1 ELSE IF Less(v, u) THEN 1 ELSE 0)
    BY DEF compare
  <2>2. compare(v, u) = (IF Less(v, u) THEN -1 ELSE IF Less(u, v) THEN 1 ELSE 0)
    BY DEF compare
  <2> QED BY <1>1, <1>2, <2>1, <2>2
<1> QED BY <1>1, <1>3, <1>4 DEF ComparesInOrder

(***************************************************************************)
(* base64                                                                  *)
(***************************************************************************)
\* base64_encode writes these many characters for n bytes, before the padding.
Count(n) == (4 * n + 2) \div 3

\* The six bits of character k: a group of four characters stands for three bytes.
Bits(in, k) ==
    LET b == (3 * k) \div 4 IN
    CASE k % 4 = 0 -> ByteAt(in, b + 1) \div 4
      [] k % 4 = 1 -> 16 * (ByteAt(in, b + 1) % 4) + ByteAt(in, b + 2) \div 16
      [] k % 4 = 2 -> 4 * (ByteAt(in, b + 1) % 16) + ByteAt(in, b + 2) \div 64
      [] OTHER -> ByteAt(in, b + 1) % 64

LEMMA SplitNumber ==
    ASSUME NEW n \in Nat
    PROVE  /\ \E q \in Nat, r \in 0 .. 2 : n = 3 * q + r
           /\ \E q \in Nat, r \in 0 .. 3 : n = 4 * q + r
<1>1. n \div 3 \in Nat /\ n % 3 \in 0 .. 2 /\ n = 3 * (n \div 3) + (n % 3)
  OBVIOUS
<1>2. n \div 4 \in Nat /\ n % 4 \in 0 .. 3 /\ n = 4 * (n \div 4) + (n % 4)
  OBVIOUS
<1> QED BY <1>1, <1>2

LEMMA Counts ==
    ASSUME NEW n \in Nat
    PROVE  /\ Count(n) \in Nat /\ Padding(n) \in Seq(Int) /\ Len(Padding(n)) \in Nat
           /\ \A i \in 1 .. Len(Padding(n)) : Padding(n)[i] = Pad
           /\ Count(n) + Len(Padding(n)) = 4 * ((n + 2) \div 3)
           /\ (3 * Count(n)) \div 4 = n
<1>1. PICK q \in Nat, r \in 0 .. 2 : n = 3 * q + r
  BY SplitNumber
<1>2. n % 3 = r
  BY <1>1
<1>3. CASE r = 0
  <2>1. Padding(n) = <<>>
    BY <1>2, <1>3 DEF Padding
  <2>2. Padding(n) \in Seq(Int) /\ (\A i \in 1 .. Len(Padding(n)) : Padding(n)[i] = Pad) /\ Len(Padding(n)) = 0
    <3> DEFINE p == <<>>
    <3>1. p \in Seq(Int) /\ (\A i \in 1 .. Len(p) : p[i] = Pad) /\ Len(p) = 0
      BY DEF Pad
    <3> QED BY <2>1, <3>1
  <2>3. Count(n) = 4 * q + 0 /\ (n + 2) \div 3 = q + 0
    BY <1>1, <1>3 DEF Count
  <2>4. (3 * (4 * q + 0)) \div 4 = n /\ 4 * q + 0 \in Nat
    BY <1>1, <1>3
  <2> QED BY <2>2, <2>3, <2>4
<1>4. CASE r = 1
  <2>1. Padding(n) = <<Pad, Pad>>
    BY <1>2, <1>4 DEF Padding
  <2>2. Padding(n) \in Seq(Int) /\ (\A i \in 1 .. Len(Padding(n)) : Padding(n)[i] = Pad) /\ Len(Padding(n)) = 2
    <3> DEFINE p == <<Pad, Pad>>
    <3>1. p \in Seq(Int) /\ (\A i \in 1 .. Len(p) : p[i] = Pad) /\ Len(p) = 2
      BY DEF Pad
    <3> QED BY <2>1, <3>1
  <2>3. Count(n) = 4 * q + 2 /\ (n + 2) \div 3 = q + 1
    BY <1>1, <1>4 DEF Count
  <2>4. (3 * (4 * q + 2)) \div 4 = n /\ 4 * q + 2 \in Nat
    BY <1>1, <1>4
  <2> QED BY <2>2, <2>3, <2>4
<1>5. CASE r = 2
  <2>1. Padding(n) = <<Pad>>
    BY <1>2, <1>5 DEF Padding
  <2>2. Padding(n) \in Seq(Int) /\ (\A i \in 1 .. Len(Padding(n)) : Padding(n)[i] = Pad) /\ Len(Padding(n)) = 1
    <3> DEFINE p == <<Pad>>
    <3>1. p \in Seq(Int) /\ (\A i \in 1 .. Len(p) : p[i] = Pad) /\ Len(p) = 1
      BY DEF Pad
    <3> QED BY <2>1, <3>1
  <2>3. Count(n) = 4 * q + 3 /\ (n + 2) \div 3 = q + 1
    BY <1>1, <1>5 DEF Count
  <2>4. (3 * (4 * q + 3)) \div 4 = n /\ 4 * q + 3 \in Nat
    BY <1>1, <1>5
  <2> QED BY <2>2, <2>3, <2>4
<1> QED BY <1>3, <1>4, <1>5

LEMMA Encoded ==
    ASSUME NEW in \in Seq(0 .. 255)
    PROVE  /\ Len(in) \in Nat
           /\ base64_encode(in) = [k \in 1 .. Count(Len(in)) |-> Bits(in, k - 1)] \o Padding(Len(in))
<1>1. Len(in) \in Nat
  BY LenProperties
<1> QED BY <1>1 DEF base64_encode, Count, Bits

LEMMA BitsAre ==
    ASSUME NEW in \in Seq(0 .. 255), NEW q \in Nat
    PROVE  /\ \A i \in Int : ByteAt(in, i) \in 0 .. 255
           /\ Bits(in, 4 * q) = ByteAt(in, 3 * q + 1) \div 4
           /\ Bits(in, 4 * q + 1) = 16 * (ByteAt(in, 3 * q + 1) % 4) + ByteAt(in, 3 * q + 2) \div 16
           /\ Bits(in, 4 * q + 2) = 4 * (ByteAt(in, 3 * q + 2) % 16) + ByteAt(in, 3 * q + 3) \div 64
           /\ Bits(in, 4 * q + 3) = ByteAt(in, 3 * q + 3) % 64
<1>1. ASSUME NEW i \in Int PROVE ByteAt(in, i) \in 0 .. 255
  <2>1. i \in DOMAIN in => in[i] \in 0 .. 255
    BY LenProperties, ElementOfSeq
  <2> QED BY <2>1 DEF ByteAt
<1>2. /\ (4 * q) % 4 = 0 /\ (3 * (4 * q)) \div 4 = 3 * q
      /\ (4 * q + 1) % 4 = 1 /\ (3 * (4 * q + 1)) \div 4 = 3 * q
      /\ (4 * q + 2) % 4 = 2 /\ (3 * (4 * q + 2)) \div 4 = 3 * q + 1
      /\ (4 * q + 3) % 4 = 3 /\ (3 * (4 * q + 3)) \div 4 = 3 * q + 2
  OBVIOUS
<1>3. /\ 3 * q + 1 + 1 = 3 * q + 2 /\ 3 * q + 1 + 2 = 3 * q + 3 /\ 3 * q + 2 + 1 = 3 * q + 3
  OBVIOUS
<1>4. Bits(in, 4 * q) = ByteAt(in, 3 * q + 1) \div 4
  BY <1>2 DEF Bits
<1>5. Bits(in, 4 * q + 1) = 16 * (ByteAt(in, 3 * q + 1) % 4) + ByteAt(in, 3 * q + 2) \div 16
  BY <1>2 DEF Bits
<1>6. Bits(in, 4 * q + 2) = 4 * (ByteAt(in, 3 * q + 2) % 16) + ByteAt(in, 3 * q + 3) \div 64
  BY <1>2, <1>3 DEF Bits
<1>7. Bits(in, 4 * q + 3) = ByteAt(in, 3 * q + 3) % 64
  <2> DEFINE k == 4 * q + 3
             b == (3 * k) \div 4
  <2>1. k % 4 # 0 /\ k % 4 # 1 /\ k % 4 # 2 /\ b = 3 * q + 2 /\ b + 1 = 3 * q + 3
    BY <1>2
  <2>2. Bits(in, k) = ByteAt(in, b + 1) % 64
    BY <2>1, Zenon DEF Bits
  <2> QED BY <2>1, <2>2
<1> QED BY <1>1, <1>4, <1>5, <1>6, <1>7

LEMMA UpToPadIs ==
    ASSUME NEW s \in Seq(Int), NEW p \in 0 .. Len(s),
           \A i \in 1 .. p : s[i] # Pad, p = Len(s) \/ s[p + 1] = Pad
    PROVE  UpToPad(s) = SubSeq(s, 1, p)
<1> DEFINE I == {i \in 1 .. Len(s) : s[i] = Pad}
           m == IF I # {} THEN Min(I) ELSE 0
<1>1. UpToPad(s) = IF m = 0 THEN s ELSE SubSeq(s, 1, m - 1)
  BY DEF UpToPad, SelectInSeq
<1>2. Len(s) \in Nat
  BY LenProperties
<1>3. CASE p = Len(s)
  <2>1. I = {}
    BY <1>3
  <2>2. SubSeq(s, 1, p) = s
    BY <1>2, <1>3, SubSeqFull
  <2> QED BY <1>1, <2>1, <2>2
<1>4. CASE p # Len(s)
  <2>1. s[p + 1] = Pad /\ p + 1 \in 1 .. Len(s) /\ p + 1 \in I
    BY <1>2, <1>4
  <2>2. \A i \in I : i \in Int /\ p + 1 <= i
    BY <1>2
  <2>3. Min(I) \in I /\ \A i \in I : Min(I) <= i
    <3> HIDE DEF I
    <3> QED BY <2>1, <2>2 DEF Min
  <2>4. Min(I) = p + 1
    <3> HIDE DEF I
    <3>1. Min(I) \in Int /\ p + 1 <= Min(I) /\ Min(I) <= p + 1
      BY <2>1, <2>2, <2>3
    <3> QED BY <3>1
  <2>5. m = p + 1
    <3> HIDE DEF I
    <3> QED BY <2>1, <2>4
  <2> HIDE DEF m
  <2> QED BY <1>1, <2>5
<1> QED BY <1>3, <1>4

\* The text without its padding.
Sixes(in) == [k \in 1 .. Count(Len(in)) |-> Bits(in, k - 1)]

LEMMA BodyIs ==
    ASSUME NEW in \in Seq(0 .. 255)
    PROVE  /\ Sixes(in) \in Seq(Int) /\ Len(Sixes(in)) = Count(Len(in))
           /\ \A k \in 1 .. Count(Len(in)) : Sixes(in)[k] = Bits(in, k - 1) /\ Sixes(in)[k] \in 0 .. 63
<1>1. Count(Len(in)) \in Nat
  BY Counts, LenProperties
<1>2. ASSUME NEW k \in 1 .. Count(Len(in)) PROVE Bits(in, k - 1) \in 0 .. 63
  <2>1. k - 1 \in Nat
    BY <1>1
  <2>2. PICK q \in Nat, r \in 0 .. 3 : k - 1 = 4 * q + r
    BY <2>1, SplitNumber
  <2> DEFINE a == ByteAt(in, 3 * q + 1)
             b == ByteAt(in, 3 * q + 2)
             c == ByteAt(in, 3 * q + 3)
  <2>3. a \in 0 .. 255 /\ b \in 0 .. 255 /\ c \in 0 .. 255
    <3>1. 3 * q + 1 \in Int /\ 3 * q + 2 \in Int /\ 3 * q + 3 \in Int
      OBVIOUS
    <3>2. \A i \in Int : ByteAt(in, i) \in 0 .. 255
      BY BitsAre
    <3> QED BY <3>1, <3>2
  <2>4. /\ Bits(in, 4 * q) = a \div 4
        /\ Bits(in, 4 * q + 1) = 16 * (a % 4) + b \div 16
        /\ Bits(in, 4 * q + 2) = 4 * (b % 16) + c \div 64
        /\ Bits(in, 4 * q + 3) = c % 64
    BY BitsAre
  <2>5. k - 1 = 4 * q \/ k - 1 = 4 * q + 1 \/ k - 1 = 4 * q + 2 \/ k - 1 = 4 * q + 3
    BY <2>2
  <2> HIDE DEF a, b, c
  <2>6. a \div 4 \in 0 .. 63 /\ (16 * (a % 4) + b \div 16) \in 0 .. 63 /\ (4 * (b % 16) + c \div 64) \in 0 .. 63 /\ c % 64 \in 0 .. 63
    BY <2>3
  <2> QED BY <2>4, <2>5, <2>6
<1> DEFINE n == Count(Len(in))
           f == [k \in 1 .. n |-> Bits(in, k - 1)]
<1>3. f \in [1 .. n -> Int] /\ DOMAIN f = 1 .. n /\ \A k \in 1 .. n : f[k] = Bits(in, k - 1) /\ f[k] \in 0 .. 63
  BY <1>2
<1> HIDE DEF n, f
<1>4. n \in Nat
  BY <1>1 DEF n
<1>5. f \in Seq(Int) /\ Len(f) = n
  BY <1>3, <1>4
<1> QED BY <1>3, <1>5 DEF Sixes, n, f

\* The byte j of what the text s stands for.
Byte(s, j) ==
    LET k == j + (j \div 3) IN
    CASE j % 3 = 0 -> 4 * s[k + 1] + s[k + 2] \div 16
      [] j % 3 = 1 -> 16 * (s[k + 1] % 16) + s[k + 2] \div 4
      [] OTHER -> 64 * (s[k + 1] % 4) + s[k + 2]

LEMMA DecodedIs ==
    ASSUME NEW t
    PROVE  base64_decode(t) = IF Len(t) % 4 # 0 \/ Other \in ToSet(UpToPad(t)) THEN <<>>
                              ELSE [j \in 1 .. (3 * Len(UpToPad(t))) \div 4 |-> Byte(UpToPad(t), j - 1)]
BY Zenon DEF base64_decode, Byte

LEMMA ByteBack ==
    ASSUME NEW in \in Seq(0 .. 255), NEW j \in 1 .. Len(in)
    PROVE  Byte(Sixes(in), j - 1) = in[j]
<1> DEFINE n == Len(in)
           s == Sixes(in)
<1>1. n \in Nat /\ \A i \in 1 .. n : ByteAt(in, i) = in[i]
  BY LenProperties DEF ByteAt
<1>2. j - 1 \in Nat
  OBVIOUS
<1>3. PICK q \in Nat, r \in 0 .. 2 : j - 1 = 3 * q + r
  BY <1>2, SplitNumber
<1> DEFINE a == ByteAt(in, 3 * q + 1)
           b == ByteAt(in, 3 * q + 2)
           c == ByteAt(in, 3 * q + 3)
<1>4. a \in 0 .. 255 /\ b \in 0 .. 255 /\ c \in 0 .. 255
  <2>1. 3 * q + 1 \in Int /\ 3 * q + 2 \in Int /\ 3 * q + 3 \in Int
    OBVIOUS
  <2>2. \A i \in Int : ByteAt(in, i) \in 0 .. 255
    BY BitsAre
  <2> QED BY <2>1, <2>2
<1>5. /\ Bits(in, 4 * q) = a \div 4
      /\ Bits(in, 4 * q + 1) = 16 * (a % 4) + b \div 16
      /\ Bits(in, 4 * q + 2) = 4 * (b % 16) + c \div 64
      /\ Bits(in, 4 * q + 3) = c % 64
  BY BitsAre
<1>6. \A k \in 1 .. Count(n) : s[k] = Bits(in, k - 1)
  BY BodyIs
<1>7. Count(n) = (4 * n + 2) \div 3
  BY DEF Count
<1>8. 4 * q \in Nat /\ (4 * q + 1) - 1 = 4 * q /\ (4 * q + 2) - 1 = 4 * q + 1 /\ (4 * q + 3) - 1 = 4 * q + 2 /\ (4 * q + 4) - 1 = 4 * q + 3
  OBVIOUS
<1> DEFINE k == (j - 1) + ((j - 1) \div 3)
<1>9. CASE r = 0
  <2>1. (j - 1) % 3 = 0 /\ k = 4 * q /\ k + 1 = 4 * q + 1 /\ k + 2 = 4 * q + 2 /\ j = 3 * q + 1
    BY <1>3, <1>9
  <2>2. 4 * q + 1 \in 1 .. Count(n) /\ 4 * q + 2 \in 1 .. Count(n)
    BY <1>1, <1>7, <2>1
  <2>3. s[4 * q + 1] = a \div 4 /\ s[4 * q + 2] = 16 * (a % 4) + b \div 16
    BY <1>5, <1>6, <1>8, <2>2
  <2>4. Byte(s, j - 1) = 4 * s[k + 1] + s[k + 2] \div 16
    <3> HIDE DEF s
    <3>1. (j - 1) % 3 # 1
      BY <2>1
    <3> QED BY <2>1, <3>1, Zenon DEF Byte
  <2>5. in[j] = a
    BY <1>1, <2>1
  <2> HIDE DEF a, b, c, s, k
  <2>6. 4 * (a \div 4) + (16 * (a % 4) + b \div 16) \div 16 = a
    BY <1>4
  <2> QED BY <2>1, <2>3, <2>4, <2>5, <2>6 DEF s
<1>10. CASE r = 1
  <2>1. (j - 1) % 3 = 1 /\ k = 4 * q + 1 /\ k + 1 = 4 * q + 2 /\ k + 2 = 4 * q + 3 /\ j = 3 * q + 2
    BY <1>3, <1>10
  <2>2. 4 * q + 2 \in 1 .. Count(n) /\ 4 * q + 3 \in 1 .. Count(n)
    BY <1>1, <1>7, <2>1
  <2>3. s[4 * q + 2] = 16 * (a % 4) + b \div 16 /\ s[4 * q + 3] = 4 * (b % 16) + c \div 64
    BY <1>5, <1>6, <1>8, <2>2
  <2>4. Byte(s, j - 1) = 16 * (s[k + 1] % 16) + s[k + 2] \div 4
    <3> HIDE DEF s
    <3>1. (j - 1) % 3 # 0
      BY <2>1
    <3> QED BY <2>1, <3>1, Zenon DEF Byte
  <2>5. in[j] = b
    BY <1>1, <2>1
  <2> HIDE DEF a, b, c, s, k
  <2>6. 16 * ((16 * (a % 4) + b \div 16) % 16) + (4 * (b % 16) + c \div 64) \div 4 = b
    BY <1>4
  <2> QED BY <2>1, <2>3, <2>4, <2>5, <2>6 DEF s
<1>11. CASE r = 2
  <2>1. (j - 1) % 3 = 2 /\ k = 4 * q + 2 /\ k + 1 = 4 * q + 3 /\ k + 2 = 4 * q + 4 /\ j = 3 * q + 3
    BY <1>3, <1>11
  <2>2. 4 * q + 3 \in 1 .. Count(n) /\ 4 * q + 4 \in 1 .. Count(n)
    BY <1>1, <1>7, <2>1
  <2>3. s[4 * q + 3] = 4 * (b % 16) + c \div 64 /\ s[4 * q + 4] = c % 64
    BY <1>5, <1>6, <1>8, <2>2
  <2>4. Byte(s, j - 1) = 64 * (s[k + 1] % 4) + s[k + 2]
    <3> HIDE DEF s
    <3>1. (j - 1) % 3 # 0 /\ (j - 1) % 3 # 1
      BY <2>1
    <3> QED BY <2>1, <3>1, Zenon DEF Byte
  <2>5. in[j] = c
    BY <1>1, <2>1
  <2> HIDE DEF a, b, c, s, k
  <2>6. 64 * ((4 * (b % 16) + c \div 64) % 4) + (c % 64) = c
    BY <1>4
  <2> QED BY <2>1, <2>3, <2>4, <2>5, <2>6 DEF s
<1> QED BY <1>3, <1>9, <1>10, <1>11

\* base64: any string of bytes survives, its text is a multiple of four long, and
\* a text that was cut elsewhere, or holds another character, gives nothing.
THEOREM BytesSurviveAll == \A in \in Seq(0 .. 255) : Base64Survives(in)
<1> SUFFICES ASSUME NEW in \in Seq(0 .. 255) PROVE Base64Survives(in)
  OBVIOUS
<1> DEFINE n == Len(in)
           m == Count(n)
           s == Sixes(in)
           p == Padding(n)
           t == base64_encode(in)
<1>0. n \in Nat
  BY LenProperties
<1>1. m \in Nat /\ Len(p) \in Nat /\ m + Len(p) = 4 * ((n + 2) \div 3) /\ (3 * m) \div 4 = n
  <2> HIDE DEF n
  <2> QED BY <1>0, Counts
<1>2. s \in Seq(Int) /\ Len(s) = m /\ \A i \in 1 .. m : s[i] # Pad /\ s[i] # Other
  <2>1. \A x \in 0 .. 63 : x # Pad /\ x # Other
    BY DEF Pad, Other
  <2> QED BY <2>1, BodyIs
<1>3. p \in Seq(Int) /\ \A i \in 1 .. Len(p) : p[i] = Pad
  <2> HIDE DEF n
  <2> QED BY <1>0, Counts
<1>4. t = s \o p
  BY Encoded DEF Sixes
<1> HIDE DEF s, p, t, m, n
<1>5. /\ t \in Seq(Int) /\ Len(t) = m + Len(p)
      /\ \A i \in 1 .. m : t[i] = s[i]
      /\ \A i \in m + 1 .. m + Len(p) : t[i] = Pad
  <2>1. /\ t \in Seq(Int) /\ Len(t) = Len(s) + Len(p)
        /\ \A i \in 1 .. Len(t) : t[i] = IF i <= Len(s) THEN s[i] ELSE p[i - Len(s)]
    BY <1>2, <1>3, <1>4, ConcatProperties
  <2>2. \A i \in m + 1 .. m + Len(p) : i \in 1 .. Len(t) /\ ~(i <= m) /\ i - m \in 1 .. Len(p)
    BY <1>1, <1>2, <2>1
  <2>3. \A i \in 1 .. m : i \in 1 .. Len(t) /\ i <= m
    BY <1>1, <1>2, <2>1
  <2> QED BY <1>2, <1>3, <2>1, <2>2, <2>3
<1>6. UpToPad(t) = s
  <2>1. \A i \in 1 .. m : t[i] # Pad
    BY <1>2, <1>5
  <2>2. m \in 0 .. Len(t) /\ (m = Len(t) \/ t[m + 1] = Pad)
    <3> DEFINE l == Len(p)
    <3>1. l \in Nat /\ m \in Nat /\ Len(t) = m + l
      BY <1>1, <1>5
    <3> HIDE DEF l
    <3>2. m # Len(t) => m + 1 \in m + 1 .. m + l
      BY <3>1
    <3> QED BY <1>5, <3>1, <3>2 DEF l
  <2>3. UpToPad(t) = SubSeq(t, 1, m)
    BY <1>5, <2>1, <2>2, UpToPadIs
  <2>4. SubSeq(t, 1, m) = s
    <3>1. /\ SubSeq(t, 1, m) \in Seq(Int) /\ Len(SubSeq(t, 1, m)) = m
          /\ \A i \in 1 .. m : SubSeq(t, 1, m)[i] = t[i]
      BY <1>1, <1>5, <2>2
    <3> DEFINE u == SubSeq(t, 1, m)
    <3> HIDE DEF u
    <3>2. u \in Seq(Int) /\ Len(u) = m /\ \A i \in 1 .. m : u[i] = s[i]
      BY <1>5, <3>1 DEF u
    <3>3. u = s
      BY <1>2, <3>2, SeqEqual
    <3> QED BY <3>3 DEF u
  <2> QED BY <2>3, <2>4
<1>7. Len(t) = 4 * ((n + 2) \div 3) /\ Len(t) % 4 = 0
  <2> DEFINE k == (n + 2) \div 3
  <2>1. k \in Nat
    BY <1>0
  <2> HIDE DEF k
  <2>2. (4 * k) % 4 = 0
    BY <2>1
  <2>3. Len(t) = 4 * k
    BY <1>1, <1>5 DEF k
  <2> QED BY <2>2, <2>3 DEF k
<1>8. base64_decode(t) = in
  <2>1. Other \notin ToSet(s)
    <3>1. DOMAIN s = 1 .. m
      BY <1>2
    <3> QED BY <1>2, <3>1 DEF ToSet
  <2>2. base64_decode(t) = [j \in 1 .. n |-> Byte(s, j - 1)]
    BY <1>1, <1>2, <1>6, <1>7, <2>1, DecodedIs
  <2>3. \A j \in 1 .. n : Byte(s, j - 1) = in[j]
    BY ByteBack DEF n, s
  <2>4. in = [j \in 1 .. n |-> in[j]]
    BY DEF n
  <2> QED BY <2>2, <2>3, <2>4
<1>9. ASSUME NEW k \in DOMAIN t, k % 4 # 0 PROVE base64_decode(SubSeq(t, 1, k)) = <<>>
  <2>1. Len(SubSeq(t, 1, k)) = k
    BY <1>5
  <2> QED BY <1>9, <2>1, DecodedIs
<1>10. ASSUME NEW k \in DOMAIN t, t[k] # Pad PROVE base64_decode([t EXCEPT ![k] = Other]) = <<>>
  <2> DEFINE w == [t EXCEPT ![k] = Other]
  <2>1. k \in 1 .. m
    BY <1>1, <1>5, <1>10
  <2>2. /\ w \in Seq(Int) /\ Len(w) = Len(t) /\ w[k] = Other
        /\ \A i \in 1 .. Len(t) : i # k => w[i] = t[i]
    BY <1>5 DEF Other
  <2> HIDE DEF w
  <2>3. \A i \in 1 .. m : w[i] # Pad
    <3>1. Other # Pad
      BY DEF Other, Pad
    <3>2. \A i \in 1 .. m : i \in 1 .. Len(t) /\ t[i] # Pad
      <4> DEFINE l == Len(p)
      <4>1. l \in Nat /\ m \in Nat /\ Len(t) = m + l
        BY <1>1, <1>5
      <4> HIDE DEF l
      <4>2. \A i \in 1 .. m : i \in 1 .. Len(t)
        BY <4>1
      <4> QED BY <1>2, <1>5, <4>2
    <3> QED BY <2>2, <3>1, <3>2
  <2>4. m \in 0 .. Len(w) /\ (m = Len(w) \/ w[m + 1] = Pad)
    <3> DEFINE l == Len(p)
    <3>1. l \in Nat /\ m \in Nat /\ Len(w) = m + l /\ Len(t) = m + l
      BY <1>1, <1>5, <2>2
    <3> HIDE DEF l
    <3>2. m # Len(w) => m + 1 \in m + 1 .. m + l /\ m + 1 \in 1 .. Len(t) /\ m + 1 # k
      BY <2>1, <3>1
    <3>3. m # Len(w) => w[m + 1] = Pad
      BY <1>5, <2>2, <3>2 DEF l
    <3> QED BY <3>1, <3>3
  <2>5. UpToPad(w) = SubSeq(w, 1, m)
    BY <2>2, <2>3, <2>4, UpToPadIs
  <2>6. k \in 1 .. Len(SubSeq(w, 1, m)) /\ SubSeq(w, 1, m)[k] = Other /\ DOMAIN SubSeq(w, 1, m) = 1 .. Len(SubSeq(w, 1, m))
    <3>1. m \in Nat /\ m <= Len(w) /\ w \in Seq(Int)
      BY <1>1, <2>2, <2>4
    <3> DEFINE u == SubSeq(w, 1, m)
    <3>2. u \in Seq(Int) /\ Len(u) = m /\ \A i \in 1 .. m : u[i] = w[i]
      BY <3>1
    <3> HIDE DEF u
    <3> QED BY <2>1, <2>2, <3>2 DEF u
  <2>7. Other \in ToSet(SubSeq(w, 1, m))
    BY <2>6 DEF ToSet
  <2>8. base64_decode(w) = <<>>
    BY <2>5, <2>7, DecodedIs
  <2> QED BY <2>8 DEF w
<1> QED BY <1>7, <1>8, <1>9, <1>10 DEF Base64Survives, t, n
=============================================================================
