----------------------------- MODULE TcpClient ------------------------------
(***************************************************************************)
(* lidig_tcp_client (network/lidig_tcp_client.cpp): name resolution and    *)
(* connection on top of lidig_stream, the user's calls interleaved with    *)
(* the callbacks of libuv.  The user calls connect on a fresh client or    *)
(* after on_close, as the applications do; close and async_write at any    *)
(* time.                                                                   *)
(***************************************************************************)
EXTENDS Stream

CONSTANT MaxConnects    \* bound on the connect() calls of a behaviour

ASSUME MaxConnectsAssumption == MaxConnects \in Nat

VARIABLES
  req,        \* the libuv request in flight: "none", "resolving", "connecting"
  told,       \* notifications of this connection: "up", "failed", "closed"
  hung_up,    \* the user's close() of this connection took effect
  dropped,    \* resolved_cb gave up without any notification
  connects    \* connect() calls so far

clientVars == <<req, told, hung_up, dropped, connects>>
vars == <<streamVars, clientVars>>

TypeOK ==
  /\ StreamTypeOK
  /\ req \in {"none", "resolving", "connecting"}
  /\ told \subseteq {"up", "failed", "closed"}
  /\ hung_up \in BOOLEAN
  /\ dropped \in BOOLEAN
  /\ connects \in 0..MaxConnects

Init ==
  /\ StreamInit
  /\ req = "none"
  /\ told = {}
  /\ hung_up = FALSE
  /\ dropped = FALSE
  /\ connects = 0

notify(n) == told' = told \cup {n}

-----------------------------------------------------------------------------
\* uv_tcp_init followed by uv_tcp_connect on the handle: either may fail at
\* once, leaving the handle as it was or initialised with no request.
TcpConnect ==
  \/ UNCHANGED <<handle, req>>
  \/ handle' = "init" /\ req' = "none"
  \/ handle' = "connecting" /\ req' = "connecting"

\* connect(): the host is an address, or has to be resolved first.
connect ==
  /\ connects < MaxConnects
  /\ req = "none"
  /\ handle \in {"raw", "closed"}
  /\ connects' = connects + 1
  /\ \/ TcpConnect
     \/ req' = "resolving" /\ UNCHANGED handle
  /\ told' = {}
  /\ hung_up' = FALSE
  /\ dropped' = FALSE
  /\ UNCHANGED <<is_alive_, reading, wstate, acks, crashed>>

\* Mutated form: the failure branch returns without on_close.
resolved_cb_fail_Silent ==
  /\ req = "resolving"
  /\ req' = "none"
  /\ UNCHANGED <<streamVars, told, hung_up, dropped, connects>>

\* Mutated form: the failure branch does not return.
resolved_cb_fail_NoReturn ==
  /\ req = "resolving"
  /\ notify("closed")
  /\ handle' = "connecting"
  /\ req' = "connecting"
  /\ UNCHANGED <<is_alive_, reading, wstate, acks, crashed, hung_up, dropped, connects>>

resolved_cb_fail ==
  /\ req = "resolving"
  /\ notify("closed")
  /\ req' = "none"
  /\ UNCHANGED <<streamVars, hung_up, dropped, connects>>

\* The two synchronous failures are logged and nothing else.
resolved_cb_ok ==
  /\ req = "resolving"
  /\ \/ req' = "none" /\ UNCHANGED handle
     \/ req' = "none" /\ handle' = "init"
     \/ req' = "connecting" /\ handle' = "connecting"
  /\ dropped' = (req' = "none")
  /\ UNCHANGED <<is_alive_, reading, wstate, acks, crashed, told, hung_up, connects>>

\* Mutated form: the failure branch does not close the handle.
connect_cb_fail_NoClose ==
  /\ req = "connecting"
  /\ req' = "none"
  /\ notify("failed")
  /\ UNCHANGED <<streamVars, hung_up, dropped, connects>>

\* status < 0: set_not_alive, close, on_connection.  The status is ECANCELED
\* when the handle was closed while connecting.
connect_cb_fail ==
  /\ req = "connecting"
  /\ req' = "none"
  /\ close
  /\ notify("failed")
  /\ UNCHANGED <<hung_up, dropped, connects>>

connect_cb_ok ==
  /\ req = "connecting"
  /\ handle = "connecting"
  /\ req' = "none"
  /\ handle' = "open"
  /\ async_read_start
  /\ notify("up")
  /\ UNCHANGED <<wstate, acks, crashed, hung_up, dropped, connects>>

UserWrite ==
  /\ \E w \in Write, null \in BOOLEAN : async_write(w, null)
  /\ UNCHANGED clientVars

UserClose ==
  /\ close
  /\ hung_up' = (hung_up \/ handle \in {"init", "connecting", "open"})
  /\ UNCHANGED <<req, told, dropped, connects>>

WriteDone ==
  /\ \E w \in Write : write_cb(w)
  /\ UNCHANGED clientVars

ReadError ==
  /\ read_error
  /\ UNCHANGED clientVars

\* Mutated form: on_close is called only for a stream that is alive.
CloseDone_IfAlive ==
  /\ req # "connecting"
  /\ close_cb
  /\ IF is_alive_ THEN notify("closed") ELSE UNCHANGED told
  /\ UNCHANGED <<req, hung_up, dropped, connects>>

\* libuv cancels the connect request before it runs close_cb.
CloseDone ==
  /\ req # "connecting"
  /\ close_cb
  /\ notify("closed")
  /\ UNCHANGED <<req, hung_up, dropped, connects>>

Next ==
  /\ ~crashed
  /\ \/ connect
     \/ resolved_cb_fail
     \/ resolved_cb_ok
     \/ connect_cb_fail
     \/ connect_cb_ok
     \/ UserWrite
     \/ UserClose
     \/ WriteDone
     \/ ReadError
     \/ CloseDone

Spec == Init /\ [][Next]_vars

\* libuv answers every request it accepted: a lookup, a connection attempt
\* and a close all end.  A write need not: the peer may never read.
Fairness ==
  /\ WF_vars(~crashed /\ (resolved_cb_fail \/ resolved_cb_ok))
  /\ WF_vars(~crashed /\ (connect_cb_fail \/ connect_cb_ok))
  /\ WF_vars(~crashed /\ CloseDone)
  /\ WF_vars(~crashed /\ uv_is_closing /\ WriteDone)

FairSpec == Spec /\ Fairness

-----------------------------------------------------------------------------
\* on_close is the last word of a connection: when it has been delivered,
\* libuv holds no request of this client, so that the user may delete it (as
\* the servers do in on_close).
QuietAfterClose ==
  "closed" \in told =>
    req = "none" /\ Drained /\ ~is_alive_ /\ ~reading /\ handle \in {"raw", "closed"}

\* The client under any order of calls and answers of libuv: no stale alive flag, one
\* answer per write, nothing left after on_close.
ClientIsSound == TypeOK /\ AliveMeansOpen /\ WritesAnsweredOnce /\ QuietAfterClose

\* A connection the user has closed is never reported up.
NeverUpAfterClose == [][("up" \in told' /\ "up" \notin told) => ~hung_up]_vars

\* A connect() that was accepted is answered by on_connection or on_close,
\* except when resolved_cb gives up silently (or the user crashed the process
\* by closing a client that was never connected).
ConnectIsAnswered ==
  (req # "none") ~> (told # {} \/ dropped \/ crashed)

\* A close that took effect ends with on_close, whatever was in flight.
CloseCompletes ==
  (handle = "closing") ~> ("closed" \in told)

\* The view of the user: which phase the connection is in.
Phase ==
  IF handle = "open" THEN "up"
  ELSE IF handle = "closing" THEN "down"
  ELSE IF handle \in {"init", "connecting"} \/ req = "resolving" THEN "opening"
  ELSE "idle"

C == INSTANCE Channel WITH phase <- Phase,
                           out <- {w \in Write : wstate[w] = "queued"}

\* The client, with all its libuv requests and their cancellation, behaves as
\* the abstract channel.
ImplementsChannel == C!Spec

\* libuv's answers reach the user: no connection attempt and no close is left
\* without its notification.
RequestsEnd == ConnectIsAnswered /\ CloseCompletes
=============================================================================
