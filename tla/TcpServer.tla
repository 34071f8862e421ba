------------------------------ MODULE TcpServer ------------------------------
(***************************************************************************)
(* Listening servers and the connections they accept: lidig_tcp_server      *)
(* (network/lidig_tcp_server.cpp) with the remote shell built on it          *)
(* (network/lidig_shell.cpp), lidig_http_server's connections (see NaviHttp)  *)
(* and lidig_usock_server (network/lidig_usock_server.cpp).  A connection is  *)
(* an object that its owner deletes when its handle is closed; touching it    *)
(* afterwards is undefined, and so is deleting it while libuv still has its   *)
(* handle.  Either ends the behaviour, with the reason in misuse.             *)
(***************************************************************************)
EXTENDS Integers, FiniteSets

CONSTANTS
    Sessions,    \* connections, one per accepted client
    MaxWrites    \* bound: writes queued in libuv per connection

ASSUME TcpServerAssumption == MaxWrites \in Nat \ {0}

VARIABLES
    kind,        \* "shell", "http" or "usock": which server runs
    listener,    \* the server's handle_: "idle", "init", "listening", "closed"
    sess,        \* connection -> [obj, handle, alive, writes, left]
    misuse       \* "" or why the behaviour has become undefined

srvVars == <<kind, listener, sess, misuse>>

NoSession == [obj |-> "none", handle |-> "raw", alive |-> FALSE, writes |-> 0, left |-> FALSE]

SrvInit(kinds) ==
    /\ kind \in kinds /\ listener = "idle" /\ misuse = ""
    /\ sess = [s \in Sessions |-> NoSession]

-----------------------------------------------------------------------------
(* lidig_stream on one connection; x is its record *)

\* async_write: nothing is queued on a connection that is not alive.
Written(x) == IF x.alive THEN [x EXCEPT !.writes = @ + 1] ELSE x

\* Mutant: the stream stays alive until it is closed.
Closing_Alive(x) == IF x.handle \in {"closing", "closed"} THEN x ELSE [x EXCEPT !.handle = "closing"]

\* close: once; the stream is not alive from here on.
Closing(x) == IF x.handle \in {"closing", "closed"} THEN x
              ELSE [x EXCEPT !.handle = "closing", !.alive = FALSE]

\* Touching a connection that was deleted is undefined.
Touch(s, x) ==
    IF sess[s].obj = "live" THEN sess' = [sess EXCEPT ![s] = x] /\ UNCHANGED misuse
    ELSE misuse' = "deleted connection used" /\ UNCHANGED sess

-----------------------------------------------------------------------------
(* lidig_tcp_server, lidig_usock_server *)

\* listen (for a Unix socket, bind and listen): initialising or binding may
\* fail, which leaves the handle as it is; a failing uv_listen closes it.
listen(result) ==
    /\ listener = "idle"
    /\ listener' = CASE result = "ok" -> "listening" [] result = "bind" -> "init" [] OTHER -> "closed"
    /\ UNCHANGED <<kind, sess, misuse>>

\* on_connection: a new connection object; accept initialises its handle, and
\* uv_accept can fail, at once when the connection itself failed.  Then the
\* object is deleted although libuv's loop has its handle (the shell writes
\* the prompt to it, too).  A connection that was accepted is read from.
on_connection(s, ok) ==
    /\ listener = "listening" /\ sess[s].obj = "none"
    /\ IF ok THEN /\ sess' = [sess EXCEPT ![s] =
                                LET x == [NoSession EXCEPT !.obj = "live", !.handle = "open", !.alive = TRUE]
                                IN IF kind = "shell" THEN Written(x) ELSE x]
                  /\ UNCHANGED misuse
       ELSE misuse' = "failed accept" /\ UNCHANGED sess
    /\ UNCHANGED <<kind, listener>>

\* Mutant: the read error of a connection closes the server in every server.
Owner_Server(s) == "server"

\* Whose stream callbacks a connection's handle has in its data: lidig_usock_server's
\* accept puts the server there instead of the connection.
Owner(s) == IF kind = "usock" THEN "server" ELSE "session"

\* The peer is gone: the read callback closes its owner.
read_error(s) ==
    /\ sess[s].obj = "live" /\ sess[s].handle = "open" /\ ~sess[s].left
    /\ IF Owner(s) = "session"
       THEN sess' = [sess EXCEPT ![s] = [Closing(@) EXCEPT !.left = TRUE]] /\ UNCHANGED listener
       ELSE listener' = "closed" /\ sess' = [sess EXCEPT ![s].left = TRUE]
    /\ UNCHANGED <<kind, misuse>>

write_cb(s) ==
    /\ sess[s].writes > 0
    /\ Touch(s, [sess[s] EXCEPT !.writes = @ - 1])
    /\ UNCHANGED <<kind, listener>>

\* The handle is closed, once every queued write was answered: on_close deletes
\* the connection (lidig_shell::on_client_close, lidig_http_server::on_close_session).
close_cb(s) ==
    /\ sess[s].handle = "closing" /\ sess[s].writes = 0
    /\ sess' = [sess EXCEPT ![s] = [@ EXCEPT !.handle = "closed", !.obj = "deleted"]]
    /\ UNCHANGED <<kind, listener, misuse>>

-----------------------------------------------------------------------------
(* lidig_shell and the echo of the Unix-socket server's test *)

\* Mutant: exit deletes the client at once, as on_client_close would.
exec_exit_Deletes(s) == [Written(sess[s]) EXCEPT !.obj = "deleted", !.handle = "closed", !.alive = FALSE]

\* The built-in exit command: a farewell, then close.
exec_exit(s) == Closing(Written(sess[s]))

\* cmd::exec: what a line does to the client: nothing if it is empty, a message
\* if it is no command, the command's own writes otherwise.
exec(s, line) ==
    CASE line = "empty" -> sess[s]
      [] line = "exit" -> exec_exit(s)
      [] OTHER -> Written(sess[s])

\* lidig_shell_client::on_read, on_client_recv: the line is executed and the
\* prompt written, to whatever the client has become.
on_client_recv(s, line) ==
    /\ kind = "shell" /\ sess[s].obj = "live" /\ sess[s].handle = "open"
    /\ sess[s].writes + 2 <= MaxWrites
    /\ LET x == exec(s, line)
       IN IF x.obj = "live" THEN sess' = [sess EXCEPT ![s] = Written(x)] /\ UNCHANGED misuse
          ELSE misuse' = "deleted connection used" /\ UNCHANGED sess
    /\ UNCHANGED <<kind, listener>>

\* A write of the application to a connection of the Unix-socket server.
Send(s) ==
    /\ kind = "usock" /\ sess[s].obj = "live" /\ sess[s].writes < MaxWrites
    /\ Touch(s, Written(sess[s]))
    /\ UNCHANGED <<kind, listener>>

SrvDone(s) == write_cb(s) \/ close_cb(s)

\* What every server's connections do.
SrvStep ==
    \/ \E result \in {"ok", "bind", "listen"} : listen(result)
    \/ \E s \in Sessions : (\E ok \in BOOLEAN : on_connection(s, ok)) \/ read_error(s)
    \/ \E s \in Sessions : SrvDone(s)

ShellNext ==
    /\ misuse = ""
    /\ \/ SrvStep
       \/ \E s \in Sessions : (\E line \in {"empty", "exit", "help"} : on_client_recv(s, line)) \/ Send(s)

ShellSpec == SrvInit({"shell", "usock"}) /\ [][ShellNext]_srvVars

-----------------------------------------------------------------------------
(* Properties *)

\* Type invariant of the servers.
SrvTypeOK ==
    /\ listener \in {"idle", "init", "listening", "closed"}
    /\ \A s \in Sessions : /\ sess[s].obj \in {"none", "live", "deleted"}
                           /\ sess[s].handle \in {"raw", "open", "closing", "closed"}
                           /\ sess[s].writes \in 0 .. MaxWrites
                           /\ sess[s].alive => sess[s].handle = "open"

\* No deleted connection is touched, whatever the order of data, errors, answers
\* to writes and closes: its object goes only when libuv is done with its handle.
\* Only a failed accept deletes one that libuv's loop still holds.
ConnectionsOutliveHandles ==
    /\ misuse # "deleted connection used"
    /\ \A s \in Sessions : sess[s].obj = "deleted" => sess[s].handle = "closed" /\ sess[s].writes = 0

\* A client that leaves costs the server that client only: once it has accepted
\* one, a server goes on listening.  In the Unix-socket server a client that leaves
\* costs the listening socket instead.
ListenerSurvives == (\E s \in Sessions : sess[s].obj # "none") => listener = "listening" \/ kind = "usock"

\* A client of the shell that left is deleted in the end; one of the Unix-socket
\* server never is.
LeftAreDeleted ==
    \A s \in Sessions : []((sess[s].left /\ kind = "shell") => <>(sess[s].obj = "deleted" \/ misuse # ""))

\* The servers under any order of accepts, data, errors and answers of libuv: no
\* connection is used after its end, and the server outlives its clients.
ServersAreSound == SrvTypeOK /\ ConnectionsOutliveHandles /\ ListenerSurvives
=============================================================================
