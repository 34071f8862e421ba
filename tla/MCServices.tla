----------------------------- MODULE MCServices -----------------------------
(* TLC instance of the servers and clients that share no state: a behaviour  *)
(* is one of TcpServer's (with the shell or the Unix-socket server), NaviHttp's, *)
(* Modbus's, Amqp's, HttpClient's or JsonRpc's; the others stay in their initial states.  *)
(* See MCServices.cfg. *)
EXTENDS NaviHttp, Modbus, Amqp, HttpClient, JsonRpc

CONSTANTS p1, p2

VARIABLE which

serviceVars == <<which, srvVars, naviVars, modbusVars, amqpVars, clientVars, rpcVars>>

\* Calls that are served, with and without an id, and two that are refused.
RpcCalls == {[id |-> "1", method |-> "sum", size |-> 2], [id |-> "none", method |-> "add", size |-> 3],
             [id |-> "1", method |-> "sum", size |-> 1], [id |-> "2", method |-> "mul", size |-> 2]}

RpcRepeated == {Request(p1, p2, [id |-> "1", method |-> "sum", size |-> 2])}

Init ==
    /\ which \in {"server", "navi", "modbus", "amqp", "client", "rpc"}
    /\ IF which = "server" THEN SrvInit({"shell", "usock"}) ELSE SrvInit({"http"})
    /\ NaviInit
    /\ which # "navi" => ~data.there
    /\ ModbusInit /\ AmqpInit /\ ClientInit /\ RpcInit

Next ==
    /\ UNCHANGED which
    /\ \/ which = "server" /\ ShellNext /\ UNCHANGED <<naviVars, modbusVars, amqpVars, clientVars, rpcVars>>
       \/ which = "navi" /\ NaviNext /\ UNCHANGED <<modbusVars, amqpVars, clientVars, rpcVars>>
       \/ which = "modbus" /\ ModbusNext /\ UNCHANGED <<srvVars, naviVars, amqpVars, clientVars, rpcVars>>
       \/ which = "amqp" /\ AmqpNext /\ UNCHANGED <<srvVars, naviVars, modbusVars, clientVars, rpcVars>>
       \/ which = "client" /\ ClientNext /\ UNCHANGED <<srvVars, naviVars, modbusVars, amqpVars, rpcVars>>
       \/ which = "rpc" /\ RpcNext /\ UNCHANGED <<srvVars, naviVars, modbusVars, amqpVars, clientVars>>

\* libuv answers writes and closes; the health timer goes on, and a
\* connection attempt succeeds or fails; a peer repeats its call, and a datagram that
\* is sent again and again gets through.
Spec ==
    /\ Init /\ [][Next]_serviceVars
    /\ \A s \in Sessions : WF_serviceVars(which = "server" /\ misuse = "" /\ SrvDone(s) /\ UNCHANGED <<which, naviVars, modbusVars, amqpVars, clientVars, rpcVars>>)
    /\ WF_serviceVars(which = "amqp" /\ ~am_misuse /\ amqp_visit /\ UNCHANGED <<which, srvVars, naviVars, modbusVars, clientVars, rpcVars>>)
    /\ WF_serviceVars(which = "amqp" /\ ~am_misuse /\ AmqpAnswered /\ UNCHANGED <<which, srvVars, naviVars, modbusVars, clientVars, rpcVars>>)
    /\ \A r \in Repeated :
         LET Rpc(A) == which = "rpc" /\ A /\ UNCHANGED <<which, srvVars, naviVars, modbusVars, amqpVars, clientVars>>
         IN /\ WF_serviceVars(Rpc(r \in calls /\ \E c \in Calls : Request(r.from, r.to, c) = r /\ ask(r.from, r.to, c)))
            /\ SF_serviceVars(Rpc(rpc_on_read(r)))
            /\ SF_serviceVars(Rpc(\E d \in Responses(r) : rpc_on_read(d)))

\* Nobody waits for ever: clients that left are deleted, a lost AMQP connection is
\* made again, a call that is repeated is answered.
ServicesSettle == LeftAreDeleted /\ AmqpRecovers /\ CallsAreAnswered
=============================================================================
