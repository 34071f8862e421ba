------------------------------- MODULE JsonRpc -------------------------------
(***************************************************************************)
(* lidig_rpc (network/lidig_rpc.cpp, protocol/jsonrpc.cpp): peers that call     *)
(* each other's functions over UDP, which loses, duplicates and reorders.  A    *)
(* datagram is [kind, from, to, id, body]: body is [method, size] in a request, *)
(* the result in a response.  id is a number, "none", or "text" for an id that  *)
(* is a string.  All peers have registered Functions; the result of a call is   *)
(* told from that of every other by its request's body.                        *)
(***************************************************************************)
EXTENDS Integers, FiniteSets

CONSTANTS
    Peers,
    Ids,         \* the ids that are numbers
    Functions,   \* the methods in func_map_
    Calls,       \* what a peer may ask: [id, method, size], size of params
    Repeated,    \* the calls that are repeated for ever, as datagrams
    MaxCalls     \* bound: requests and foreign datagrams that differ

VARIABLES
    calls,       \* ghost: the requests made and foreign datagrams sent
    datagrams,   \* those on their way
    results,     \* results[p]: what on_response was given
    rpc_down     \* peers from whose callback an exception escaped

rpcVars == <<calls, datagrams, results, rpc_down>>

RpcInit == calls = {} /\ datagrams = {} /\ results = [p \in Peers |-> {}] /\ rpc_down = {}

NoBody == [method |-> "", size |-> 0]
Body(c) == [method |-> c.method, size |-> c.size]

Request(p, q, c) == [kind |-> "request", from |-> p, to |-> q, id |-> c.id, body |-> Body(c)]

-----------------------------------------------------------------------------
\* A datagram is sent, a new one or one that was sent before.
Post(d) ==
    /\ d.from # d.to /\ d.from \notin rpc_down
    /\ calls' = calls \cup {d} /\ Cardinality(calls') <= MaxCalls
    /\ datagrams' = datagrams \cup {d}
    /\ UNCHANGED <<results, rpc_down>>

\* The application sends a request.
ask(p, q, c) == Post(Request(p, q, c))

\* Another implementation answers with an error whose id is a string, as in the
\* example of jsonrpc.h.
foreign(p, q) == Post([kind |-> "error", from |-> p, to |-> q, id |-> "text", body |-> NoBody])

lose(d) == d \in datagrams /\ datagrams' = datagrams \ {d} /\ UNCHANGED <<calls, results, rpc_down>>

\* Mutated form: the request that is made from a parsed datagram has no id of
\* its own.
RequestId_Unset(d) == Ids

\* The id_ of a request: uninitialised when the datagram has none.
RequestId(d) == IF d.id = "none" THEN Ids ELSE {d.id}

\* Mutated form: one more parameter is wanted.
Enough_More(body) == body.size > 2

\* A call has at least two parameters.
Enough(body) == body.size > 1

\* jrpc_response and jrpc_error.
Answers(d) ==
    LET served == d.body.method \in Functions /\ Enough(d.body)
    IN {[kind |-> IF served THEN "response" ELSE "error", from |-> d.to, to |-> d.from, id |-> i,
         body |-> IF served THEN d.body ELSE NoBody] : i \in RequestId(d)}

\* lidig_rpc::on_read of one copy of d.  asInt throws for an id that is a string;
\* an error is not handed to anyone.
rpc_on_read(d) ==
    /\ d \in datagrams /\ d.to \notin rpc_down
    /\ \E left \in {datagrams, datagrams \ {d}} :
         IF d.kind = "request" /\ d.id # "text" THEN \E a \in Answers(d) : datagrams' = left \cup {a}
         ELSE datagrams' = left
    /\ rpc_down' = IF d.id = "text" THEN rpc_down \cup {d.to} ELSE rpc_down
    /\ results' = IF d.kind = "response" /\ d.id # "text" THEN [results EXCEPT ![d.to] = @ \cup {d.body}] ELSE results
    /\ UNCHANGED calls

RpcNext ==
    \/ \E p, q \in Peers, c \in Calls : ask(p, q, c)
    \/ \E p, q \in Peers : foreign(p, q)
    \/ \E d \in datagrams : lose(d) \/ rpc_on_read(d)

RpcSpec == RpcInit /\ [][RpcNext]_rpcVars

\* The requests that are answered with a result.
Served(d) == d.body.method \in Functions /\ d.body.size > 1
Responses(r) == {[kind |-> "response", from |-> r.to, to |-> r.from, id |-> i, body |-> r.body] : i \in Ids}

-----------------------------------------------------------------------------
\* lidig_rpc: a response on its way answers a request that its receiver made to
\* its sender, with the id of that request, however often requests and responses
\* were repeated, lost or overtaken; a request without an id gets any.
ResponseOfId ==
    \A d \in datagrams : d.kind = "response" =>
        \E c \in calls : /\ c.kind = "request" /\ c.from = d.to /\ c.to = d.from /\ c.body = d.body /\ Served(c)
                         /\ c.id \in {d.id, "none"}

\* lidig_rpc::on_read: a call that is repeated while datagrams get through now and
\* then is answered, unless an exception stopped one of the peers.
CallsAreAnswered ==
    \A r \in Repeated : (r \in calls /\ Served(r)) ~> (r.body \in results[r.from] \/ {r.from, r.to} \cap rpc_down # {})
=============================================================================
