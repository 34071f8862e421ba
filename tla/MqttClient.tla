----------------------------- MODULE MqttClient -----------------------------
(***************************************************************************)
(* lidig_mqtt (network/lidig_mqtt.cpp) with its three threads: the loop    *)
(* thread (health timer, after-work and async callbacks, the application), *)
(* the libuv worker that runs mqtt_start, and libmosquitto's own thread,   *)
(* whose callbacks are handed to the loop thread through one lidig_async   *)
(* each.  The health part is that of HealthObject.  libmosquitto and the   *)
(* broker are external and modelled as the code uses them: connect()       *)
(* replaces the socket and reports no disconnection, loop_start() fails    *)
(* when its thread already runs, that thread reconnects by itself and      *)
(* calls on_connect and on_disconnect.                                     *)
(***************************************************************************)
EXTENDS HealthObject, Sequences, SequencesExt

CONSTANTS
  Job,        \* executions of work_ that can be in flight at once (a bound)
  Topic,
  MaxAsync,   \* bound on the callbacks waiting for the loop thread
  MaxMessages,\* bound on the messages the broker sends
  MaxStops,   \* bound on the calls of stop()
  Races       \* the values of races that are considered

ASSUME MqttAssumption ==
  /\ {MaxAsync, MaxMessages, MaxStops} \subseteq Nat
  /\ Races \subseteq BOOLEAN

VARIABLES
  health,     \* the lidig_health base of the client
  config,     \* a host (and usable credentials) has been set
  topic_sub_,
  started,    \* the application has called start()
  stops,      \* calls of stop()
  jobs,       \* each execution of work_: "idle", "queued", "connected", "done"
  ret_,       \* lidig_queue_work::ret_, one for all executions
  thread,     \* libmosquitto's loop thread runs
  net,        \* the connection: "none", "pending" (CONNACK awaited), "up"
  subs,       \* subscriptions the broker holds for the connection
  broker,     \* "up", "down", or "refusing" connections
  asyncs,     \* lidig_async handles sent and not yet called back, in order
  replaced,   \* history: the worker's connect() took down an established
              \* connection, which no callback reports
  races,      \* TRUE: the unsynchronised uv_async_init and the re-queueing of
              \* work_ may lose what they queue; FALSE: they happen not to
  sent, got   \* last message sent by the broker, last one given to on_packet

clientVars == <<config, topic_sub_, started, stops>>
workVars == <<jobs, ret_>>
mosqVars == <<thread, net, subs, replaced>>
msgVars == <<sent, got>>
otherVars == <<broker, asyncs, races, msgVars>>
vars == <<health, clientVars, workVars, mosqVars, otherVars>>

Comm == [type: {"on_connect"}, rc: {0, 5}] \cup [type: {"on_disconnect"}, rc: {0, 7}]
          \cup [type: {"on_message"}, rc: 1..MaxMessages]

\* Well-typed, with the backoff of health_server::run in step whatever the order
\* in which work and callbacks report.
TypeOK ==
  /\ health \in lidig_health /\ InStep(health)
  /\ races \in Races
  /\ config \in BOOLEAN
  /\ topic_sub_ \subseteq Topic
  /\ started \in BOOLEAN
  /\ stops \in 0..MaxStops
  /\ jobs \in [Job -> {"idle", "queued", "connected", "done"}]
  /\ ret_ \in {0, -1}
  /\ thread \in BOOLEAN
  /\ net \in {"none", "pending", "up"}
  /\ subs \subseteq Topic
  /\ broker \in {"up", "down", "refusing"}
  /\ replaced \in BOOLEAN
  /\ asyncs \in Seq(Comm)
  /\ sent \in 0..MaxMessages
  /\ got \in 0..MaxMessages

Init ==
  /\ health = NewHealth
  /\ races \in Races
  /\ config = FALSE
  /\ topic_sub_ = {}
  /\ started = FALSE
  /\ stops = 0
  /\ jobs = [j \in Job |-> "idle"]
  /\ ret_ = 0
  /\ thread = FALSE
  /\ net = "none"
  /\ subs = {}
  /\ replaced = FALSE
  /\ broker \in {"up", "down", "refusing"}
  /\ asyncs = <<>>
  /\ sent = 0
  /\ got = 0

-----------------------------------------------------------------------------
(* lidig_async: a new handle for every callback, sent at once.             *)

\* The handles queued by one libmosquitto callback, two at most; a race may lose
\* either or both.
Kept(cs) == IF races THEN {SubSeq(cs, i, k) : i \in 1 .. 2, k \in 0 .. Len(cs)} ELSE {cs}
Post(cs) == \E kept \in Kept(cs) : asyncs' = asyncs \o kept

HasRoom == Len(asyncs) < MaxAsync

on_connect(rc) == [type |-> "on_connect", rc |-> rc]
on_disconnect(rc) == [type |-> "on_disconnect", rc |-> rc]
on_message(n) == [type |-> "on_message", rc |-> n]

-----------------------------------------------------------------------------
(* lidig_queue_work.                                                       *)

InFlight == {j \in Job : jobs[j] # "idle"}

\* start(): work_ is queued, even when an execution of it is in flight; the
\* request is then linked into two queues at once and either may be lost.
start ==
  \E j \in Job \ InFlight :
    \/ jobs' = [jobs EXCEPT ![j] = "queued"]
    \/ races /\ InFlight # {} /\ UNCHANGED jobs
    \/ races /\ \E k \in InFlight :
                  jobs' = [jobs EXCEPT ![j] = "queued", ![k] = "idle"]

\* mqtt_start on the worker, up to and including mosquittopp::connect.
mqtt_start_connect(j) ==
  /\ jobs[j] = "queued"
  /\ IF ~config
     THEN /\ jobs' = [jobs EXCEPT ![j] = "done"]
          /\ ret_' = -1
          /\ UNCHANGED <<net, subs, replaced>>
     ELSE /\ subs' = {}
          /\ replaced' = (replaced \/ net = "up")
          /\ IF broker = "down"
             THEN /\ jobs' = [jobs EXCEPT ![j] = "done"]
                  /\ ret_' = -1
                  /\ net' = "none"
             ELSE /\ jobs' = [jobs EXCEPT ![j] = "connected"]
                  /\ net' = "pending"
                  /\ UNCHANGED ret_
  /\ UNCHANGED <<health, clientVars, thread, otherVars>>

\* mqtt_start, loop_start.
mqtt_start_loop(j) ==
  /\ jobs[j] = "connected"
  /\ jobs' = [jobs EXCEPT ![j] = "done"]
  /\ ret_' = IF thread THEN -1 ELSE 0
  /\ thread' = TRUE
  /\ UNCHANGED <<health, clientVars, net, subs, replaced, otherVars>>

\* Mutated form: the result of the work is ignored.
after_work_Ignores(j) ==
  /\ jobs[j] = "done"
  /\ jobs' = [jobs EXCEPT ![j] = "idle"]
  /\ UNCHANGED <<health, clientVars, ret_, mosqVars, otherVars>>

\* The after-work callback given by start().
after_work(j) ==
  /\ jobs[j] = "done"
  /\ jobs' = [jobs EXCEPT ![j] = "idle"]
  /\ health' = IF ret_ # 0 THEN set_sick(health, TRUE) ELSE health
  /\ UNCHANGED <<clientVars, ret_, mosqVars, otherVars>>

-----------------------------------------------------------------------------
(* The application, on the loop thread.                                    *)

connect ==
  /\ ~config
  /\ config' = TRUE
  /\ UNCHANGED <<health, topic_sub_, started, stops, workVars, mosqVars, otherVars>>

topic_sub_add(t) ==
  /\ t \notin topic_sub_
  /\ topic_sub_' = topic_sub_ \cup {t}
  /\ UNCHANGED <<health, config, started, stops, workVars, mosqVars, otherVars>>

UserStart ==
  /\ ~started
  /\ started' = TRUE
  /\ start
  /\ UNCHANGED <<health, config, topic_sub_, stops, ret_, mosqVars, otherVars>>

\* loop_stop(true) ends the thread; disconnect() reports on_disconnect(0) when
\* there was a connection.
stop ==
  /\ stops < MaxStops
  /\ stops' = stops + 1
  /\ thread' = FALSE
  /\ net' = "none"
  /\ subs' = {}
  /\ replaced' = (replaced /\ net = "none")
  /\ IF net = "none" THEN UNCHANGED asyncs ELSE Post(<<on_disconnect(0)>>)
  /\ health' = set_check(health)
  /\ UNCHANGED <<config, topic_sub_, started, workVars, broker, races, msgVars>>

\* Mutated form: health_cure succeeds without queueing the work.
run_NoStart ==
  /\ is_sick(health)
  /\ health' = Visit(health, [sets |-> "nothing", ret |-> 0], TRUE)
  /\ UNCHANGED <<clientVars, workVars, mosqVars, otherVars>>

\* health_server::run visits the client; health_cure is start(), and
\* uv_queue_work returns 0.
run ==
  /\ is_sick(health)
  /\ health' = Visit(health, [sets |-> "nothing", ret |-> 0], TRUE)
  /\ IF Due(health) THEN start ELSE UNCHANGED jobs
  /\ UNCHANGED <<clientVars, ret_, mosqVars, otherVars>>

\* Mutated form of async_cb: the newest handle first.
async_cb_Newest ==
  /\ asyncs # <<>>
  /\ LET c == Last(asyncs) IN
     /\ health' = CASE c.type = "on_connect" /\ c.rc = 0 -> set_good(health, TRUE)
                    [] c.type = "on_disconnect" -> set_sick(health, TRUE)
                    [] OTHER -> health
     /\ got' = IF c.type = "on_message" THEN c.rc ELSE got
  /\ asyncs' = Front(asyncs)
  /\ UNCHANGED <<clientVars, workVars, mosqVars, broker, races, sent>>

\* async_cb: the oldest handle is called back and deleted.
async_cb ==
  /\ asyncs # <<>>
  /\ LET c == Head(asyncs) IN
     /\ health' = CASE c.type = "on_connect" /\ c.rc = 0 -> set_good(health, TRUE)
                    [] c.type = "on_disconnect" -> set_sick(health, TRUE)
                    [] OTHER -> health
     /\ got' = IF c.type = "on_message" THEN c.rc ELSE got
  /\ asyncs' = Tail(asyncs)
  /\ UNCHANGED <<clientVars, workVars, mosqVars, broker, races, sent>>

-----------------------------------------------------------------------------
(* libmosquitto's thread.                                                  *)

\* Mutated form: only what the broker still knew is subscribed again.
Subscribe_Never == subs' = subs

\* on_connect subscribes to every topic registered so far.
Subscribe == subs' = topic_sub_

connack ==
  /\ thread
  /\ net = "pending"
  /\ broker = "up"
  /\ HasRoom
  /\ net' = "up"
  /\ replaced' = FALSE
  /\ Subscribe
  /\ Post(<<on_connect(0)>>)
  /\ UNCHANGED <<health, clientVars, workVars, thread, broker, races, msgVars>>

\* A refused CONNACK: on_connect(rc # 0), then on_disconnect.
connack_refused ==
  /\ thread
  /\ net = "pending"
  /\ broker = "refusing"
  /\ HasRoom
  /\ net' = "none"
  /\ replaced' = FALSE
  /\ subs' = {}
  /\ Post(<<on_connect(5), on_disconnect(7)>>)
  /\ UNCHANGED <<health, clientVars, workVars, thread, broker, races, msgVars>>

connection_lost ==
  /\ thread
  /\ net # "none"
  /\ broker = "down"
  /\ HasRoom
  /\ net' = "none"
  /\ replaced' = FALSE
  /\ subs' = {}
  /\ Post(<<on_disconnect(7)>>)
  /\ UNCHANGED <<health, clientVars, workVars, thread, broker, races, msgVars>>

reconnect ==
  /\ thread
  /\ net = "none"
  /\ broker # "down"
  /\ net' = "pending"
  /\ UNCHANGED <<health, clientVars, workVars, thread, subs, replaced, otherVars>>

message ==
  /\ thread
  /\ net = "up"
  /\ subs # {}
  /\ HasRoom
  /\ sent < MaxMessages
  /\ sent' = sent + 1
  /\ Post(<<on_message(sent + 1)>>)
  /\ UNCHANGED <<health, clientVars, workVars, mosqVars, broker, races, got>>

\* The broker, or the way to it, changes.
BrokerChange ==
  /\ broker' \in {"up", "down", "refusing"} \ {broker}
  /\ UNCHANGED <<health, clientVars, workVars, mosqVars, asyncs, races, msgVars>>

Worker == \E j \in Job : mqtt_start_connect(j) \/ mqtt_start_loop(j)

Mosquitto == connack \/ connack_refused \/ connection_lost \/ reconnect \/ message

Next ==
  \/ connect \/ UserStart \/ stop \/ run \/ async_cb
  \/ \E t \in Topic : topic_sub_add(t)
  \/ \E j \in Job : after_work(j)
  \/ Worker
  \/ Mosquitto
  \/ BrokerChange

Spec == Init /\ [][Next]_vars

\* The timer is periodic; the loop calls back every handle and every finished
\* work; the pool runs queued work; libmosquitto's thread makes progress.
FairSpec ==
  /\ Spec
  /\ WF_vars(run)
  /\ WF_vars(async_cb)
  /\ \A j \in Job : WF_vars(after_work(j)) /\ WF_vars(mqtt_start_connect(j) \/ mqtt_start_loop(j))
  /\ WF_vars(connack \/ connack_refused \/ connection_lost \/ reconnect)

-----------------------------------------------------------------------------
\* When no handle is lost and every callback has been delivered, GOOD tells the
\* truth, there is a connection, whatever work is in flight, with one exception:
\* a cure attempt replaced an established connection, which libmosquitto does
\* not report.
GoodWhenQuiet == (~races /\ asyncs = <<>> /\ is_good(health) /\ net # "up") => replaced

\* An established connection is subscribed to every topic that was registered
\* when it was established, on a reconnection as on the first connection.
Resubscribed ==
  [][net' = "up" /\ net # "up" => topic_sub_ \subseteq subs']_vars

\* on_packet sees the messages in the order the broker sent them, none twice.
DeliveredInOrder == [][got' # got => got' > got]_vars

\* What the application sees of the broker's topics across reconnections: every
\* connection is subscribed anew, and the messages come in order.
TopicsAreFollowed == Resubscribed /\ DeliveredInOrder

\* The client is never suspended for good: CHECK, which the health server does
\* not retry, is left again by a result of the work or of the connection, unless
\* stop() was called or a handle was lost.
SuspendedIsTemporary ==
  (health.status_ = "CHECK" /\ stops = 0 /\ ~races) ~> (health.status_ # "CHECK" \/ stops > 0)

\* With a broker that stays reachable the client gets back to GOOD, unless stop()
\* was called or a handle was lost.
Recovers ==
  <>[](broker = "up" /\ config /\ started /\ stops = 0 /\ ~races) => []<>is_good(health)

\* The comments on the health status in lidig_health.h, GOOD "normal work" and
\* SICK "something err": a broker that is gone for good does not leave the
\* client GOOD for ever.
LossIsNoticed ==
  <>[](broker = "down") => <>[](~is_good(health))
=============================================================================
