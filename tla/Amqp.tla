--------------------------------- MODULE Amqp ---------------------------------
(***************************************************************************)
(* lidig_amqp (network/lidig_amqp.cpp) on the health object it derives from.   *)
(* Everything runs on the loop thread.  AMQP-CPP is modelled as it is used: a  *)
(* channel queues what is asked of it until its connection is up, and a        *)
(* deleted connection calls nobody.  The application connects only when it is   *)
(* not connected: connect() itself would leak the old connection.              *)
(***************************************************************************)
EXTENDS HealthObject

CONSTANTS
    Keys,        \* routing keys the application binds
    MaxEvents    \* bound: calls of the application and errors

VARIABLES
    am_health,   \* the lidig_health part
    connection,  \* connection_ and channel_: "null", "new", "up"
    address,     \* address_ is set
    key_vec,     \* key_vec_
    bound,       \* keys asked for on the current channel
    events,      \* counter
    reconnected, \* ghost: the application itself connected again after binding
    am_misuse    \* a null channel was used

amqpVars == <<am_health, connection, address, key_vec, bound, events, reconnected, am_misuse>>

AmqpInit ==
    /\ am_health = NewHealth /\ connection = "null" /\ address = FALSE
    /\ key_vec = {} /\ bound = {} /\ events = 0 /\ reconnected = FALSE /\ am_misuse = FALSE

Event == events < MaxEvents /\ events' = events + 1

-----------------------------------------------------------------------------
\* connect: a new connection and channel, with the queue's own key bound.
amqp_connect ==
    /\ Event /\ connection = "null"
    /\ connection' = "new" /\ address' = TRUE /\ bound' = {"queue.#"}
    /\ reconnected' = (reconnected \/ key_vec # {})
    /\ UNCHANGED <<am_health, key_vec, am_misuse>>

bind_queue(k) ==
    /\ Event
    /\ key_vec' = key_vec \cup {k}
    /\ bound' = IF connection = "null" THEN bound ELSE bound \cup {k}
    /\ UNCHANGED <<am_health, connection, address, reconnected, am_misuse>>

\* disconnect: connection and channel are deleted.
disconnect ==
    /\ connection' = "null" /\ bound' = {}

amqp_disconnect ==
    /\ Event /\ disconnect
    /\ am_health' = set_check(am_health)
    /\ UNCHANGED <<address, key_vec, reconnected, am_misuse>>

\* Mutant: the connection object is kept.
onError_Keeps ==
    /\ Event /\ connection # "null"
    /\ am_health' = set_sick(set_check(am_health), TRUE)
    /\ UNCHANGED <<connection, bound, address, key_vec, reconnected, am_misuse>>

\* onError: disconnect, which sets CHECK, then SICK.
onError ==
    /\ Event /\ connection # "null" /\ disconnect
    /\ am_health' = set_sick(set_check(am_health), TRUE)
    /\ UNCHANGED <<address, key_vec, reconnected, am_misuse>>

onConnected ==
    /\ connection = "new" /\ connection' = "up"
    /\ am_health' = set_good(am_health, TRUE)
    /\ UNCHANGED <<address, key_vec, bound, events, reconnected, am_misuse>>

\* A message: on_packet, which may disconnect; its answer and the
\* acknowledgement go to channel_, whatever that is by then.
onReceived(disconnects) ==
    /\ Event /\ connection = "up"
    /\ IF disconnects THEN /\ disconnect /\ am_health' = set_check(am_health)
                           /\ am_misuse' = TRUE
       ELSE UNCHANGED <<am_health, connection, bound, am_misuse>>
    /\ UNCHANGED <<address, key_vec, reconnected>>

\* Mutant: the keys are not bound again.
health_cure_Forgets ==
    /\ connection' = "new" /\ bound' = {"queue.#"}

\* health_cure, with neither a connection nor a missing address: connect, and
\* bind what was bound.
health_cure_amqp ==
    /\ connection' = "new" /\ bound' = {"queue.#"} \cup key_vec

\* One visit of health_server.
amqp_visit ==
    /\ is_sick(am_health)
    /\ IF Due(am_health) /\ connection = "null" /\ address
       THEN /\ health_cure_amqp
            /\ am_health' = Attempt(am_health, [sets |-> "nothing", ret |-> 0], TRUE)
       ELSE /\ am_health' = Visit(am_health, [sets |-> "nothing", ret |-> -1], TRUE)
            /\ UNCHANGED <<connection, bound>>
    /\ UNCHANGED <<address, key_vec, events, reconnected, am_misuse>>

\* A connection attempt ends one way or the other.
AmqpAnswered == connection = "new" /\ (onConnected \/ onError)

AmqpNext == ~am_misuse /\ (\/ amqp_connect \/ amqp_disconnect \/ onError \/ onConnected \/ amqp_visit
                           \/ \E k \in Keys : bind_queue(k)
                           \/ \E d \in BOOLEAN : onReceived(d))

AmqpSpec == AmqpInit /\ [][AmqpNext]_amqpVars

-----------------------------------------------------------------------------
(* Properties *)

\* Every connection has the keys the application ever bound, also those made by
\* health_cure; only a connection the application itself replaced has lost them.
KeysStayBound == connection # "null" /\ ~reconnected => key_vec \subseteq bound

\* GOOD is told only of a connection that is up, and SICK only of one that is
\* gone or being made anew by the application.
AmqpHealthTells ==
    /\ is_good(am_health) => connection = "up"
    /\ is_sick(am_health) => connection # "up"

\* After an error the connection is made again, unless the application takes
\* over: health_server's counting always reaches the next attempt.
AmqpRecovers == [](is_sick(am_health) => <>(~is_sick(am_health) \/ am_misuse))

\* What lidig_amqp tells of its connection is true of it, and a cured connection is
\* as good as the one that was lost.
AmqpIsSound == AmqpHealthTells /\ KeysStayBound
=============================================================================
