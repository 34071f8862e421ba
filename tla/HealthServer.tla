---------------------------- MODULE HealthServer ----------------------------
(***************************************************************************)
(* default_health, the process-wide health_server, and the objects that    *)
(* register with it (base/lidig_health.cpp).  Everything here runs on the  *)
(* loop thread, so each handler is one action; the steps interleave as the *)
(* loop dispatches them.                                                   *)
(***************************************************************************)
EXTENDS HealthObject

CONSTANT Obj        \* identities of lidig_health objects

VARIABLES
  server,   \* default_health # nullptr
  cb,       \* send_alert_cb_ is installed
  live,     \* objects constructed and not yet destroyed
  obj_,     \* health_server::obj_; add_obj keeps it free of duplicates
  health,   \* the lidig_health part of each object
  since     \* history: sick ticks of the object since its last cure attempt

vars == <<server, cb, live, obj_, health, since>>

SinceCap == ErrLimit + 2    \* bound on the history variable

Tick(n) == IF n < SinceCap THEN n + 1 ELSE n

\* The history of an object in state h, s before run() visits it.
Waits(h, s) == IF ~is_sick(h) THEN s ELSE IF Due(h) THEN 0 ELSE Tick(s)

TypeOK ==
  /\ server \in BOOLEAN
  /\ cb \in BOOLEAN
  /\ live \subseteq Obj
  /\ obj_ \subseteq Obj
  /\ health \in [Obj -> lidig_health]
  /\ since \in [Obj -> Nat]

Init ==
  /\ server = FALSE
  /\ cb = FALSE
  /\ live = {}
  /\ obj_ = {}
  /\ health = [o \in Obj |-> NewHealth]
  /\ since = [o \in Obj |-> 0]

-----------------------------------------------------------------------------
default_health_init ==
  /\ ~server
  /\ server' = TRUE
  /\ UNCHANGED <<cb, live, obj_, health, since>>

default_health_init_cb ==
  /\ server
  /\ cb' = TRUE
  /\ UNCHANGED <<server, live, obj_, health, since>>

add_obj(o) == obj_' = IF server THEN obj_ \cup {o} ELSE obj_

\* Mutated form of erase_obj: the pointer stays registered.
erase_obj_Forgets(o) == obj_' = obj_

erase_obj(o) == obj_' = IF server THEN obj_ \ {o} ELSE obj_

\* lidig_health::lidig_health.
Construct(o) ==
  /\ o \notin live
  /\ live' = live \cup {o}
  /\ health' = [health EXCEPT ![o] = NewHealth]
  /\ since' = [since EXCEPT ![o] = 0]
  /\ add_obj(o)
  /\ UNCHANGED <<server, cb>>

\* lidig_health::~lidig_health.
Destruct(o) ==
  /\ o \in live
  /\ live' = live \ {o}
  /\ erase_obj(o)
  /\ UNCHANGED <<server, cb, health, since>>

\* A component reports about itself, outside of run().
Check(o) ==
  /\ o \in live
  /\ health' = [health EXCEPT ![o] = set_check(@)]
  /\ UNCHANGED <<server, cb, live, obj_, since>>

Sick(o) ==
  /\ o \in live
  /\ health' = [health EXCEPT ![o] = set_sick(@, cb)]
  /\ UNCHANGED <<server, cb, live, obj_, since>>

Good(o) ==
  /\ o \in live
  /\ health' = [health EXCEPT ![o] = set_good(@, cb)]
  /\ since' = [since EXCEPT ![o] = IF is_good(health[o]) THEN @ ELSE 0]
  /\ UNCHANGED <<server, cb, live, obj_>>

\* health_server::run, called by the timer: every registered object is
\* visited, and each cure attempted has one of the possible outcomes.
run ==
  /\ server
  /\ \E c \in [obj_ -> CureOutcome] :
       health' = [o \in Obj |-> IF o \in obj_ THEN Visit(health[o], c[o], cb)
                                              ELSE health[o]]
  /\ since' = [o \in Obj |-> IF o \in obj_ THEN Waits(health[o], since[o])
                                           ELSE since[o]]
  /\ UNCHANGED <<server, cb, live, obj_>>

Next ==
  \/ default_health_init
  \/ default_health_init_cb
  \/ \E o \in Obj : Construct(o) \/ Destruct(o) \/ Check(o) \/ Sick(o) \/ Good(o)
  \/ run

Spec == Init /\ [][Next]_vars

\* The timer is periodic (default_health_init: 5000 ms, repeated) and nothing
\* on the loop thread blocks for ever.
FairSpec == Spec /\ WF_vars(run)

-----------------------------------------------------------------------------
(***************************************************************************)
(* Properties.                                                             *)
(***************************************************************************)

\* The backoff counters of run() stay in step for every object, whatever the
\* order of setters and ticks: the count is below the next threshold, and the
\* threshold is at most twice the count, so err_double_ *= 2 cannot run away.
BackoffInStep == \A o \in Obj : InStep(health[o])

\* run() keeps retrying: a registered object is never left sick for more than
\* (ErrLimit + 1) / 2 ticks between two calls of health_cure, although the
\* distance between attempts doubles and the setters move the status under it.
BoundedRetry == \A o \in Obj : 2 * since[o] <= ErrLimit + 1

\* The backoff whatever is reported between the timer's visits: its counters agree
\* with each other and bound the wait of a sick object.
BackoffIsSound == TypeOK /\ BackoffInStep /\ BoundedRetry

\* run() never calls through a dangling pointer: what obj_ holds is alive,
\* whether the object was constructed before or after default_health_init.
RegisteredAreLive == obj_ \subseteq live

\* What the alert callback heard last never contradicts the status: a sick
\* object was not last announced good, nor a good one last announced in error.
AlertsAgree ==
  \A o \in live :
    /\ is_sick(health[o]) => health[o].told # "good"
    /\ is_good(health[o]) => health[o].told # "error"
    /\ health[o].status_ = "NOT_CHECK" => health[o].told = "none"

\* A component that flaps between CHECK and SICK does not get its backoff
\* restarted: the threshold falls only on a report of GOOD (set_good, also from
\* within a cure attempt) or when the count passes the limit.
BackoffNotRestarted ==
  [][\A o \in live \cap live' :
       health'[o].err_double_ < health[o].err_double_ =>
         \/ is_good(health'[o])
         \/ is_sick(health[o]) /\ (Due(health[o]) \/ health[o].err_count_ >= ErrLimit)
    ]_vars

\* An object that has been sick for a tick is cured, retried or destroyed:
\* the timer's run() does not starve any registered object.
SickIsRetried ==
  \A o \in Obj :
    (o \in obj_ /\ is_sick(health[o]) /\ since[o] > 0)
      ~> (since[o] = 0 \/ ~is_sick(health[o]) \/ o \notin obj_)
=============================================================================
