---------------------------- MODULE HealthObject ----------------------------
(***************************************************************************)
(* The data part of the health module: one lidig_health object and what    *)
(* its setters and one visit of health_server::run do to it                *)
(* (base/lidig_health.cpp, include/base/lidig_health.h).  Pure operators,  *)
(* shared by HealthServer and by the components that derive from           *)
(* lidig_health.                                                           *)
(***************************************************************************)
EXTENDS Integers

CONSTANT ErrLimit   \* the literal 1000 in health_server::run

ASSUME ErrLimitAssumption == ErrLimit \in Nat \ {0}

HEALTH_STATUS == {"NOT_CHECK", "CHECK", "SICK", "GOOD"}

\* The type of the last status alert handed to send_alert_cb_.
AlertType == {"none", "error", "good"}

lidig_health == [status_: HEALTH_STATUS, err_count_: Nat, err_double_: Nat,
                 told: AlertType]

\* The constructor.
NewHealth == [status_ |-> "NOT_CHECK", err_count_ |-> 0, err_double_ |-> 1,
              told |-> "none"]

is_sick(h) == h.status_ = "SICK"
is_good(h) == h.status_ = "GOOD"

\* An alert raised while no callback is installed is dropped.
send_alert(h, type, cb) == IF cb THEN [h EXCEPT !.told = type] ELSE h

set_check(h) == [h EXCEPT !.status_ = "CHECK"]

\* Mutated forms of set_sick: silent unless never checked; restarts the backoff.
set_sick_Silent(h, cb) ==
  IF is_sick(h) THEN h
  ELSE send_alert([h EXCEPT !.status_ = "SICK"], "error", cb /\ h.status_ = "NOT_CHECK")

set_sick_Restarts(h, cb) ==
  IF is_sick(h) THEN h
  ELSE send_alert([h EXCEPT !.status_ = "SICK", !.err_count_ = 0,
                            !.err_double_ = 1], "error", cb)

set_sick(h, cb) ==
  IF is_sick(h) THEN h
  ELSE send_alert([h EXCEPT !.status_ = "SICK"], "error", cb)

\* Mutated form of set_good: the counter is not reset.
set_good_KeepsCount(h, cb) ==
  IF is_good(h) THEN h
  ELSE send_alert([h EXCEPT !.status_ = "GOOD", !.err_double_ = 1], "good", cb)

set_good(h, cb) ==
  IF is_good(h) THEN h
  ELSE send_alert([h EXCEPT !.status_ = "GOOD", !.err_count_ = 0,
                            !.err_double_ = 1], "good", cb)

(***************************************************************************)
(* health_cure is virtual.  Its implementations: lidig_mqtt and lidig_amqp *)
(* start a reconnection and return 0; lidig_amqp returns -1 when it has a  *)
(* connection or no address; uv_queue_work can fail; lidig_modbus connects *)
(* synchronously and itself calls set_good (0) or set_sick (nonzero).      *)
(***************************************************************************)
CureOutcome == {[sets |-> "nothing", ret |-> 0], [sets |-> "nothing", ret |-> -1],
                [sets |-> "good", ret |-> 0], [sets |-> "sick", ret |-> -1]}

health_cure(h, c, cb) ==
  CASE c.sets = "good" -> set_good(h, cb)
    [] c.sets = "sick" -> set_sick(h, cb)
    [] OTHER -> h

\* run() is about to call health_cure on h.
Due(h) == is_sick(h) /\ h.err_count_ + 1 = h.err_double_

\* The cure attempt made when the counter reaches err_double_.
Attempt(h, c, cb) ==
  LET g == health_cure([h EXCEPT !.err_count_ = @ + 1, !.err_double_ = 2 * @], c, cb)
  IN  IF c.ret = 0 THEN set_check(g) ELSE g

\* Mutated forms of Wait: no limit; the threshold is not restarted; counting down.
Wait_Unlimited(h) == [h EXCEPT !.err_count_ = @ + 1]

Wait_KeepsDouble(h) ==
  IF h.err_count_ + 1 > ErrLimit
  THEN [h EXCEPT !.err_count_ = 0]
  ELSE [h EXCEPT !.err_count_ = @ + 1]

Wait_CountsDown(h) ==
  IF h.err_count_ + 1 > ErrLimit
  THEN [h EXCEPT !.err_count_ = 0, !.err_double_ = 1]
  ELSE [h EXCEPT !.err_count_ = @ - 2]

\* A sick tick that is not an attempt: count, or start over past the limit.
Wait(h) ==
  IF h.err_count_ + 1 > ErrLimit
  THEN [h EXCEPT !.err_count_ = 0, !.err_double_ = 1]
  ELSE [h EXCEPT !.err_count_ = @ + 1]

\* One iteration of the loop of health_server::run.
Visit(h, c, cb) ==
  IF ~is_sick(h) THEN h
  ELSE IF Due(h) THEN Attempt(h, c, cb) ELSE Wait(h)


\* The count is below the next threshold, the threshold at most twice the count;
\* past the limit the count is that of the attempt just made.
InStep(h) ==
  /\ h.err_count_ < h.err_double_
  /\ h.err_double_ = 1 \/ h.err_double_ <= 2 * h.err_count_
  /\ h.err_count_ <= ErrLimit + 1
  /\ h.err_count_ > ErrLimit => h.err_double_ = 2 * h.err_count_
=============================================================================
