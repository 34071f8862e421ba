---------------------------- MODULE HealthProofs ----------------------------
(***************************************************************************)
(* Invariance proofs for HealthServer, for every set of objects and every  *)
(* ErrLimit >= 1.                                                          *)
(***************************************************************************)
EXTENDS HealthServer, TLAPS

\* How long an object can have waited, given its counters: since the last
\* attempt, made at count err_double_ / 2, or, right after a restart, one gap.
Waited(h, s) ==
  IF h.err_double_ = 1 THEN 2 * s <= ErrLimit + 1
                       ELSE 2 * s <= 2 * h.err_count_ - h.err_double_

\* The status and the last alert of one object.
Told(h) ==
  /\ is_sick(h) => h.told # "good"
  /\ is_good(h) => h.told # "error"
  /\ h.status_ = "NOT_CHECK" => h.told = "none"

\* The inductive invariant.
IInv ==
  /\ TypeOK
  /\ \A o \in Obj : InStep(health[o]) /\ Waited(health[o], since[o])
  /\ \A o \in live : Told(health[o])
  /\ obj_ \subseteq live
  /\ ~server => obj_ = {}
  /\ ~cb => \A o \in live : health[o].told = "none"

-----------------------------------------------------------------------------
\* An alert changes nothing but the record of the last alert.
LEMMA AlertLemma ==
  ASSUME NEW h \in lidig_health, NEW b \in BOOLEAN, NEW type \in AlertType
  PROVE  LET g == send_alert(h, type, b)
         IN  /\ g \in lidig_health
             /\ g.status_ = h.status_
             /\ g.err_count_ = h.err_count_
             /\ g.err_double_ = h.err_double_
             /\ g.told = IF b THEN type ELSE h.told
<1>1. CASE b
  BY <1>1 DEF send_alert, lidig_health
<1>2. CASE ~b
  BY <1>2 DEF send_alert, lidig_health
<1> QED BY <1>1, <1>2

\* set_check, field by field.
LEMMA SetCheckLemma ==
  ASSUME NEW h \in lidig_health
  PROVE  LET g == set_check(h)
         IN  /\ g \in lidig_health
             /\ g.status_ = "CHECK"
             /\ g.err_count_ = h.err_count_
             /\ g.err_double_ = h.err_double_
             /\ g.told = h.told
BY DEF set_check, lidig_health, HEALTH_STATUS

\* set_sick, field by field.
LEMMA SetSickLemma ==
  ASSUME NEW h \in lidig_health, NEW b \in BOOLEAN
  PROVE  LET g == set_sick(h, b)
         IN  /\ g \in lidig_health
             /\ g.status_ = "SICK"
             /\ g.err_count_ = h.err_count_
             /\ g.err_double_ = h.err_double_
             /\ g.told = IF is_sick(h) \/ ~b THEN h.told ELSE "error"
<1>1. CASE is_sick(h)
  BY <1>1 DEF set_sick, is_sick
<1>2. CASE ~is_sick(h)
  <2> DEFINE k == [h EXCEPT !.status_ = "SICK"]
  <2>1. k \in lidig_health /\ k.status_ = "SICK" /\ k.err_count_ = h.err_count_
        /\ k.err_double_ = h.err_double_ /\ k.told = h.told
    BY DEF lidig_health, HEALTH_STATUS
  <2>2. set_sick(h, b) = send_alert(k, "error", b)
    BY <1>2 DEF set_sick
  <2> HIDE DEF k
  <2> QED BY <1>2, <2>1, <2>2, AlertLemma DEF AlertType
<1> QED BY <1>1, <1>2

\* set_good, field by field.
LEMMA SetGoodLemma ==
  ASSUME NEW h \in lidig_health, NEW b \in BOOLEAN
  PROVE  LET g == set_good(h, b)
         IN  /\ g \in lidig_health
             /\ g.status_ = "GOOD"
             /\ g.err_count_ = IF is_good(h) THEN h.err_count_ ELSE 0
             /\ g.err_double_ = IF is_good(h) THEN h.err_double_ ELSE 1
             /\ g.told = IF is_good(h) \/ ~b THEN h.told ELSE "good"
<1>1. CASE is_good(h)
  BY <1>1 DEF set_good, is_good
<1>2. CASE ~is_good(h)
  <2> DEFINE k == [h EXCEPT !.status_ = "GOOD", !.err_count_ = 0, !.err_double_ = 1]
  <2>1. k \in lidig_health /\ k.status_ = "GOOD" /\ k.err_count_ = 0
        /\ k.err_double_ = 1 /\ k.told = h.told
    BY DEF lidig_health, HEALTH_STATUS
  <2>2. set_good(h, b) = send_alert(k, "good", b)
    BY <1>2 DEF set_good
  <2> HIDE DEF k
  <2> QED BY <1>2, <2>1, <2>2, AlertLemma DEF AlertType
<1> QED BY <1>1, <1>2

\* A cure attempt keeps the counters in step and leaves no wait behind it.
LEMMA AttemptLemma ==
  ASSUME NEW h \in lidig_health, NEW b \in BOOLEAN, NEW c \in CureOutcome,
         InStep(h), Due(h), Told(h), ~b => h.told = "none"
  PROVE  LET g == Attempt(h, c, b)
         IN  /\ g \in lidig_health /\ InStep(g) /\ Waited(g, 0)
             /\ Told(g) /\ (~b => g.told = "none")
<1> DEFINE k == [h EXCEPT !.err_count_ = @ + 1, !.err_double_ = 2 * @]
           e == health_cure(k, c, b)
<1>1. /\ k \in lidig_health /\ k.status_ = "SICK" /\ k.told = h.told
      /\ k.err_count_ = h.err_count_ + 1 /\ k.err_double_ = 2 * h.err_double_
  <2>1. h.err_count_ + 1 \in Nat /\ 2 * h.err_double_ \in Nat
    BY DEF lidig_health
  <2>2. k = [[h EXCEPT !.err_count_ = h.err_count_ + 1] EXCEPT !.err_double_ = 2 * h.err_double_]
    BY DEF lidig_health
  <2>3. h.status_ = "SICK"
    BY DEF Due, is_sick
  <2> HIDE DEF k
  <2> QED BY <2>1, <2>2, <2>3 DEF lidig_health
<1>2. /\ k.err_count_ < k.err_double_ /\ k.err_double_ = 2 * k.err_count_
      /\ k.err_count_ <= ErrLimit + 1
      /\ k.err_count_ \in Nat /\ k.err_double_ \in Nat
  <2>1. h.err_count_ + 1 = h.err_double_ /\ h.err_count_ \in Nat /\ h.err_double_ \in Nat
    BY DEF Due, lidig_health
  <2>2. h.err_count_ + 1 <= ErrLimit + 1
    BY <2>1, ErrLimitAssumption DEF InStep
  <2> HIDE DEF k
  <2> QED BY <1>1, <2>1, <2>2, ErrLimitAssumption
<1>3. Attempt(h, c, b) = IF c.ret = 0 THEN set_check(e) ELSE e
  BY DEF Attempt
<1>4. /\ e \in lidig_health
      /\ e.err_count_ < e.err_double_
      /\ e.err_double_ = 1 \/ e.err_double_ = 2 * e.err_count_
      /\ e.err_count_ <= ErrLimit + 1
      /\ e.err_count_ > ErrLimit => e.err_double_ = 2 * e.err_count_
      /\ is_sick(e) => e.told # "good"
      /\ is_good(e) => e.told # "error"
      /\ e.status_ \in {"SICK", "GOOD"}
      /\ ~b => e.told = "none"
  <2> HIDE DEF k
  <2>1. CASE c.sets = "good"
    <3>1. e = set_good(k, b)
      BY <2>1 DEF health_cure
    <3>2. e.err_count_ = 0 /\ e.err_double_ = 1 /\ e.status_ = "GOOD" /\ e \in lidig_health
          /\ e.told = IF ~b THEN h.told ELSE "good"
      BY <1>1, <3>1, SetGoodLemma DEF is_good
    <3> QED BY <3>2, ErrLimitAssumption DEF is_sick, is_good
  <2>2. CASE c.sets = "sick"
    <3>1. e = set_sick(k, b)
      BY <2>2 DEF health_cure
    <3>2. e.err_count_ = k.err_count_ /\ e.err_double_ = k.err_double_ /\ e.status_ = "SICK"
          /\ e.told = h.told /\ e \in lidig_health
      BY <1>1, <3>1, SetSickLemma DEF is_sick
    <3> QED BY <1>2, <3>2 DEF is_sick, is_good, Due, Told
  <2>3. CASE c.sets = "nothing"
    <3>1. e = k
      BY <2>3 DEF health_cure
    <3> QED BY <1>1, <1>2, <3>1 DEF is_sick, is_good, Due, Told
  <2> QED BY <2>1, <2>2, <2>3 DEF CureOutcome
<1>5. /\ set_check(e) \in lidig_health /\ set_check(e).status_ = "CHECK"
      /\ set_check(e).err_count_ = e.err_count_ /\ set_check(e).err_double_ = e.err_double_
      /\ set_check(e).told = e.told
  <2> HIDE DEF e
  <2> QED BY <1>4, SetCheckLemma
<1> DEFINE g == Attempt(h, c, b)
<1>6. /\ g \in lidig_health
      /\ g.err_count_ = e.err_count_ /\ g.err_double_ = e.err_double_ /\ g.told = e.told
      /\ g.status_ = e.status_ \/ g.status_ = "CHECK"
  <2> HIDE DEF e
  <2> QED BY <1>3, <1>4, <1>5
<1> HIDE DEF e, g
<1>7. InStep(g)
  BY <1>4, <1>6, ErrLimitAssumption DEF InStep, lidig_health
<1>8. Waited(g, 0)
  BY <1>4, <1>6, ErrLimitAssumption DEF Waited, lidig_health
<1>9. Told(g) /\ (~b => g.told = "none")
  BY <1>4, <1>6 DEF Told, is_sick, is_good
<1> QED BY <1>6, <1>7, <1>8, <1>9 DEF g

\* A sick tick without an attempt keeps the counters in step and the wait
\* within its bound, also when the count passes the limit and starts over.
LEMMA WaitLemma ==
  ASSUME NEW h \in lidig_health, NEW s \in Nat, InStep(h), Waited(h, s),
         is_sick(h), ~Due(h)
  PROVE  LET g == Wait(h)
         IN  /\ g \in lidig_health /\ InStep(g) /\ Waited(g, Tick(s))
             /\ g.status_ = h.status_ /\ g.told = h.told
<1>1. /\ h.err_count_ \in Nat /\ h.err_double_ \in Nat /\ ErrLimit \in Nat \ {0}
      /\ h.err_count_ + 1 < h.err_double_
      /\ h.err_double_ <= 2 * h.err_count_
      /\ h.err_count_ <= ErrLimit + 1
  BY ErrLimitAssumption DEF InStep, Due, lidig_health
<1>2. 2 * s <= 2 * h.err_count_ - h.err_double_ /\ Tick(s) \in Nat /\ Tick(s) <= s + 1
  BY <1>1 DEF Waited, Tick
<1>3. CASE h.err_count_ + 1 > ErrLimit
  <2> DEFINE g == [h EXCEPT !.err_count_ = 0, !.err_double_ = 1]
  <2>1. g \in lidig_health /\ g.err_count_ = 0 /\ g.err_double_ = 1
        /\ g.status_ = h.status_ /\ g.told = h.told
    BY DEF lidig_health
  <2>2. Wait(h) = g
    BY <1>3 DEF Wait
  <2>3. 2 * Tick(s) <= ErrLimit + 1
    BY <1>1, <1>2
  <2> HIDE DEF g
  <2> QED BY <1>1, <2>1, <2>2, <2>3 DEF InStep, Waited
<1>4. CASE ~(h.err_count_ + 1 > ErrLimit)
  <2> DEFINE g == [h EXCEPT !.err_count_ = @ + 1]
  <2>1. g \in lidig_health /\ g.err_count_ = h.err_count_ + 1 /\ g.err_double_ = h.err_double_
        /\ g.status_ = h.status_ /\ g.told = h.told
    BY DEF lidig_health
  <2>2. Wait(h) = g
    BY <1>4 DEF Wait
  <2>3. InStep(g)
    BY <1>1, <1>4, <2>1 DEF InStep
  <2>4. Waited(g, Tick(s))
    BY <1>1, <1>2, <2>1 DEF Waited
  <2> HIDE DEF g
  <2> QED BY <2>1, <2>2, <2>3, <2>4
<1> QED BY <1>3, <1>4

\* One visit of run() to one object, and the history kept with it.
LEMMA VisitLemma ==
  ASSUME NEW h \in lidig_health, NEW b \in BOOLEAN, NEW c \in CureOutcome, NEW s \in Nat,
         InStep(h), Waited(h, s), Told(h), ~b => h.told = "none"
  PROVE  /\ Visit(h, c, b) \in lidig_health
         /\ Waits(h, s) \in Nat
         /\ InStep(Visit(h, c, b))
         /\ Waited(Visit(h, c, b), Waits(h, s))
         /\ Told(Visit(h, c, b))
         /\ ~b => Visit(h, c, b).told = "none"
<1>1. CASE ~is_sick(h)
  BY <1>1 DEF Visit, Waits
<1>2. CASE is_sick(h) /\ Due(h)
  BY <1>2, AttemptLemma DEF Visit, Waits
<1>3. CASE is_sick(h) /\ ~Due(h)
  <2>1. Tick(s) \in Nat
    BY DEF Tick
  <2>2. Visit(h, c, b) = Wait(h) /\ Waits(h, s) = Tick(s)
    BY <1>3 DEF Visit, Waits
  <2> QED BY <1>3, <2>1, <2>2, WaitLemma DEF Told, is_sick, is_good
<1> QED BY <1>1, <1>2, <1>3

-----------------------------------------------------------------------------
\* The initial state satisfies the inductive invariant.
LEMMA InitInv == Init => IInv
<1>1. NewHealth \in lidig_health /\ InStep(NewHealth) /\ Waited(NewHealth, 0)
  BY ErrLimitAssumption DEF NewHealth, lidig_health, HEALTH_STATUS, AlertType,
     InStep, Waited
<1> SUFFICES ASSUME Init PROVE IInv
  OBVIOUS
<1>2. \A o \in Obj : health[o] = NewHealth /\ since[o] = 0
  BY DEF Init
<1>3. TypeOK
  BY <1>1 DEF Init, TypeOK
<1> QED BY <1>1, <1>2, <1>3 DEF Init, IInv

\* Every action of the health server and of its objects preserves it.
LEMMA NextInv == IInv /\ [Next]_vars => IInv'
<1> SUFFICES ASSUME IInv, [Next]_vars PROVE IInv'
  OBVIOUS
<1>t. TypeOK
  BY DEF IInv
<1>1. CASE default_health_init
  BY <1>1 DEF IInv, TypeOK, default_health_init
<1>2. CASE default_health_init_cb
  BY <1>2 DEF IInv, TypeOK, default_health_init_cb
<1>3. ASSUME NEW o \in Obj, Construct(o) PROVE IInv'
  <2>1. NewHealth \in lidig_health /\ InStep(NewHealth) /\ Waited(NewHealth, 0)
        /\ Told(NewHealth) /\ NewHealth.told = "none"
    BY ErrLimitAssumption DEF NewHealth, lidig_health, HEALTH_STATUS, AlertType,
       InStep, Waited, Told, is_sick, is_good
  <2> QED BY <1>3, <1>t, <2>1 DEF IInv, TypeOK, Construct, add_obj
<1>4. ASSUME NEW o \in Obj, Destruct(o) PROVE IInv'
  BY <1>4 DEF IInv, TypeOK, Destruct, erase_obj
<1>5. ASSUME NEW o \in Obj, Check(o) PROVE IInv'
  <2> DEFINE g == set_check(health[o])
  <2>1. g \in lidig_health /\ InStep(g) /\ Waited(g, since[o])
        /\ Told(g) /\ (~cb => g.told = "none")
    BY <1>5, SetCheckLemma DEF Check, IInv, TypeOK, InStep, Waited, Told, is_sick, is_good
  <2> HIDE DEF g
  <2>2. health' = [health EXCEPT ![o] = g]
    BY <1>5 DEF Check, g
  <2> QED BY <1>5, <2>1, <2>2 DEF IInv, TypeOK, Check
<1>6. ASSUME NEW o \in Obj, Sick(o) PROVE IInv'
  <2> DEFINE g == set_sick(health[o], cb)
  <2>1. g \in lidig_health /\ InStep(g) /\ Waited(g, since[o])
        /\ Told(g) /\ (~cb => g.told = "none")
    BY <1>6, SetSickLemma DEF Sick, IInv, TypeOK, InStep, Waited, Told, is_sick, is_good
  <2> HIDE DEF g
  <2>2. health' = [health EXCEPT ![o] = g]
    BY <1>6 DEF Sick, g
  <2> QED BY <1>6, <2>1, <2>2 DEF IInv, TypeOK, Sick
<1>7. ASSUME NEW o \in Obj, Good(o) PROVE IInv'
  <2> DEFINE g == set_good(health[o], cb)
             t == IF is_good(health[o]) THEN since[o] ELSE 0
  <2>1. g \in lidig_health /\ InStep(g) /\ Waited(g, t) /\ t \in Nat
        /\ Told(g) /\ (~cb => g.told = "none")
    BY <1>7, SetGoodLemma, ErrLimitAssumption
       DEF Good, IInv, TypeOK, InStep, Waited, Told, is_sick, is_good
  <2> HIDE DEF g, t
  <2>2. health' = [health EXCEPT ![o] = g] /\ since' = [since EXCEPT ![o] = t]
    BY <1>7, <1>t DEF Good, g, t, TypeOK
  <2> QED BY <1>7, <2>1, <2>2 DEF IInv, TypeOK, Good
<1>8. CASE run
  <2>1. PICK c \in [obj_ -> CureOutcome] :
          health' = [o \in Obj |-> IF o \in obj_ THEN Visit(health[o], c[o], cb)
                                                 ELSE health[o]]
    BY <1>8 DEF run
  <2>2. \A o \in Obj : o \in obj_ =>
          /\ health'[o] \in lidig_health /\ since'[o] \in Nat
          /\ InStep(health'[o]) /\ Waited(health'[o], since'[o])
          /\ Told(health'[o]) /\ (~cb => health'[o].told = "none")
    <3> TAKE o \in Obj
    <3> HAVE o \in obj_
    <3>1. health[o] \in lidig_health /\ cb \in BOOLEAN /\ c[o] \in CureOutcome /\ since[o] \in Nat
      BY DEF IInv, TypeOK
    <3>2. InStep(health[o]) /\ Waited(health[o], since[o]) /\ Told(health[o])
          /\ (~cb => health[o].told = "none")
      BY DEF IInv
    <3>3. health'[o] = Visit(health[o], c[o], cb)
      BY <2>1
    <3>4. since'[o] = Waits(health[o], since[o])
      BY <1>8 DEF run
    <3> QED BY <3>1, <3>2, <3>3, <3>4, VisitLemma
  <2>3. \A o \in Obj : o \notin obj_ => health'[o] = health[o] /\ since'[o] = since[o]
    BY <1>8, <2>1 DEF run
  <2>4. DOMAIN health' = Obj /\ DOMAIN since' = Obj
        /\ health' = [o \in Obj |-> health'[o]] /\ since' = [o \in Obj |-> since'[o]]
    BY <1>8, <2>1 DEF run
  <2>5. TypeOK'
    BY <1>8, <1>t, <2>2, <2>3, <2>4 DEF run, TypeOK
  <2> QED BY <1>8, <2>2, <2>3, <2>5 DEF IInv, run, TypeOK
<1>9. CASE UNCHANGED vars
  BY <1>9 DEF IInv, TypeOK, vars
<1> QED BY <1>1, <1>2, <1>3, <1>4, <1>5, <1>6, <1>7, <1>8, <1>9 DEF Next

\* The inductive invariant holds throughout.
LEMMA Invariance == Spec => []IInv
BY InitInv, NextInv, PTL DEF Spec

\* Type correctness of the health server, for any number of objects.
THEOREM TypeCorrect == Spec => []TypeOK
BY Invariance, PTL DEF IInv

\* The backoff counters of every object stay in step (and so within the bound
\* of ErrLimit that keeps the int err_double_ from overflowing).
THEOREM BackoffCorrect == Spec => []BackoffInStep
<1>1. IInv => BackoffInStep
  BY DEF IInv, BackoffInStep
<1> QED BY <1>1, Invariance, PTL

\* health_server::run never leaves an object sick for more than
\* (ErrLimit + 1) / 2 ticks between two cure attempts.
THEOREM RetryIsBounded == Spec => []BoundedRetry
<1>1. IInv => BoundedRetry
  BY ErrLimitAssumption
     DEF IInv, BoundedRetry, Waited, InStep, TypeOK, lidig_health
<1> QED BY <1>1, Invariance, PTL

\* obj_ never holds a destroyed object.
THEOREM NoDanglingObject == Spec => []RegisteredAreLive
BY Invariance, PTL DEF IInv, RegisteredAreLive

\* The alerts the callback received never contradict the status.
THEOREM AlertsAreTrue == Spec => []AlertsAgree
<1>1. IInv => AlertsAgree
  BY DEF IInv, AlertsAgree, Told
<1> QED BY <1>1, Invariance, PTL

\* The backoff of every object is sound, for any objects and limit.
THEOREM BackoffSound == Spec => []BackoffIsSound
BY TypeCorrect, BackoffCorrect, RetryIsBounded, PTL DEF BackoffIsSound

-----------------------------------------------------------------------------
\* What one step may do to the threshold of an object that outlives it.
Falls(o) ==
  health'[o].err_double_ < health[o].err_double_ =>
    \/ is_good(health'[o])
    \/ is_sick(health[o]) /\ (Due(health[o]) \/ health[o].err_count_ >= ErrLimit)

\* A visit of run() lowers the threshold of an object only at an attempt or past
\* the limit.
LEMMA VisitFalls ==
  ASSUME NEW h \in lidig_health, NEW b \in BOOLEAN, NEW c \in CureOutcome,
         Visit(h, c, b).err_double_ < h.err_double_
  PROVE  is_sick(h) /\ (Due(h) \/ h.err_count_ >= ErrLimit)
<1>1. h.err_count_ \in Nat /\ h.err_double_ \in Nat /\ ErrLimit \in Nat
  BY ErrLimitAssumption DEF lidig_health
<1>2. is_sick(h)
  BY <1>1 DEF Visit
<1>3. CASE ~Due(h) /\ ~(h.err_count_ + 1 > ErrLimit)
  <2>1. Visit(h, c, b) = [h EXCEPT !.err_count_ = @ + 1]
    BY <1>2, <1>3 DEF Visit, Wait
  <2>2. Visit(h, c, b).err_double_ = h.err_double_
    BY <2>1 DEF lidig_health
  <2> QED BY <1>1, <2>2
<1> QED BY <1>1, <1>2, <1>3

\* Every step of the health server lowers a threshold only as allowed.
LEMMA StepFalls ==
  ASSUME TypeOK, [Next]_vars, NEW o \in live \cap live'
  PROVE  Falls(o)
<1>1. /\ o \in Obj /\ health[o] \in lidig_health /\ health[o].err_double_ \in Nat
      /\ cb \in BOOLEAN
  BY DEF TypeOK, lidig_health
<1>2. CASE health'[o] = health[o]
  BY <1>1, <1>2 DEF Falls
<1>3. ASSUME NEW p \in Obj, Construct(p) PROVE Falls(o)
  <2>1. p # o
    BY <1>3 DEF Construct
  <2> QED BY <1>2, <1>3, <2>1 DEF Construct, TypeOK
<1>4. ASSUME NEW p \in Obj, Check(p) PROVE Falls(o)
  <2>1. health'[o] = IF p = o THEN set_check(health[o]) ELSE health[o]
    BY <1>1, <1>4 DEF Check, TypeOK
  <2>2. health'[o].err_double_ = health[o].err_double_
    BY <1>1, <2>1, SetCheckLemma
  <2> QED BY <1>1, <2>2 DEF Falls
<1>5. ASSUME NEW p \in Obj, Sick(p) PROVE Falls(o)
  <2>1. health'[o] = IF p = o THEN set_sick(health[o], cb) ELSE health[o]
    BY <1>1, <1>5 DEF Sick, TypeOK
  <2>2. health'[o].err_double_ = health[o].err_double_
    BY <1>1, <2>1, SetSickLemma
  <2> QED BY <1>1, <2>2 DEF Falls
<1>6. ASSUME NEW p \in Obj, Good(p) PROVE Falls(o)
  <2>1. health'[o] = IF p = o THEN set_good(health[o], cb) ELSE health[o]
    BY <1>1, <1>6 DEF Good, TypeOK
  <2>2. p = o => is_good(health'[o])
    BY <1>1, <2>1, SetGoodLemma DEF is_good
  <2> QED BY <1>2, <2>1, <2>2 DEF Falls
<1>7. CASE run
  <2>1. PICK c \in [obj_ -> CureOutcome] :
          health' = [p \in Obj |-> IF p \in obj_ THEN Visit(health[p], c[p], cb) ELSE health[p]]
    BY <1>7 DEF run
  <2>2. CASE o \in obj_
    <3>1. health'[o] = Visit(health[o], c[o], cb) /\ c[o] \in CureOutcome
      BY <1>1, <2>1, <2>2
    <3> QED BY <1>1, <3>1, VisitFalls DEF Falls
  <2>3. CASE o \notin obj_
    BY <1>1, <1>2, <2>1, <2>3
  <2> QED BY <2>2, <2>3
<1>8. CASE health' = health
  BY <1>2, <1>8
<1> QED BY <1>3, <1>4, <1>5, <1>6, <1>7, <1>8
        DEF Next, vars, default_health_init, default_health_init_cb, Destruct

\* A component that flaps between CHECK and SICK never restarts its backoff: the
\* threshold falls on GOOD, at an attempt, or past the limit.
THEOREM BackoffNeverRestarted == Spec => BackoffNotRestarted
<1>1. TypeOK /\ [Next]_vars =>
        [\A o \in live \cap live' :
           health'[o].err_double_ < health[o].err_double_ =>
             \/ is_good(health'[o])
             \/ is_sick(health[o]) /\ (Due(health[o]) \/ health[o].err_count_ >= ErrLimit)]_vars
  BY StepFalls DEF Falls
<1> QED BY <1>1, TypeCorrect, PTL DEF Spec, BackoffNotRestarted
=============================================================================
