-------------------------------- MODULE Modbus --------------------------------
(***************************************************************************)
(* lidig_modbus (network/lidig_modbus.cpp) on the health object it derives    *)
(* from: requests of several threads on one serial line, serialised by        *)
(* mutex_, while the loop thread opens the line and health_server cures it     *)
(* without taking the mutex.  close() frees the context behind the back of     *)
(* every later request; the application calls it last.                         *)
(***************************************************************************)
EXTENDS HealthObject, FiniteSets

CONSTANTS
    Callers,     \* threads that make requests; each talks to the slave of its name
    MaxRequest   \* bound: requests of a thread

\* mutex_ is nobody's when it is free.
ASSUME ModbusAssumption == "free" \notin Callers

VARIABLES
    mb_health,   \* the lidig_health part
    is_alive_m,  \* is_alive_
    ctx,         \* ctx_: "null", "new", "connecting" (in modbus_connect), "open", "failed"
    slave,       \* the slave set in the context
    mutex,       \* mutex_: its owner, or "free"
    pc,          \* thread -> "idle", "locked", "checked", "raw", "io", "rawio"
    requests     \* thread -> requests made

modbusVars == <<mb_health, is_alive_m, ctx, slave, mutex, pc, requests>>

ModbusInit ==
    /\ mb_health = NewHealth /\ is_alive_m = FALSE /\ ctx = "null" /\ slave = "none"
    /\ mutex = "free" /\ pc = [t \in Callers |-> "idle"] /\ requests = [t \in Callers |-> 0]

-----------------------------------------------------------------------------
\* Mutant: a failed connect leaves the line marked alive.
Connected_Alive(ok) ==
    /\ ctx' = IF ok THEN "open" ELSE "failed"
    /\ is_alive_m' = TRUE
    /\ mb_health' = IF ok THEN set_good(mb_health, TRUE) ELSE set_sick(mb_health, TRUE)

\* modbus_connect has returned, in open and in health_cure.
Connected(ok) ==
    /\ ctx' = IF ok THEN "open" ELSE "failed"
    /\ is_alive_m' = ok
    /\ mb_health' = IF ok THEN set_good(mb_health, TRUE) ELSE set_sick(mb_health, TRUE)

\* open: a new context is connected.
modbus_open(ok) ==
    /\ ctx = "null"
    /\ Connected(ok)
    /\ UNCHANGED <<slave, mutex, pc, requests>>

\* health_server's visit, up to the call of modbus_connect in health_cure.
health_cure_begin ==
    /\ ctx \in {"open", "failed"} /\ Due(mb_health)
    /\ ctx' = "connecting"
    /\ mb_health' = [mb_health EXCEPT !.err_count_ = @ + 1, !.err_double_ = 2 * @]
    /\ UNCHANGED <<is_alive_m, slave, mutex, pc, requests>>

\* The rest of it; after a cure that returns 0 the visit sets CHECK.
health_cure_end(ok) ==
    /\ ctx = "connecting"
    /\ ctx' = (IF ok THEN "open" ELSE "failed") /\ is_alive_m' = ok
    /\ mb_health' = IF ok THEN set_check(set_good(mb_health, TRUE)) ELSE set_sick(mb_health, TRUE)
    /\ UNCHANGED <<slave, mutex, pc, requests>>

\* A visit that only counts.
health_wait ==
    /\ is_sick(mb_health) /\ ~Due(mb_health) /\ ctx # "connecting"
    /\ mb_health' = Wait(mb_health)
    /\ UNCHANGED <<is_alive_m, ctx, slave, mutex, pc, requests>>

\* Mutant: no lidig_scope_lock.
scope_lock_None(t) ==
    /\ pc[t] = "idle" /\ requests[t] < MaxRequest
    /\ pc' = [pc EXCEPT ![t] = "locked"] /\ requests' = [requests EXCEPT ![t] = @ + 1]
    /\ UNCHANGED <<mb_health, is_alive_m, ctx, slave, mutex>>

\* A request begins: lidig_scope_lock takes the mutex.
scope_lock(t) ==
    /\ pc[t] = "idle" /\ requests[t] < MaxRequest /\ mutex = "free"
    /\ mutex' = t /\ pc' = [pc EXCEPT ![t] = "locked"]
    /\ requests' = [requests EXCEPT ![t] = @ + 1]
    /\ UNCHANGED <<mb_health, is_alive_m, ctx, slave>>

Unlock(t) == mutex' = (IF mutex = t THEN "free" ELSE mutex) /\ pc' = [pc EXCEPT ![t] = "idle"]

\* modbus_set_slave, which fails without a context; the raw requests set none.
set_slave(t, raw) ==
    /\ pc[t] = "locked"
    /\ IF ~raw /\ ctx = "null" THEN Unlock(t) /\ UNCHANGED slave
       ELSE /\ slave' = IF raw THEN slave ELSE t
            /\ pc' = [pc EXCEPT ![t] = IF raw THEN "raw" ELSE "checked"] /\ UNCHANGED mutex
    /\ UNCHANGED <<mb_health, is_alive_m, ctx, requests>>

\* Without a context or not alive the request returns -1.
request_check(t) ==
    /\ pc[t] \in {"checked", "raw"}
    /\ IF ctx = "null" \/ ~is_alive_m THEN Unlock(t)
       ELSE pc' = [pc EXCEPT ![t] = IF @ = "raw" THEN "rawio" ELSE "io"] /\ UNCHANGED mutex
    /\ UNCHANGED <<mb_health, is_alive_m, ctx, slave, requests>>

\* The answer, or an error, neither of which is looked at.
request_done(t) ==
    /\ pc[t] \in {"io", "rawio"} /\ Unlock(t)
    /\ UNCHANGED <<mb_health, is_alive_m, ctx, slave, requests>>

ModbusNext ==
    \/ \E ok \in BOOLEAN : modbus_open(ok) \/ health_cure_end(ok)
    \/ health_cure_begin \/ health_wait
    \/ \E t \in Callers : \/ scope_lock(t) \/ request_check(t) \/ request_done(t)
                          \/ \E raw \in BOOLEAN : set_slave(t, raw)

ModbusSpec == ModbusInit /\ [][ModbusNext]_modbusVars

-----------------------------------------------------------------------------
(* Properties *)

Busy == {t \in Callers : pc[t] \in {"io", "rawio"}}

\* Every request but a raw one is made with the slave its caller asked for, and
\* alone on the line: the slave cannot be changed between the setting and the use.
SlaveIsOwn ==
    /\ Cardinality(Busy) <= 1
    /\ \A t \in Callers : pc[t] = "io" => slave = t

\* Although health_cure does not take the mutex, it never reconnects the line
\* under a request: what is SICK is not alive, and what is alive never gets SICK.
CureIsAlone == /\ is_sick(mb_health) => ~is_alive_m
               /\ ctx = "connecting" => Busy = {}

\* The line belongs to one request at a time, against the other callers and against
\* the health timer's reconnection.
LineIsExclusive == SlaveIsOwn /\ CureIsAlone
=============================================================================
