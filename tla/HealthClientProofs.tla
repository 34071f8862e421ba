------------------------- MODULE HealthClientProofs -------------------------
(***************************************************************************)
(* Invariance proofs for the components that derive from lidig_health:      *)
(* lidig_mqtt, lidig_modbus and lidig_amqp, for every ErrLimit >= 1 and      *)
(* any number of topics, jobs, messages, stops, callers and routing keys.    *)
(***************************************************************************)
EXTENDS MqttClient, Modbus, Amqp, FiniteSetTheorems, SequenceTheorems, TLAPS

-----------------------------------------------------------------------------
(* What the setters and a visit of health_server do to the lidig_health part. *)

\* set_check, set_sick and set_good keep the record well-typed and the backoff in
\* step, and set the status they are named for.
LEMMA SettersLemma ==
  ASSUME NEW h \in lidig_health
  PROVE  /\ set_check(h) \in lidig_health /\ set_check(h).status_ = "CHECK"
         /\ set_sick(h, TRUE) \in lidig_health /\ set_sick(h, TRUE).status_ = "SICK"
         /\ set_good(h, TRUE) \in lidig_health /\ set_good(h, TRUE).status_ = "GOOD"
         /\ InStep(h) => /\ InStep(set_check(h)) /\ InStep(set_sick(h, TRUE))
                         /\ InStep(set_good(h, TRUE))
<1>1. set_check(h) \in lidig_health /\ set_check(h).status_ = "CHECK"
      /\ set_check(h).err_count_ = h.err_count_ /\ set_check(h).err_double_ = h.err_double_
  BY DEF set_check, lidig_health, HEALTH_STATUS
<1>2. set_sick(h, TRUE) \in lidig_health /\ set_sick(h, TRUE).status_ = "SICK"
      /\ set_sick(h, TRUE).err_count_ = h.err_count_
      /\ set_sick(h, TRUE).err_double_ = h.err_double_
  <2> DEFINE k == [[h EXCEPT !.status_ = "SICK"] EXCEPT !.told = "error"]
  <2>1. k \in lidig_health /\ k.status_ = "SICK" /\ k.err_count_ = h.err_count_
        /\ k.err_double_ = h.err_double_
    BY DEF lidig_health, HEALTH_STATUS, AlertType
  <2>2. set_sick(h, TRUE) = IF h.status_ = "SICK" THEN h ELSE k
    BY DEF set_sick, is_sick, send_alert
  <2> HIDE DEF k
  <2> QED BY <2>1, <2>2
<1>3. /\ set_good(h, TRUE) \in lidig_health /\ set_good(h, TRUE).status_ = "GOOD"
      /\ \/ set_good(h, TRUE) = h
         \/ set_good(h, TRUE).err_count_ = 0 /\ set_good(h, TRUE).err_double_ = 1
  <2> DEFINE k == [[h EXCEPT !.status_ = "GOOD", !.err_count_ = 0, !.err_double_ = 1]
                     EXCEPT !.told = "good"]
  <2>1. k \in lidig_health /\ k.status_ = "GOOD" /\ k.err_count_ = 0 /\ k.err_double_ = 1
    BY DEF lidig_health, HEALTH_STATUS, AlertType
  <2>2. set_good(h, TRUE) = IF h.status_ = "GOOD" THEN h ELSE k
    BY DEF set_good, is_good, send_alert
  <2> HIDE DEF k
  <2> QED BY <2>1, <2>2
<1>4. InStep(h) => InStep(set_check(h)) /\ InStep(set_sick(h, TRUE))
  BY <1>1, <1>2 DEF InStep
<1>5. InStep(h) => InStep(set_good(h, TRUE))
  <2> DEFINE g == set_good(h, TRUE)
  <2>1. g = h \/ (g.err_count_ = 0 /\ g.err_double_ = 1)
    BY <1>3
  <2> HIDE DEF g
  <2>2. g.err_count_ = 0 /\ g.err_double_ = 1 => InStep(g)
    BY ErrLimitAssumption DEF InStep
  <2>3. InStep(h) => InStep(g)
    BY <2>1, <2>2
  <2> QED BY <2>3 DEF g
<1> QED BY <1>1, <1>2, <1>3, <1>4, <1>5

\* A new object is well-typed, not yet checked, and its backoff in step.
LEMMA NewHealthLemma ==
  NewHealth \in lidig_health /\ NewHealth.status_ = "NOT_CHECK" /\ InStep(NewHealth)
BY ErrLimitAssumption DEF NewHealth, lidig_health, HEALTH_STATUS, AlertType, InStep

\* The counting of a cure attempt, made by health_server before it calls health_cure.
LEMMA CountLemma ==
  ASSUME NEW h \in lidig_health
  PROVE  LET k == [h EXCEPT !.err_count_ = @ + 1, !.err_double_ = 2 * @]
         IN  /\ k \in lidig_health /\ k.status_ = h.status_
             /\ k.err_count_ = h.err_count_ + 1 /\ k.err_double_ = 2 * h.err_double_
<1>1. h.err_count_ + 1 \in Nat /\ 2 * h.err_double_ \in Nat
  BY DEF lidig_health
<1> QED BY <1>1 DEF lidig_health

\* A sick tick without an attempt only counts.
LEMMA WaitLemma ==
  ASSUME NEW h \in lidig_health
  PROVE  /\ Wait(h) \in lidig_health /\ Wait(h).status_ = h.status_
         /\ InStep(h) /\ is_sick(h) /\ ~Due(h) => InStep(Wait(h))
<1>1. h.err_count_ \in Nat /\ h.err_double_ \in Nat /\ ErrLimit \in Nat \ {0}
  BY ErrLimitAssumption DEF lidig_health
<1>2. CASE h.err_count_ + 1 > ErrLimit
  <2> DEFINE g == [h EXCEPT !.err_count_ = 0, !.err_double_ = 1]
  <2>1. g \in lidig_health /\ g.err_count_ = 0 /\ g.err_double_ = 1 /\ g.status_ = h.status_
    BY DEF lidig_health
  <2>2. Wait(h) = g
    BY <1>2 DEF Wait
  <2> HIDE DEF g
  <2> QED BY <1>1, <2>1, <2>2 DEF InStep
<1>3. CASE ~(h.err_count_ + 1 > ErrLimit)
  <2> DEFINE g == [h EXCEPT !.err_count_ = @ + 1]
  <2>1. g \in lidig_health /\ g.err_count_ = h.err_count_ + 1
        /\ g.err_double_ = h.err_double_ /\ g.status_ = h.status_
    BY <1>1 DEF lidig_health
  <2>2. Wait(h) = g
    BY <1>3 DEF Wait
  <2> HIDE DEF g
  <2> QED BY <1>1, <1>3, <2>1, <2>2 DEF InStep, Due
<1> QED BY <1>2, <1>3

\* A visit in which health_cure starts a reconnection (0) or does nothing (-1)
\* leaves a sick object SICK, or CHECK after a cure that returned 0.
LEMMA VisitLemma ==
  ASSUME NEW h \in lidig_health, is_sick(h), NEW r \in Int
  PROVE  LET g == Visit(h, [sets |-> "nothing", ret |-> r], TRUE)
         IN  /\ g \in lidig_health
             /\ g.status_ = (IF Due(h) /\ r = 0 THEN "CHECK" ELSE "SICK")
             /\ InStep(h) => InStep(g)
<1> DEFINE c == [sets |-> "nothing", ret |-> r]
           k == [h EXCEPT !.err_count_ = @ + 1, !.err_double_ = 2 * @]
<1>1. CASE ~Due(h)
  <2>1. Visit(h, c, TRUE) = Wait(h)
    BY <1>1 DEF Visit
  <2> QED BY <1>1, <2>1, WaitLemma DEF is_sick
<1>2. CASE Due(h)
  <2>1. Visit(h, c, TRUE) = IF r = 0 THEN set_check(k) ELSE k
    BY <1>2 DEF Visit, Attempt, health_cure
  <2>2. k \in lidig_health /\ k.status_ = "SICK" /\ k.err_count_ = h.err_count_ + 1
        /\ k.err_double_ = 2 * h.err_double_
    BY CountLemma DEF is_sick
  <2>3. InStep(h) => InStep(k)
    <3>1. h.err_count_ \in Nat /\ h.err_double_ \in Nat /\ h.err_count_ + 1 = h.err_double_
      BY <1>2 DEF Due, lidig_health
    <3> HIDE DEF k
    <3> QED BY <2>2, <3>1, ErrLimitAssumption DEF InStep
  <2> HIDE DEF k
  <2> QED BY <1>2, <2>1, <2>2, <2>3, SettersLemma
<1> QED BY <1>1, <1>2

-----------------------------------------------------------------------------
(* lidig_amqp *)

\* AmqpIsSound is inductive once the record is well-typed.
AmqpInv ==
  /\ am_health \in lidig_health
  /\ reconnected \in BOOLEAN
  /\ AmqpHealthTells
  /\ KeysStayBound

\* A new client has neither a connection nor a status.
LEMMA AmqpInitInv == AmqpInit => AmqpInv
BY NewHealthLemma
   DEF AmqpInit, AmqpInv, AmqpHealthTells, KeysStayBound, is_sick, is_good

\* No call, callback or visit of the health server breaks it.
LEMMA AmqpNextInv == AmqpInv /\ [AmqpNext]_amqpVars => AmqpInv'
<1> SUFFICES ASSUME AmqpInv, [AmqpNext]_amqpVars PROVE AmqpInv'
  OBVIOUS
<1> USE DEF AmqpInv, AmqpHealthTells, KeysStayBound, is_sick, is_good
<1>1. CASE amqp_connect
  BY <1>1 DEF amqp_connect
<1>2. CASE amqp_disconnect
  BY <1>2, SettersLemma DEF amqp_disconnect, disconnect
<1>3. CASE onError
  <2>1. am_health' = set_sick(set_check(am_health), TRUE) /\ connection' = "null"
    BY <1>3 DEF onError, disconnect
  <2>2. set_check(am_health) \in lidig_health
    BY SettersLemma
  <2>3. am_health' \in lidig_health /\ am_health'.status_ = "SICK"
    BY <2>1, <2>2, SettersLemma
  <2> QED BY <1>3, <2>1, <2>3 DEF onError
<1>4. CASE onConnected
  BY <1>4, SettersLemma DEF onConnected
<1>5. CASE amqp_visit
  <2>1. CASE Due(am_health) /\ connection = "null" /\ address
    <3>1. is_sick(am_health) /\ am_health' = Visit(am_health, [sets |-> "nothing", ret |-> 0], TRUE)
      BY <1>5, <2>1 DEF amqp_visit, Visit
    <3> DEFINE r == 0
    <3>r. r \in Int /\ r = 0 /\ am_health' = Visit(am_health, [sets |-> "nothing", ret |-> r], TRUE)
      BY <3>1
    <3> HIDE DEF r
    <3>2. am_health' \in lidig_health /\ am_health'.status_ = "CHECK"
      BY <2>1, <3>1, <3>r, VisitLemma
    <3>3. connection' = "new" /\ key_vec' \subseteq bound'
      BY <1>5, <2>1 DEF amqp_visit, health_cure_amqp
    <3> QED BY <1>5, <3>2, <3>3 DEF amqp_visit
  <2>2. CASE ~(Due(am_health) /\ connection = "null" /\ address)
    <3>1. /\ is_sick(am_health) /\ UNCHANGED <<connection, bound, key_vec, reconnected>>
          /\ am_health' = Visit(am_health, [sets |-> "nothing", ret |-> -1], TRUE)
      BY <1>5, <2>2 DEF amqp_visit
    <3> DEFINE r == -1
    <3>2. r \in Int /\ r # 0 /\ am_health' = Visit(am_health, [sets |-> "nothing", ret |-> r], TRUE)
      BY <3>1
    <3> HIDE DEF r
    <3>3. am_health' \in lidig_health /\ am_health'.status_ = "SICK"
      BY <3>1, <3>2, VisitLemma
    <3> QED BY <3>1, <3>3
  <2> QED BY <2>1, <2>2
<1>6. ASSUME NEW k \in Keys, bind_queue(k) PROVE AmqpInv'
  BY <1>6 DEF bind_queue
<1>7. ASSUME NEW d \in BOOLEAN, onReceived(d) PROVE AmqpInv'
  BY <1>7, SettersLemma DEF onReceived, disconnect
<1>8. CASE UNCHANGED amqpVars
  BY <1>8 DEF amqpVars
<1> QED BY <1>1, <1>2, <1>3, <1>4, <1>5, <1>6, <1>7, <1>8 DEF AmqpNext

\* What lidig_amqp tells of its connection is true of it, and the keys once bound
\* stay bound across health_cure's reconnections, for any set of keys.
THEOREM AmqpSound == AmqpSpec => []AmqpIsSound
<1>1. AmqpInv => AmqpIsSound
  BY DEF AmqpInv, AmqpIsSound
<1> QED BY <1>1, AmqpInitInv, AmqpNextInv, PTL DEF AmqpSpec

-----------------------------------------------------------------------------
(* lidig_modbus *)

PcType == {"idle", "locked", "checked", "raw", "io", "rawio"}

\* Only the owner of mutex_ is inside a request, with the slave it set; the line
\* is used only while it is alive, and alive only while it is open and not sick.
ModbusInv ==
  /\ mb_health \in lidig_health
  /\ is_alive_m \in BOOLEAN
  /\ pc \in [Callers -> PcType]
  /\ \A t \in Callers : pc[t] # "idle" => mutex = t
  /\ \A t \in Callers : pc[t] \in {"checked", "io"} => slave = t
  /\ \A t \in Callers : pc[t] \in {"io", "rawio"} => is_alive_m
  /\ is_alive_m => ctx = "open"
  /\ is_sick(mb_health) => ~is_alive_m
  /\ ctx = "connecting" => is_sick(mb_health)

\* At first there is no context and no request.
LEMMA ModbusInitInv == ModbusInit => ModbusInv
BY NewHealthLemma DEF ModbusInit, ModbusInv, PcType, is_sick

\* The loop thread's open, and a visit of the health server, both without mutex_.
LEMMA ConnectInv ==
  ASSUME ModbusInv,
         \/ \E ok \in BOOLEAN : modbus_open(ok) \/ health_cure_end(ok)
         \/ health_cure_begin \/ health_wait
  PROVE  ModbusInv'
<1>1. UNCHANGED <<slave, mutex, pc>>
  BY DEF modbus_open, health_cure_end, health_cure_begin, health_wait
<1>2. SUFFICES /\ mb_health' \in lidig_health /\ is_alive_m' \in BOOLEAN
               /\ \A t \in Callers : pc[t] \in {"io", "rawio"} => is_alive_m'
               /\ is_alive_m' => ctx' = "open"
               /\ is_sick(mb_health') => ~is_alive_m'
               /\ ctx' = "connecting" => is_sick(mb_health')
  BY <1>1 DEF ModbusInv
<1>3. ASSUME NEW ok \in BOOLEAN, modbus_open(ok)
      PROVE  /\ mb_health' \in lidig_health /\ is_alive_m' = ok
             /\ ctx' = (IF ok THEN "open" ELSE "failed") /\ (ok => ~is_sick(mb_health'))
             /\ ~is_alive_m
  BY <1>3, SettersLemma DEF modbus_open, Connected, ModbusInv, is_sick
<1>4. ASSUME NEW ok \in BOOLEAN, health_cure_end(ok)
      PROVE  /\ mb_health' \in lidig_health /\ is_alive_m' = ok
             /\ ctx' = (IF ok THEN "open" ELSE "failed") /\ (ok => ~is_sick(mb_health'))
             /\ ~is_alive_m
  <2>1. CASE ok
    <3> DEFINE g == set_good(mb_health, TRUE)
    <3>1. g \in lidig_health
      BY SettersLemma DEF ModbusInv
    <3>2. mb_health' = set_check(g)
      BY <1>4, <2>1 DEF health_cure_end
    <3> HIDE DEF g
    <3>3. mb_health' \in lidig_health /\ mb_health'.status_ = "CHECK"
      BY <3>1, <3>2, SettersLemma
    <3> QED BY <1>4, <2>1, <3>3 DEF health_cure_end, ModbusInv, is_sick
  <2>2. CASE ~ok
    BY <1>4, <2>2, SettersLemma DEF health_cure_end, ModbusInv
  <2> QED BY <2>1, <2>2
<1>5. CASE health_cure_begin
  <2>1. mb_health' \in lidig_health /\ mb_health'.status_ = mb_health.status_
    BY <1>5, CountLemma DEF health_cure_begin, ModbusInv
  <2>2. is_sick(mb_health) /\ ~is_alive_m /\ UNCHANGED is_alive_m
    BY <1>5 DEF health_cure_begin, ModbusInv, Due
  <2> QED BY <2>1, <2>2 DEF ModbusInv, is_sick
<1>6. CASE health_wait
  <2>1. mb_health' \in lidig_health /\ mb_health'.status_ = mb_health.status_
    BY <1>6, WaitLemma DEF health_wait, ModbusInv
  <2> QED BY <1>6, <2>1 DEF health_wait, ModbusInv, is_sick
<1> QED BY <1>3, <1>4, <1>5, <1>6 DEF ModbusInv

\* The steps of a request leave the line as it is: only the owner of mutex_ moves.
LEMMA RequestInv ==
  ASSUME ModbusInv, NEW t \in Callers,
         \/ scope_lock(t) \/ request_check(t) \/ request_done(t)
         \/ \E raw \in BOOLEAN : set_slave(t, raw)
  PROVE  ModbusInv'
<1> USE DEF ModbusInv, PcType
<1>1. CASE scope_lock(t)
  BY <1>1, ModbusAssumption DEF scope_lock
<1>2. CASE request_check(t)
  <2>1. CASE ctx = "null" \/ ~is_alive_m
    BY <1>2, <2>1 DEF request_check, Unlock
  <2>2. CASE ~(ctx = "null" \/ ~is_alive_m)
    BY <1>2, <2>2 DEF request_check
  <2> QED BY <2>1, <2>2
<1>3. CASE request_done(t)
  BY <1>3 DEF request_done, Unlock
<1>4. ASSUME NEW raw \in BOOLEAN, set_slave(t, raw) PROVE ModbusInv'
  <2>1. CASE ~raw /\ ctx = "null"
    BY <1>4, <2>1 DEF set_slave, Unlock
  <2>2. CASE raw
    BY <1>4, <2>2 DEF set_slave
  <2>3. CASE ~raw /\ ctx # "null"
    BY <1>4, <2>3 DEF set_slave
  <2> QED BY <2>1, <2>2, <2>3
<1> QED BY <1>1, <1>2, <1>3, <1>4

\* Every step of the callers, the loop thread and the health server preserves it.
LEMMA ModbusNextInv == ModbusInv /\ [ModbusNext]_modbusVars => ModbusInv'
<1>1. CASE UNCHANGED modbusVars
  BY <1>1 DEF modbusVars, ModbusInv
<1> QED BY <1>1, ConnectInv, RequestInv DEF ModbusNext

\* The Modbus line belongs to one request at a time, which uses the slave it set,
\* and health_cure, which takes no mutex, never reconnects under a request: for any
\* number of calling threads.
THEOREM ModbusExclusive == ModbusSpec => []LineIsExclusive
<1>1. ModbusInv => Cardinality(Busy) <= 1
  <2>1. ModbusInv => Busy \in SUBSET {mutex}
    BY DEF ModbusInv, Busy
  <2>2. IsFiniteSet({mutex}) /\ Cardinality({mutex}) = 1
    BY FS_Singleton
  <2>3. ModbusInv => IsFiniteSet(Busy) /\ Cardinality(Busy) <= Cardinality({mutex})
    BY <2>1, <2>2, FS_Subset
  <2> QED BY <2>2, <2>3
<1>2. ModbusInv => LineIsExclusive
  BY <1>1 DEF ModbusInv, LineIsExclusive, SlaveIsOwn, CureIsAlone, Busy
<1> QED BY <1>2, ModbusInitInv, ModbusNextInv, PTL DEF ModbusSpec

-----------------------------------------------------------------------------
(* lidig_mqtt *)

IsDisconnect(c) == c.type = "on_disconnect"
IsOpen(c) == c.type = "on_connect" /\ c.rc = 0
IsMessage(c) == c.type = "on_message"

\* When no handle is lost and no established connection was replaced, what would
\* make or has made the client GOOD without a connection is followed by a report
\* of the disconnection that is still waiting.
LossIsReported ==
  ~races /\ net # "up" /\ ~replaced =>
    /\ is_good(health) => \E j \in 1 .. Len(asyncs) : IsDisconnect(asyncs[j])
    /\ \A i \in 1 .. Len(asyncs) :
         IsOpen(asyncs[i]) => \E j \in i + 1 .. Len(asyncs) : IsDisconnect(asyncs[j])

\* The messages that wait for the loop thread are newer than the last one given to
\* on_packet, and in the order in which the broker sent them.
MessagesInOrder ==
  /\ got <= sent
  /\ \A i \in 1 .. Len(asyncs) : IsMessage(asyncs[i]) => got < asyncs[i].rc /\ asyncs[i].rc <= sent
  /\ \A i, j \in 1 .. Len(asyncs) :
       i < j /\ IsMessage(asyncs[i]) /\ IsMessage(asyncs[j]) => asyncs[i].rc < asyncs[j].rc

\* The inductive invariant.
MqttInv == TypeOK /\ LossIsReported /\ MessagesInOrder

\* The result code of a callback is a number.
LEMMA CommLemma ==
  /\ \A c \in Comm : c.rc \in Nat /\ c.type \in {"on_connect", "on_disconnect", "on_message"}
  /\ \A c \in Comm : IsMessage(c) => c.rc \in 1 .. MaxMessages
  /\ on_connect(0) \in Comm /\ on_connect(5) \in Comm
  /\ on_disconnect(0) \in Comm /\ on_disconnect(7) \in Comm
  /\ \A n \in 1 .. MaxMessages : on_message(n) \in Comm
<1>1. MaxMessages \in Nat
  BY MqttAssumption
<1> QED BY <1>1 DEF Comm, IsMessage, on_connect, on_disconnect, on_message

\* Posting: what is kept is appended, and only the handles of this callback are.
LEMMA PostLemma ==
  ASSUME asyncs \in Seq(Comm), NEW cs \in Seq(Comm), Len(cs) \in {1, 2}, Post(cs)
  PROVE  \E kept \in Seq(Comm) :
           /\ asyncs' \in Seq(Comm) /\ Len(asyncs') = Len(asyncs) + Len(kept)
           /\ Len(kept) <= Len(cs)
           /\ \A i \in 1 .. Len(asyncs) : asyncs'[i] = asyncs[i]
           /\ \A i \in 1 .. Len(kept) : asyncs'[Len(asyncs) + i] = kept[i]
           /\ \A i \in 1 .. Len(kept) : \E k \in 1 .. Len(cs) : kept[i] = cs[k]
           /\ ~races => kept = cs
<1>1. PICK kept \in Kept(cs) : asyncs' = asyncs \o kept
  BY DEF Post
<1>2. /\ kept \in Seq(Comm) /\ Len(kept) <= Len(cs)
      /\ \A i \in 1 .. Len(kept) : \E k \in 1 .. Len(cs) : kept[i] = cs[k]
      /\ ~races => kept = cs
  <2>1. CASE ~races
    BY <2>1 DEF Kept
  <2>2. CASE races
    <3>1. PICK m \in 1 .. 2, n \in 0 .. Len(cs) : kept = SubSeq(cs, m, n)
      BY <2>2 DEF Kept
    <3>2. \A i \in m .. n : cs[i] \in Comm
      BY ElementOfSeq
    <3>3. /\ SubSeq(cs, m, n) \in Seq(Comm)
          /\ Len(SubSeq(cs, m, n)) = IF m <= n THEN n - m + 1 ELSE 0
          /\ \A i \in 1 .. n - m + 1 : SubSeq(cs, m, n)[i] = cs[m + i - 1]
      BY <3>2, SubSeqProperties
    <3>4. \A i \in 1 .. Len(kept) : \E k \in 1 .. Len(cs) : kept[i] = cs[k]
      <4> SUFFICES ASSUME NEW i \in 1 .. Len(kept)
                   PROVE  \E k \in 1 .. Len(cs) : kept[i] = cs[k]
        OBVIOUS
      <4>1. m + i - 1 \in 1 .. Len(cs) /\ i \in 1 .. n - m + 1
        BY <3>1, <3>3
      <4> QED BY <3>1, <3>3, <4>1
    <3> QED BY <2>2, <3>1, <3>3, <3>4
  <2> QED BY <2>1, <2>2
<1>3. /\ asyncs' \in Seq(Comm) /\ Len(asyncs') = Len(asyncs) + Len(kept)
      /\ \A i \in 1 .. Len(asyncs) + Len(kept) :
           asyncs'[i] = IF i <= Len(asyncs) THEN asyncs[i] ELSE kept[i - Len(asyncs)]
  BY <1>1, <1>2, ConcatProperties
<1>4. Len(asyncs) \in Nat /\ Len(kept) \in Nat
  BY <1>2, LenProperties
<1>5. \A i \in 1 .. Len(asyncs) : asyncs'[i] = asyncs[i]
  BY <1>3, <1>4
<1>6. \A i \in 1 .. Len(kept) : asyncs'[Len(asyncs) + i] = kept[i]
  <2> SUFFICES ASSUME NEW i \in 1 .. Len(kept) PROVE asyncs'[Len(asyncs) + i] = kept[i]
    OBVIOUS
  <2>1. Len(asyncs) + i \in 1 .. Len(asyncs) + Len(kept) /\ ~(Len(asyncs) + i <= Len(asyncs))
        /\ (Len(asyncs) + i) - Len(asyncs) = i
    BY <1>4
  <2> QED BY <1>3, <2>1
<1> QED BY <1>2, <1>3, <1>5, <1>6

\* Callbacks that carry no message leave the order of the messages alone.
LEMMA PostNoMessage ==
  ASSUME TypeOK, MessagesInOrder, NEW cs \in Seq(Comm), Len(cs) \in {1, 2}, Post(cs),
         \A k \in 1 .. Len(cs) : ~IsMessage(cs[k]), UNCHANGED <<sent, got>>
  PROVE  MessagesInOrder'
<1>1. asyncs \in Seq(Comm) /\ Len(asyncs) \in Nat
  BY LenProperties DEF TypeOK
<1>2. PICK kept \in Seq(Comm) :
        /\ Len(asyncs') = Len(asyncs) + Len(kept)
        /\ \A i \in 1 .. Len(asyncs) : asyncs'[i] = asyncs[i]
        /\ \A i \in 1 .. Len(kept) : asyncs'[Len(asyncs) + i] = kept[i]
        /\ \A i \in 1 .. Len(kept) : \E k \in 1 .. Len(cs) : kept[i] = cs[k]
  BY <1>1, PostLemma
<1>3. \A i \in 1 .. Len(asyncs') :
        IsMessage(asyncs'[i]) => i \in 1 .. Len(asyncs) /\ asyncs'[i] = asyncs[i]
  <2> SUFFICES ASSUME NEW i \in 1 .. Len(asyncs'), IsMessage(asyncs'[i]), i > Len(asyncs)
               PROVE  FALSE
    BY <1>1, <1>2
  <2>1. Len(kept) \in Nat
    BY LenProperties
  <2>2. i - Len(asyncs) \in 1 .. Len(kept) /\ Len(asyncs) + (i - Len(asyncs)) = i
    BY <1>1, <1>2, <2>1
  <2>3. asyncs'[i] = kept[i - Len(asyncs)]
    BY <1>2, <2>2
  <2> QED BY <1>2, <2>2, <2>3
<1> QED BY <1>3 DEF MessagesInOrder

\* A disconnection that is reported last settles what was to be reported.
LEMMA PostDisconnect ==
  ASSUME TypeOK, NEW cs \in Seq(Comm), Len(cs) \in {1, 2}, Post(cs),
         IsDisconnect(cs[Len(cs)]), ~IsOpen(cs[1]), UNCHANGED races
  PROVE  LossIsReported'
<1>1. asyncs \in Seq(Comm) /\ Len(asyncs) \in Nat
  BY LenProperties DEF TypeOK
<1>2. SUFFICES ASSUME ~races PROVE LossIsReported'
  BY DEF LossIsReported
<1>3. PICK kept \in Seq(Comm) :
        /\ Len(asyncs') = Len(asyncs) + Len(kept)
        /\ \A i \in 1 .. Len(kept) : asyncs'[Len(asyncs) + i] = kept[i]
        /\ kept = cs
  BY <1>1, <1>2, PostLemma
<1>4. /\ Len(asyncs') = Len(asyncs) + Len(cs)
      /\ Len(asyncs') \in 1 .. Len(asyncs')
      /\ asyncs'[Len(asyncs')] = cs[Len(cs)]
  BY <1>1, <1>3
<1>5. \A i \in 1 .. Len(asyncs') : IsOpen(asyncs'[i]) => Len(asyncs') \in i + 1 .. Len(asyncs')
  <2> SUFFICES ASSUME NEW i \in 1 .. Len(asyncs'), IsOpen(asyncs'[i]), i = Len(asyncs')
               PROVE  FALSE
    BY <1>1, <1>4
  <2> QED BY <1>4 DEF IsOpen, IsDisconnect
<1> QED BY <1>4, <1>5 DEF LossIsReported

\* The client starts without a handle, a connection or a message.
LEMMA MqttInitInv == Init => MqttInv
<1> SUFFICES ASSUME Init PROVE MqttInv
  OBVIOUS
<1>1. asyncs = <<>> /\ Len(asyncs) = 0 /\ asyncs \in Seq(Comm)
  BY EmptySeq DEF Init
<1>2. TypeOK
  <2>1. MaxMessages \in Nat /\ MaxStops \in Nat
    BY MqttAssumption
  <2>2. health \in lidig_health /\ InStep(health)
    BY NewHealthLemma DEF Init
  <2>3. jobs \in [Job -> {"idle", "queued", "connected", "done"}]
    BY DEF Init
  <2>4. stops \in 0 .. MaxStops /\ sent \in 0 .. MaxMessages /\ got \in 0 .. MaxMessages
    BY <2>1 DEF Init
  <2> QED BY <1>1, <2>2, <2>3, <2>4 DEF Init, TypeOK
<1>3. ~is_good(health)
  BY NewHealthLemma DEF Init, is_good
<1>4. LossIsReported /\ MessagesInOrder
  BY <1>1, <1>3 DEF Init, LossIsReported, MessagesInOrder
<1> QED BY <1>2, <1>4 DEF MqttInv

\* Queueing work_ keeps its executions well-typed.
LEMMA StartLemma ==
  ASSUME TypeOK, start
  PROVE  jobs' \in [Job -> {"idle", "queued", "connected", "done"}]
BY DEF TypeOK, start

\* Steps that leave the handles, the messages and the connection alone and cannot
\* make the client GOOD.
LEMMA QuietStep ==
  ASSUME MqttInv, UNCHANGED <<asyncs, races, net, replaced, sent, got>>,
         is_good(health') => is_good(health)
  PROVE  LossIsReported' /\ MessagesInOrder'
BY DEF MqttInv, LossIsReported, MessagesInOrder

\* The worker's connect replaces a connection, or ends a handshake, without a report.
LEMMA WorkerInv ==
  ASSUME MqttInv, NEW j \in Job, mqtt_start_connect(j) \/ mqtt_start_loop(j)
  PROVE  MqttInv'
<1>1. CASE mqtt_start_connect(j)
  <2>1. TypeOK'
    BY <1>1 DEF mqtt_start_connect, MqttInv, TypeOK, clientVars, otherVars, msgVars
  <2>2. UNCHANGED <<asyncs, races, health, sent, got>>
    BY <1>1 DEF mqtt_start_connect, otherVars, msgVars
  <2>3. net' # "up" /\ ~replaced' => net # "up" /\ ~replaced
    BY <1>1 DEF mqtt_start_connect
  <2>4. LossIsReported' /\ MessagesInOrder'
    BY <2>2, <2>3 DEF MqttInv, LossIsReported, MessagesInOrder
  <2> QED BY <2>1, <2>4 DEF MqttInv
<1>2. CASE mqtt_start_loop(j)
  <2>1. TypeOK'
    BY <1>2 DEF mqtt_start_loop, MqttInv, TypeOK, clientVars, otherVars, msgVars
  <2> QED BY <1>2, <2>1, QuietStep DEF mqtt_start_loop, otherVars, msgVars, MqttInv
<1> QED BY <1>1, <1>2

\* The application, the after-work callback and the health server's visit.
LEMMA LoopInv ==
  ASSUME MqttInv,
         \/ connect \/ UserStart \/ run \/ BrokerChange
         \/ \E t \in Topic : topic_sub_add(t)
         \/ \E j \in Job : after_work(j)
  PROVE  MqttInv'
<1>t. TypeOK /\ health \in lidig_health /\ InStep(health)
  BY DEF MqttInv, TypeOK
<1>1. UNCHANGED <<asyncs, races, net, replaced, sent, got>>
  BY DEF connect, UserStart, run, BrokerChange, topic_sub_add, after_work,
         mosqVars, otherVars, msgVars
<1>2. CASE connect \/ BrokerChange \/ (\E t \in Topic : topic_sub_add(t))
  <2>1. TypeOK' /\ health' = health
    BY <1>2, <1>t DEF connect, BrokerChange, topic_sub_add, TypeOK, clientVars, workVars,
                      mosqVars, otherVars, msgVars
  <2> QED BY <1>1, <2>1, QuietStep DEF MqttInv
<1>3. CASE UserStart
  <2>1. TypeOK' /\ health' = health
    BY <1>3, <1>t, StartLemma DEF UserStart, TypeOK, mosqVars, otherVars, msgVars
  <2> QED BY <1>1, <2>1, QuietStep DEF MqttInv
<1>4. CASE run
  <2> DEFINE r == 0
  <2>1. r \in Int /\ is_sick(health)
        /\ health' = Visit(health, [sets |-> "nothing", ret |-> r], TRUE)
    BY <1>4 DEF run
  <2> HIDE DEF r
  <2>2. health' \in lidig_health /\ InStep(health') /\ health'.status_ \in {"CHECK", "SICK"}
    BY <1>t, <2>1, VisitLemma
  <2>3. jobs' \in [Job -> {"idle", "queued", "connected", "done"}]
    BY <1>4, <1>t, StartLemma DEF run, TypeOK
  <2>4. TypeOK'
    BY <1>4, <1>t, <2>2, <2>3 DEF run, TypeOK, clientVars, mosqVars, otherVars, msgVars
  <2>5. ~is_good(health')
    BY <2>2 DEF is_good
  <2> QED BY <1>1, <2>4, <2>5, QuietStep DEF MqttInv
<1>5. ASSUME NEW j \in Job, after_work(j) PROVE MqttInv'
  <2>1. health' \in lidig_health /\ InStep(health') /\ (is_good(health') => is_good(health))
    BY <1>5, <1>t, SettersLemma DEF after_work, is_good
  <2>2. TypeOK'
    BY <1>5, <1>t, <2>1 DEF after_work, TypeOK, clientVars, mosqVars, otherVars, msgVars
  <2> QED BY <1>1, <2>1, <2>2, QuietStep DEF MqttInv
<1> QED BY <1>2, <1>3, <1>4, <1>5

\* stop ends the thread and the connection; libmosquitto reports it if there was one.
LEMMA StopInv == ASSUME MqttInv, stop PROVE MqttInv'
<1>t. TypeOK /\ asyncs \in Seq(Comm)
  BY DEF MqttInv, TypeOK
<1> DEFINE cs == <<on_disconnect(0)>>
<1>c. /\ cs \in Seq(Comm) /\ Len(cs) = 1 /\ cs[Len(cs)] = on_disconnect(0)
      /\ IsDisconnect(on_disconnect(0)) /\ ~IsOpen(on_disconnect(0)) /\ ~IsMessage(on_disconnect(0))
  BY CommLemma DEF IsDisconnect, IsOpen, IsMessage, on_disconnect
<1>h. health' \in lidig_health /\ InStep(health') /\ ~is_good(health')
  BY <1>t, SettersLemma DEF stop, TypeOK, is_good
<1>u. UNCHANGED <<sent, got, races>> /\ net' = "none"
  BY DEF stop, msgVars
<1>1. asyncs' \in Seq(Comm)
  <2>1. CASE net = "none"
    BY <1>t, <2>1 DEF stop
  <2>2. CASE net # "none"
    <3>1. Post(cs)
      BY <2>2 DEF stop
    <3> HIDE DEF cs
    <3> QED BY <1>t, <1>c, <3>1, PostLemma
  <2> QED BY <2>1, <2>2
<1>2. TypeOK'
  <2>1. stops' \in 0 .. MaxStops
    BY <1>t, MqttAssumption DEF stop, TypeOK
  <2> QED BY <1>t, <1>h, <1>1, <2>1 DEF stop, TypeOK, workVars, msgVars
<1>3. LossIsReported' /\ MessagesInOrder'
  <2>1. CASE net = "none"
    <3>1. UNCHANGED asyncs /\ (~replaced' => ~replaced)
      BY <2>1 DEF stop
    <3> QED BY <1>h, <1>u, <2>1, <3>1 DEF MqttInv, LossIsReported, MessagesInOrder
  <2>2. CASE net # "none"
    <3>1. Post(cs)
      BY <2>2 DEF stop
    <3> HIDE DEF cs
    <3>2. \A k \in 1 .. Len(cs) : ~IsMessage(cs[k])
      BY <1>c
    <3>3. MessagesInOrder'
      BY <1>t, <1>c, <1>u, <3>1, <3>2, PostNoMessage DEF MqttInv
    <3>4. LossIsReported'
      BY <1>t, <1>c, <1>u, <3>1, PostDisconnect
    <3> QED BY <3>3, <3>4
  <2> QED BY <2>1, <2>2
<1> QED BY <1>2, <1>3 DEF MqttInv

\* libmosquitto's thread: handshakes, losses, its own reconnections and messages.
LEMMA MosquittoInv == ASSUME MqttInv, Mosquitto PROVE MqttInv'
<1>t. TypeOK /\ asyncs \in Seq(Comm) /\ Len(asyncs) \in Nat
  BY LenProperties DEF MqttInv, TypeOK
<1>n. MaxMessages \in Nat
  BY MqttAssumption
<1>1. CASE connack
  <2> DEFINE cs == <<on_connect(0)>>
  <2>1. /\ cs \in Seq(Comm) /\ Len(cs) = 1 /\ \A k \in 1 .. Len(cs) : ~IsMessage(cs[k])
        /\ Post(cs)
    BY <1>1, CommLemma DEF IsMessage, on_connect, connack
  <2> HIDE DEF cs
  <2>2. asyncs' \in Seq(Comm)
    BY <1>t, <2>1, PostLemma
  <2>3. TypeOK'
    BY <1>1, <1>t, <2>2 DEF connack, Subscribe, TypeOK, clientVars, workVars, msgVars
  <2>4. MessagesInOrder'
    BY <1>1, <1>t, <2>1, PostNoMessage DEF connack, msgVars, MqttInv
  <2> QED BY <1>1, <2>3, <2>4 DEF connack, MqttInv, LossIsReported
<1>2. CASE connack_refused
  <2> DEFINE cs == <<on_connect(5), on_disconnect(7)>>
  <2>1. /\ cs \in Seq(Comm) /\ Len(cs) = 2 /\ \A k \in 1 .. Len(cs) : ~IsMessage(cs[k])
        /\ IsDisconnect(cs[Len(cs)]) /\ ~IsOpen(cs[1]) /\ Post(cs)
    BY <1>2, CommLemma
       DEF IsMessage, IsOpen, IsDisconnect, on_connect, on_disconnect, connack_refused
  <2> HIDE DEF cs
  <2>2. asyncs' \in Seq(Comm)
    BY <1>t, <2>1, PostLemma
  <2>3. TypeOK'
    BY <1>2, <1>t, <2>2 DEF connack_refused, TypeOK, clientVars, workVars, msgVars
  <2>4. MessagesInOrder' /\ LossIsReported'
    BY <1>2, <1>t, <2>1, PostNoMessage, PostDisconnect DEF connack_refused, msgVars, MqttInv
  <2> QED BY <2>3, <2>4 DEF MqttInv
<1>3. CASE connection_lost
  <2> DEFINE cs == <<on_disconnect(7)>>
  <2>1. /\ cs \in Seq(Comm) /\ Len(cs) = 1 /\ \A k \in 1 .. Len(cs) : ~IsMessage(cs[k])
        /\ IsDisconnect(cs[Len(cs)]) /\ ~IsOpen(cs[1]) /\ Post(cs)
    BY <1>3, CommLemma DEF IsMessage, IsOpen, IsDisconnect, on_disconnect, connection_lost
  <2> HIDE DEF cs
  <2>2. asyncs' \in Seq(Comm)
    BY <1>t, <2>1, PostLemma
  <2>3. TypeOK'
    BY <1>3, <1>t, <2>2 DEF connection_lost, TypeOK, clientVars, workVars, msgVars
  <2>4. MessagesInOrder' /\ LossIsReported'
    BY <1>3, <1>t, <2>1, PostNoMessage, PostDisconnect DEF connection_lost, msgVars, MqttInv
  <2> QED BY <2>3, <2>4 DEF MqttInv
<1>4. CASE reconnect
  <2>1. TypeOK'
    BY <1>4, <1>t DEF reconnect, TypeOK, clientVars, workVars, otherVars, msgVars
  <2>2. LossIsReported' /\ MessagesInOrder'
    BY <1>4 DEF reconnect, otherVars, msgVars, MqttInv, LossIsReported, MessagesInOrder
  <2> QED BY <2>1, <2>2 DEF MqttInv
<1>5. CASE message
  <2> DEFINE c == on_message(sent + 1)
             cs == <<c>>
  <2>1. sent + 1 \in 1 .. MaxMessages /\ sent' = sent + 1 /\ sent \in Nat /\ got \in Nat
    BY <1>5, <1>t, <1>n DEF message, TypeOK
  <2>2. /\ c \in Comm /\ IsMessage(c) /\ c.rc = sent + 1 /\ ~IsOpen(c)
        /\ cs \in Seq(Comm) /\ Len(cs) = 1 /\ cs[1] = c /\ Post(cs)
    BY <1>5, <2>1, CommLemma DEF IsMessage, IsOpen, on_message, message
  <2> HIDE DEF c, cs
  <2>3. PICK kept \in Seq(Comm) :
          /\ asyncs' \in Seq(Comm) /\ Len(asyncs') = Len(asyncs) + Len(kept)
          /\ Len(kept) <= 1
          /\ \A i \in 1 .. Len(asyncs) : asyncs'[i] = asyncs[i]
          /\ \A i \in 1 .. Len(kept) : asyncs'[Len(asyncs) + i] = kept[i]
          /\ \A i \in 1 .. Len(kept) : \E k \in 1 .. Len(cs) : kept[i] = cs[k]
    BY <1>t, <2>2, PostLemma
  <2>4. Len(kept) \in Nat /\ (Len(kept) = 1 => asyncs'[Len(asyncs) + 1] = c)
    <3>1. Len(kept) \in Nat
      BY LenProperties
    <3>2. Len(kept) = 1 => kept[1] = c /\ asyncs'[Len(asyncs) + 1] = kept[1]
      BY <2>2, <2>3
    <3> QED BY <3>1, <3>2
  <2>5. TypeOK'
    BY <1>5, <1>t, <1>n, <2>1, <2>3
       DEF message, TypeOK, clientVars, workVars, mosqVars
  <2>6. MessagesInOrder'
    <3>1. \A i \in 1 .. Len(asyncs') :
            \/ i \in 1 .. Len(asyncs) /\ asyncs'[i] = asyncs[i]
            \/ i = Len(asyncs) + 1 /\ asyncs'[i] = c
      <4> SUFFICES ASSUME NEW i \in Nat, 1 <= i, i <= Len(asyncs'), ~(i <= Len(asyncs))
                   PROVE  i = Len(asyncs) + 1 /\ asyncs'[i] = c
        BY <1>t, <2>3
      <4>1. Len(asyncs') = Len(asyncs) + Len(kept) /\ Len(kept) <= 1
        BY <2>3
      <4>2. Len(kept) \in Nat /\ Len(asyncs) \in Nat
        BY <1>t, <2>4
      <4>3. Len(kept) = 1 /\ i = Len(asyncs) + 1
        <5> DEFINE n == Len(asyncs)
                   k == Len(kept)
        <5>1. i <= n + k /\ k <= 1 /\ ~(i <= n) /\ k \in Nat /\ n \in Nat
          BY <4>1, <4>2
        <5> HIDE DEF n, k
        <5>2. k = 1 /\ i = n + 1
          BY <5>1
        <5> QED BY <5>2 DEF n, k
      <4> QED BY <2>4, <4>3
    <3>2. UNCHANGED got
      BY <1>5 DEF message
    <3>3. \A i \in 1 .. Len(asyncs) : asyncs[i].rc \in Nat
      BY <1>t, CommLemma, ElementOfSeq
    <3>4. /\ got <= sent
          /\ \A i \in 1 .. Len(asyncs) :
               IsMessage(asyncs[i]) => got < asyncs[i].rc /\ asyncs[i].rc <= sent
          /\ \A i, j \in 1 .. Len(asyncs) :
               i < j /\ IsMessage(asyncs[i]) /\ IsMessage(asyncs[j]) => asyncs[i].rc < asyncs[j].rc
      BY DEF MqttInv, MessagesInOrder
    <3>5. \A i \in 1 .. Len(asyncs') :
            IsMessage(asyncs'[i]) => got < asyncs'[i].rc /\ asyncs'[i].rc <= sent + 1
      BY <2>1, <2>2, <3>1, <3>3, <3>4
    <3>6. \A i, j \in 1 .. Len(asyncs') :
            i < j /\ IsMessage(asyncs'[i]) /\ IsMessage(asyncs'[j]) => asyncs'[i].rc < asyncs'[j].rc
      <4> SUFFICES ASSUME NEW i \in 1 .. Len(asyncs'), NEW j \in 1 .. Len(asyncs'), i < j,
                          IsMessage(asyncs'[i]), IsMessage(asyncs'[j])
                   PROVE  asyncs'[i].rc < asyncs'[j].rc
        OBVIOUS
      <4>1. i \in 1 .. Len(asyncs) /\ asyncs'[i] = asyncs[i]
        BY <1>t, <2>3, <2>4, <3>1
      <4>2. CASE j \in 1 .. Len(asyncs) /\ asyncs'[j] = asyncs[j]
        BY <3>4, <4>1, <4>2
      <4>3. CASE asyncs'[j] = c
        BY <2>1, <2>2, <3>3, <3>4, <4>1, <4>3
      <4> QED BY <3>1, <4>2, <4>3
    <3>7. got <= sent + 1
      BY <2>1, <3>4
    <3> QED BY <2>1, <3>2, <3>5, <3>6, <3>7 DEF MessagesInOrder
  <2>7. LossIsReported'
    BY <1>5 DEF message, mosqVars, LossIsReported
  <2> QED BY <2>5, <2>6, <2>7 DEF MqttInv
<1> QED BY <1>1, <1>2, <1>3, <1>4, <1>5 DEF Mosquitto

\* async_cb: the oldest handle acts, and the reports behind it stay in order.
LEMMA CallbackInv == ASSUME MqttInv, async_cb PROVE MqttInv'
<1> DEFINE c == Head(asyncs)
<1>t. /\ TypeOK /\ asyncs \in Seq(Comm) /\ asyncs # <<>> /\ Len(asyncs) \in Nat \ {0}
      /\ health \in lidig_health /\ InStep(health)
  BY EmptySeq DEF MqttInv, TypeOK, async_cb
<1>a. /\ c = asyncs[1] /\ c \in Comm /\ asyncs' \in Seq(Comm) /\ Len(asyncs') = Len(asyncs) - 1
      /\ \A i \in 1 .. Len(asyncs') : asyncs'[i] = asyncs[i + 1]
  BY <1>t, HeadTailProperties DEF async_cb
<1>h. health' = IF IsOpen(c) THEN set_good(health, TRUE)
                ELSE IF IsDisconnect(c) THEN set_sick(health, TRUE) ELSE health
  BY DEF async_cb, IsOpen, IsDisconnect
<1>g. got' = IF IsMessage(c) THEN c.rc ELSE got
  BY DEF async_cb, IsMessage
<1>u. UNCHANGED <<races, net, replaced, sent>>
  BY DEF async_cb, mosqVars
<1> HIDE DEF c
<1>1. /\ health' \in lidig_health /\ InStep(health')
      /\ is_good(health') => IsOpen(c) \/ (is_good(health) /\ ~IsDisconnect(c))
  BY <1>t, <1>h, SettersLemma DEF is_good
<1>2. TypeOK'
  <2>1. got' \in 0 .. MaxMessages
    BY <1>t, <1>a, <1>g, CommLemma, MqttAssumption DEF TypeOK
  <2> QED BY <1>t, <1>a, <1>1, <2>1
          DEF async_cb, TypeOK, clientVars, workVars, mosqVars
<1>3. LossIsReported'
  <2> SUFFICES ASSUME ~races, net # "up", ~replaced
               PROVE  /\ is_good(health') => \E j \in 1 .. Len(asyncs') : IsDisconnect(asyncs'[j])
                      /\ \A i \in 1 .. Len(asyncs') : IsOpen(asyncs'[i]) =>
                           \E j \in i + 1 .. Len(asyncs') : IsDisconnect(asyncs'[j])
    BY <1>u DEF LossIsReported
  <2>1. /\ is_good(health) => \E j \in 1 .. Len(asyncs) : IsDisconnect(asyncs[j])
        /\ \A i \in 1 .. Len(asyncs) :
             IsOpen(asyncs[i]) => \E j \in i + 1 .. Len(asyncs) : IsDisconnect(asyncs[j])
    BY DEF MqttInv, LossIsReported
  <2>2. \A j \in 2 .. Len(asyncs) : j - 1 \in 1 .. Len(asyncs') /\ asyncs'[j - 1] = asyncs[j]
    BY <1>t, <1>a
  <2>3. ASSUME is_good(health') PROVE \E j \in 1 .. Len(asyncs') : IsDisconnect(asyncs'[j])
    <3>1. PICK j \in 1 .. Len(asyncs) : IsDisconnect(asyncs[j]) /\ j # 1
      <4>1. CASE IsOpen(c)
        BY <1>t, <1>a, <2>1, <4>1
      <4>2. CASE is_good(health) /\ ~IsDisconnect(c)
        BY <1>t, <1>a, <2>1, <4>2
      <4> QED BY <1>1, <2>3, <4>1, <4>2
    <3>2. j \in 2 .. Len(asyncs)
      BY <1>t, <3>1
    <3> QED BY <2>2, <3>1, <3>2
  <2>4. ASSUME NEW i \in 1 .. Len(asyncs'), IsOpen(asyncs'[i])
        PROVE  \E j \in i + 1 .. Len(asyncs') : IsDisconnect(asyncs'[j])
    <3>1. i + 1 \in 1 .. Len(asyncs) /\ IsOpen(asyncs[i + 1])
      BY <1>t, <1>a, <2>4
    <3>2. PICK j \in i + 2 .. Len(asyncs) : IsDisconnect(asyncs[j])
      BY <2>1, <3>1
    <3>3. j \in 2 .. Len(asyncs) /\ j - 1 \in i + 1 .. Len(asyncs')
      BY <1>t, <1>a, <3>2
    <3> QED BY <2>2, <3>2, <3>3
  <2> QED BY <2>3, <2>4
<1>4. MessagesInOrder'
  <2>1. /\ got <= sent
        /\ \A i \in 1 .. Len(asyncs) :
             IsMessage(asyncs[i]) => got < asyncs[i].rc /\ asyncs[i].rc <= sent
        /\ \A i, j \in 1 .. Len(asyncs) :
             i < j /\ IsMessage(asyncs[i]) /\ IsMessage(asyncs[j]) => asyncs[i].rc < asyncs[j].rc
    BY DEF MqttInv, MessagesInOrder
  <2>2. \A i \in 1 .. Len(asyncs') :
          i + 1 \in 1 .. Len(asyncs) /\ 1 < i + 1 /\ asyncs'[i] = asyncs[i + 1]
    BY <1>t, <1>a
  <2>3. got' <= sent
    BY <1>t, <1>a, <1>g, <2>1
  <2>4. \A i \in 1 .. Len(asyncs') :
          IsMessage(asyncs'[i]) => got' < asyncs'[i].rc /\ asyncs'[i].rc <= sent
    <3> SUFFICES ASSUME NEW i \in 1 .. Len(asyncs'), IsMessage(asyncs[i + 1])
                 PROVE  got' < asyncs[i + 1].rc /\ asyncs[i + 1].rc <= sent
      BY <2>2
    <3>1. CASE IsMessage(c)
      <4>1. 1 \in 1 .. Len(asyncs) /\ IsMessage(asyncs[1]) /\ got' = asyncs[1].rc
        BY <1>t, <1>a, <1>g, <3>1
      <4> QED BY <2>1, <2>2, <4>1
    <3>2. CASE ~IsMessage(c)
      BY <1>g, <2>1, <2>2, <3>2
    <3> QED BY <3>1, <3>2
  <2>5. \A i, j \in 1 .. Len(asyncs') :
          i < j /\ IsMessage(asyncs'[i]) /\ IsMessage(asyncs'[j]) => asyncs'[i].rc < asyncs'[j].rc
    <3> SUFFICES ASSUME NEW i \in 1 .. Len(asyncs'), NEW j \in 1 .. Len(asyncs'), i < j,
                        IsMessage(asyncs'[i]), IsMessage(asyncs'[j])
                 PROVE  asyncs'[i].rc < asyncs'[j].rc
      OBVIOUS
    <3>1. i + 1 < j + 1
      BY <1>a
    <3> QED BY <2>1, <2>2, <3>1
  <2> QED BY <1>u, <2>3, <2>4, <2>5 DEF MessagesInOrder
<1> QED BY <1>2, <1>3, <1>4 DEF MqttInv

\* Every step of the three threads and of the broker preserves the invariant.
LEMMA MqttNextInv == MqttInv /\ [Next]_vars => MqttInv'
<1>1. CASE UNCHANGED vars
  <2>1. UNCHANGED <<health, config, topic_sub_, started, stops, jobs, ret_, thread, net, subs,
                    replaced, broker, asyncs, races, sent, got>>
    BY <1>1 DEF vars, clientVars, workVars, mosqVars, otherVars, msgVars
  <2> QED BY <2>1 DEF MqttInv, TypeOK, LossIsReported, MessagesInOrder
<1> QED BY <1>1, LoopInv, StopInv, CallbackInv, WorkerInv, MosquittoInv DEF Next, Worker

\* The invariant holds throughout.
LEMMA MqttInvariance == Spec => []MqttInv
BY MqttInitInv, MqttNextInv, PTL DEF Spec

\* Every reachable state of lidig_mqtt is well-typed and its backoff in step, for any
\* number of executions of the work, topics, waiting handles, messages and stops, with
\* and without losses from races.
THEOREM MqttTypeCorrect == Spec => []TypeOK
BY MqttInvariance, PTL DEF MqttInv

\* GOOD tells the truth once every callback has been delivered, but for a connection
\* that a cure attempt replaced.
THEOREM MqttGoodIsTrue == Spec => []GoodWhenQuiet
<1>1. MqttInv => GoodWhenQuiet
  BY EmptySeq DEF MqttInv, LossIsReported, GoodWhenQuiet
<1> QED BY <1>1, MqttInvariance, PTL

\* Every connection is subscribed to what was registered, and on_packet sees the
\* messages in the order in which the broker sent them.
THEOREM MqttTopicsFollowed == Spec => TopicsAreFollowed
<1>1. [Next]_vars => [net' = "up" /\ net # "up" => topic_sub_ \subseteq subs']_vars
  <2> SUFFICES ASSUME Next, net' = "up", net # "up" PROVE topic_sub_ \subseteq subs'
    OBVIOUS
  <2>1. connack
    BY DEF Next, connect, UserStart, stop, run, async_cb, topic_sub_add, after_work, Worker,
           Mosquitto, mqtt_start_connect, mqtt_start_loop, connack_refused, connection_lost,
           reconnect, message, BrokerChange, mosqVars
  <2> QED BY <2>1 DEF connack, Subscribe
<1>2. MqttInv /\ [Next]_vars => [got' # got => got' > got]_vars
  <2> SUFFICES ASSUME MqttInv, Next, got' # got PROVE got' > got
    OBVIOUS
  <2>1. async_cb
    BY DEF Next, connect, UserStart, stop, run, topic_sub_add, after_work, Worker,
           Mosquitto, mqtt_start_connect, mqtt_start_loop, connack, connack_refused,
           connection_lost, reconnect, message, BrokerChange, msgVars, otherVars
  <2>2. /\ IsMessage(asyncs[1]) /\ got' = asyncs[1].rc /\ 1 \in 1 .. Len(asyncs)
        /\ got \in Nat /\ asyncs[1].rc \in Nat
    <3>1. asyncs \in Seq(Comm) /\ asyncs # <<>> /\ Len(asyncs) \in Nat \ {0} /\ got \in Nat
      BY <2>1, EmptySeq DEF async_cb, MqttInv, TypeOK
    <3>2. Head(asyncs) = asyncs[1] /\ Head(asyncs) \in Comm
      BY <3>1, HeadTailProperties
    <3>3. IsMessage(asyncs[1]) /\ got' = asyncs[1].rc
      BY <2>1, <3>2 DEF async_cb, IsMessage
    <3> QED BY <3>1, <3>2, <3>3, CommLemma
  <2> QED BY <2>2 DEF MqttInv, MessagesInOrder
<1>3. Spec => Resubscribed
  BY <1>1, PTL DEF Spec, Resubscribed
<1>4. Spec => DeliveredInOrder
  BY <1>2, MqttInvariance, PTL DEF Spec, DeliveredInOrder
<1> QED BY <1>3, <1>4, PTL DEF TopicsAreFollowed
=============================================================================
