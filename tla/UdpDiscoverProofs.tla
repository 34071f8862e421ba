-------------------------- MODULE UdpDiscoverProofs -------------------------
(***************************************************************************)
(* Invariance proofs for UdpDiscover, for every set of hosts, any of them  *)
(* without eth0, every AliveLimit and every bound on the datagrams.        *)
(***************************************************************************)
EXTENDS UdpDiscover, TLAPS

\* What MapIsExact says of one host; the age is bounded by TypeOK.
ExactAt(n) ==
  /\ view[n] = known[n]
  /\ \A p \in known[n] : alive_count[n][p] = silent[n][p]

NotSelfAt(n) == n \in HasEth0 => n \notin known[n]

\* The inductive invariant: also true of the hosts that are down, because a
\* crash leaves their variables alone and a start clears them.
IInv == TypeOK /\ \A n \in Node : ExactAt(n) /\ NotSelfAt(n)

-----------------------------------------------------------------------------
\* A datagram that leaves the network.
LEMMA TakeLemma ==
  ASSUME TypeOK, NEW n \in Node, NEW p \in Node, net[p][n] > 0, Take(n, p)
  PROVE  net' \in PerPair(0..MaxCopies)
<1>1. net[p] \in [Node -> 0..MaxCopies] /\ net[p][n] \in 0..MaxCopies
  BY DEF TypeOK, PerPair
<1>2. net[p][n] - 1 \in 0..MaxCopies
  BY <1>1, DiscoverAssumption
<1>3. [net[p] EXCEPT ![n] = net[p][n] - 1] \in [Node -> 0..MaxCopies]
  BY <1>1, <1>2
<1> QED BY <1>3 DEF Take, TypeOK, PerPair

\* None is a row of counters, whatever their bound.
LEMMA NoneLemma ==
  ASSUME NEW k \in Nat
  PROVE  None \in [Node -> 0..k]
<1>1. 0 \in 0..k
  OBVIOUS
<1> QED BY <1>1 DEF None

\* The initial state satisfies the inductive invariant.
LEMMA InitIInv == Init => IInv
<1> SUFFICES ASSUME Init PROVE IInv
  OBVIOUS
<1>1. TypeOK
  <2>1. /\ None \in [Node -> 0..AliveLimit]
        /\ None \in [Node -> 0..AliveLimit + 1]
        /\ None \in [Node -> 0..MaxCopies]
    BY NoneLemma, DiscoverAssumption
  <2> QED BY <2>1 DEF Init, TypeOK, PerPair
<1>2. ASSUME NEW n \in Node PROVE ExactAt(n) /\ NotSelfAt(n)
  BY DEF Init, ExactAt, NotSelfAt
<1> QED BY <1>1, <1>2 DEF IInv

\* A start clears the host's map.
LEMMA StartStep ==
  ASSUME IInv, NEW n \in Node, async_read_start(n)
  PROVE  IInv'
<1> USE DEF async_read_start
<1>1. TypeOK'
  <2>1. None \in [Node -> 0..AliveLimit] /\ None \in [Node -> 0..AliveLimit + 1]
    BY NoneLemma, DiscoverAssumption
  <2>2. up' \subseteq Node /\ listening' \subseteq up' /\ net' \in PerPair(0..MaxCopies)
    BY DEF IInv, TypeOK
  <2>3. known' \in [Node -> SUBSET Node] /\ view' \in [Node -> SUBSET Node]
    BY DEF IInv, TypeOK
  <2>4. alive_count' \in PerPair(0..AliveLimit)
    BY <2>1 DEF IInv, TypeOK, PerPair
  <2>5. silent' \in PerPair(0..AliveLimit + 1)
    BY <2>1 DEF IInv, TypeOK, PerPair
  <2> QED BY <2>2, <2>3, <2>4, <2>5 DEF TypeOK
<1>2. ASSUME NEW m \in Node PROVE (ExactAt(m) /\ NotSelfAt(m))'
  BY DEF IInv, TypeOK, PerPair, ExactAt, NotSelfAt
<1> QED BY <1>1, <1>2 DEF IInv

\* on_read: renewing a peer and resetting its silence go together.
LEMMA ReadStep ==
  ASSUME IInv, NEW n \in Node, NEW p \in Node, on_read(n, p)
  PROVE  IInv'
<1>0. TypeOK /\ net' \in PerPair(0..MaxCopies)
  BY TakeLemma DEF IInv, on_read
<1>1. 0 \in 0..AliveLimit /\ 0 \in 0..AliveLimit + 1
  BY DiscoverAssumption
<1>2. silent' = [silent EXCEPT ![n][p] = 0] /\ silent' \in PerPair(0..AliveLimit + 1)
  BY <1>0, <1>1 DEF on_read, TypeOK, PerPair
<1>3. CASE IsLocal(n, p)
  <2>1. UNCHANGED <<up, listening, known, view, alive_count>>
    BY <1>3 DEF on_read
  <2>2. TypeOK'
    BY <2>1, <1>0, <1>2 DEF TypeOK
  <2>3. p \notin known[n]
    BY <1>3 DEF IsLocal, IInv, NotSelfAt
  <2>4. ASSUME NEW m \in Node, NEW q \in known[m] PROVE silent'[m][q] = silent[m][q]
    <3>1. q \in Node
      BY <1>0 DEF TypeOK
    <3>2. m # n \/ q # p
      BY <2>3
    <3> QED BY <3>1, <3>2, <1>0, <1>2 DEF TypeOK, PerPair
  <2>5. ASSUME NEW m \in Node PROVE (ExactAt(m) /\ NotSelfAt(m))'
    BY <2>1, <2>4 DEF IInv, ExactAt, NotSelfAt
  <2> QED BY <2>2, <2>5 DEF IInv
<1>4. CASE ~IsLocal(n, p)
  <2>1. /\ UNCHANGED <<up, listening>>
        /\ known' = [known EXCEPT ![n] = @ \cup {p}]
        /\ view' = [view EXCEPT ![n] = IF p \in known[n] THEN @ ELSE @ \cup {p}]
        /\ alive_count' = [alive_count EXCEPT ![n][p] = 0]
    BY <1>4 DEF on_read
  <2>2. alive_count' \in PerPair(0..AliveLimit)
    BY <2>1, <1>0, <1>1 DEF TypeOK, PerPair
  <2>3. known' \in [Node -> SUBSET Node] /\ view' \in [Node -> SUBSET Node]
    BY <2>1, <1>0 DEF TypeOK
  <2>4. TypeOK'
    BY <2>1, <2>2, <2>3, <1>0, <1>2 DEF TypeOK
  <2>5. ASSUME NEW m \in Node PROVE view'[m] = known'[m]
    BY <2>1, <1>0 DEF TypeOK, IInv, ExactAt
  <2>6. ASSUME NEW m \in Node, NEW q \in known'[m]
        PROVE  alive_count'[m][q] = silent'[m][q]
    <3>1. q \in Node
      BY <2>3
    <3>2. CASE m = n /\ q = p
      BY <3>2, <2>1, <1>2, <1>0 DEF TypeOK, PerPair
    <3>3. CASE m # n \/ q # p
      <4>1. q \in known[m]
        BY <3>3, <2>1, <1>0 DEF TypeOK
      <4>2. alive_count'[m][q] = alive_count[m][q]
        BY <3>1, <3>3, <2>1, <1>0 DEF TypeOK, PerPair
      <4>3. silent'[m][q] = silent[m][q]
        BY <3>1, <3>3, <1>2, <1>0 DEF TypeOK, PerPair
      <4> QED BY <4>1, <4>2, <4>3 DEF IInv, ExactAt
    <3> QED BY <3>2, <3>3
  <2>7. ASSUME NEW m \in Node PROVE NotSelfAt(m)'
    BY <1>4, <2>1, <1>0 DEF IsLocal, TypeOK, IInv, NotSelfAt
  <2> QED BY <2>4, <2>5, <2>6, <2>7 DEF IInv, ExactAt
<1> QED BY <1>3, <1>4

\* What a tick does to the counters of the host, peer by peer.
LEMMA TickLemma ==
  ASSUME IInv, NEW n \in Node, on_time(n)
  PROVE  /\ known' = [known EXCEPT ![n] = @ \ Expired(n)]
         /\ view' = [view EXCEPT ![n] = @ \ Expired(n)]
         /\ \A m \in Node \ {n} : alive_count'[m] = alive_count[m] /\ silent'[m] = silent[m]
         /\ \A p \in Node :
              /\ alive_count'[n][p] = IF p \in known[n] \ Expired(n)
                                      THEN alive_count[n][p] + 1 ELSE 0
              /\ silent'[n][p] = IF silent[n][p] <= AliveLimit
                                 THEN silent[n][p] + 1 ELSE silent[n][p]
BY DEF on_time, on_time_map, IInv, TypeOK, PerPair

\* on_time: the counters of the peers that stay go up together.
LEMMA TickStep ==
  ASSUME IInv, NEW n \in Node, on_time(n)
  PROVE  IInv'
<1>0. /\ TypeOK
      /\ UNCHANGED <<up, listening>>
      /\ known' = [known EXCEPT ![n] = @ \ Expired(n)]
      /\ view' = [view EXCEPT ![n] = @ \ Expired(n)]
  BY DEF IInv, on_time, on_time_map
<1>1. known' \in [Node -> SUBSET Node] /\ view' \in [Node -> SUBSET Node]
  BY <1>0 DEF TypeOK
<1>2. ASSUME NEW p \in Node PROVE alive_count[n][p] \in 0..AliveLimit
  BY <1>0 DEF TypeOK, PerPair
<1>3. alive_count' \in PerPair(0..AliveLimit)
  <2> DEFINE row == [p \in Node |-> IF p \in known[n] \ Expired(n)
                                    THEN alive_count[n][p] + 1 ELSE 0]
  <2>1. ASSUME NEW p \in Node PROVE row[p] \in 0..AliveLimit
    BY <1>2, DiscoverAssumption DEF Expired
  <2>2. row \in [Node -> 0..AliveLimit]
    BY <2>1
  <2>3. alive_count' = [alive_count EXCEPT ![n] = row]
    BY DEF on_time, on_time_map
  <2> HIDE DEF row
  <2> QED BY <2>2, <2>3, <1>0 DEF TypeOK, PerPair
<1>4. ASSUME NEW p \in Node PROVE silent[n][p] \in 0..AliveLimit + 1
  BY <1>0 DEF TypeOK, PerPair
<1>5. silent' \in PerPair(0..AliveLimit + 1)
  <2> DEFINE row == [p \in Node |-> IF silent[n][p] <= AliveLimit
                                    THEN silent[n][p] + 1 ELSE silent[n][p]]
  <2>1. ASSUME NEW p \in Node PROVE row[p] \in 0..AliveLimit + 1
    BY <1>4, DiscoverAssumption
  <2>2. row \in [Node -> 0..AliveLimit + 1]
    BY <2>1
  <2>3. silent' = [silent EXCEPT ![n] = row]
    BY DEF on_time
  <2> HIDE DEF row
  <2> QED BY <2>2, <2>3, <1>0 DEF TypeOK, PerPair
<1>6. net' \in PerPair(0..MaxCopies)
  <2>1. PICK copies \in Broadcast(n) :
          net' = [net EXCEPT ![n] = [d \in Node |-> Capped(net[n][d] + copies[d])]]
    BY DEF on_time
  <2> DEFINE row == [d \in Node |-> Capped(net[n][d] + copies[d])]
  <2>2. ASSUME NEW d \in Node PROVE row[d] \in 0..MaxCopies
    <3>1. net[n][d] \in 0..MaxCopies
      BY <1>0 DEF TypeOK, PerPair
    <3>2. copies[d] \in 0..MaxCopies
      BY DiscoverAssumption DEF Broadcast
    <3> QED BY <3>1, <3>2, DiscoverAssumption DEF Capped
  <2>3. row \in [Node -> 0..MaxCopies]
    BY <2>2
  <2> HIDE DEF row
  <2> QED BY <2>1, <2>3, <1>0 DEF TypeOK, PerPair, row
<1>7. TypeOK'
  BY <1>0, <1>1, <1>3, <1>5, <1>6 DEF TypeOK
<1>8. ASSUME NEW m \in Node PROVE (ExactAt(m) /\ NotSelfAt(m))'
  <2>1. ExactAt(m) /\ NotSelfAt(m)
    BY DEF IInv
  <2>2. view'[m] = known'[m] /\ known'[m] \subseteq known[m] /\ NotSelfAt(m)'
    BY <2>1, <1>0 DEF ExactAt, NotSelfAt, TypeOK
  <2>3. ASSUME NEW p \in known'[m] PROVE alive_count'[m][p] = silent'[m][p]
    <3>1. p \in known[m] /\ p \in Node /\ alive_count[m][p] = silent[m][p]
      BY <2>1, <2>2, <1>0 DEF ExactAt, TypeOK
    <3>2. CASE m # n
      BY <3>1, <3>2, TickLemma
    <3>3. CASE m = n
      <4>1. p \in known[n] \ Expired(n)
        BY <3>3, <1>0 DEF TypeOK
      <4>2. silent[n][p] <= AliveLimit
        BY <3>1, <3>3, <1>2, DiscoverAssumption
      <4> QED BY <4>1, <4>2, <3>1, <3>3, TickLemma
    <3> QED BY <3>2, <3>3
  <2> QED BY <2>2, <2>3 DEF ExactAt
<1> QED BY <1>7, <1>8 DEF IInv

\* Every step preserves the invariant.
LEMMA StepIInv == IInv /\ [Next]_vars => IInv'
<1> SUFFICES ASSUME IInv, [Next]_vars PROVE IInv'
  OBVIOUS
<1> USE DEF IInv, TypeOK, ExactAt, NotSelfAt
<1>1. ASSUME NEW n \in Node, Crash(n) PROVE IInv'
  BY <1>1 DEF Crash
<1>2. ASSUME NEW n \in Node, close(n) PROVE IInv'
  BY <1>2 DEF close
<1>3. ASSUME NEW n \in Node, NEW p \in Node, Lose(n, p) PROVE IInv'
  BY <1>3, TakeLemma DEF Lose
<1>4. CASE UNCHANGED vars
  BY <1>4 DEF vars
<1> QED
  BY <1>1, <1>2, <1>3, <1>4, StartStep, ReadStep, TickStep DEF Next

\* The inductive invariant holds throughout.
LEMMA Invariance == Spec => []IInv
<1> QED BY InitIInv, StepIInv, PTL DEF Spec

-----------------------------------------------------------------------------
\* The counters of ip_map_ stay in their ranges.
THEOREM TypeCorrect == Spec => []TypeOK
<1>1. IInv => TypeOK
  BY DEF IInv
<1> QED BY <1>1, Invariance, PTL

\* The application's view is the map, and a peer's alive_count is the number of
\* ticks since it was last heard: on_read and on_time together keep it so.
THEOREM MapExact == Spec => []MapIsExact
<1>1. IInv => MapIsExact
  <2> SUFFICES ASSUME IInv, NEW n \in up
               PROVE  /\ view[n] = known[n]
                      /\ \A p \in known[n] : /\ alive_count[n][p] = silent[n][p]
                                             /\ silent[n][p] <= AliveLimit
    BY DEF MapIsExact
  <2>1. n \in Node /\ ExactAt(n) /\ known[n] \subseteq Node
    BY DEF IInv, TypeOK
  <2>2. ASSUME NEW p \in known[n] PROVE alive_count[n][p] <= AliveLimit
    <3>1. alive_count[n][p] \in 0..AliveLimit
      BY <2>1 DEF IInv, TypeOK, PerPair
    <3> QED BY <3>1, DiscoverAssumption
  <2> QED BY <2>1, <2>2 DEF ExactAt
<1> QED BY <1>1, Invariance, PTL

\* A host that knows its address never enters itself in ip_map_.
THEOREM SelfIsFiltered == Spec => []NeverSelf
<1>1. IInv => NeverSelf
  BY DiscoverAssumption DEF IInv, NotSelfAt, NeverSelf
<1> QED BY <1>1, Invariance, PTL

\* on_delete_ip is called only on the tick that makes the silence longer than
\* AliveLimit, whatever the network does.
THEOREM DeletionIsEarned == Spec => DeletedOnlyAfterSilence
<1>1. IInv /\ [Next]_vars =>
        [\A n \in up \cap up' : \A p \in view[n] \ view'[n] :
           silent[n][p] = AliveLimit /\ silent'[n][p] = AliveLimit + 1]_vars
  <2> SUFFICES ASSUME IInv, Next, NEW n \in up \cap up', NEW p \in view[n] \ view'[n]
               PROVE  silent[n][p] = AliveLimit /\ silent'[n][p] = AliveLimit + 1
    BY DEF vars
  <2>0. n \in Node /\ TypeOK /\ p \in Node /\ p \in known[n]
    BY DEF IInv, TypeOK, ExactAt
  <2>1. ASSUME NEW m \in Node, async_read_start(m) PROVE FALSE
    BY <2>1, <2>0 DEF async_read_start, TypeOK
  <2>2. ASSUME NEW m \in Node, Crash(m) \/ close(m) PROVE FALSE
    BY <2>2 DEF Crash, close
  <2>3. ASSUME NEW m \in Node, NEW q \in Node, on_read(m, q) PROVE FALSE
    BY <2>3, <2>0 DEF on_read, TypeOK
  <2>4. ASSUME NEW m \in Node, NEW q \in Node, Lose(m, q) PROVE FALSE
    BY <2>4 DEF Lose
  <2>5. ASSUME NEW m \in Node, on_time(m)
        PROVE  silent[n][p] = AliveLimit /\ silent'[n][p] = AliveLimit + 1
    <3>1. m = n /\ p \in Expired(n)
      BY <2>5, <2>0 DEF on_time, on_time_map, TypeOK
    <3>2. alive_count[n][p] \in 0..AliveLimit /\ alive_count[n][p] + 1 > AliveLimit
      BY <2>0, <3>1 DEF TypeOK, PerPair, Expired
    <3>3. silent[n][p] = AliveLimit
      BY <2>0, <3>2, DiscoverAssumption DEF IInv, ExactAt
    <3> QED BY <3>1, <3>3, <2>0, <2>5, TickLemma, DiscoverAssumption
  <2> QED BY <2>1, <2>2, <2>3, <2>4, <2>5 DEF Next
<1> QED BY <1>1, Invariance, PTL DEF Spec, DeletedOnlyAfterSilence

\* The map is true on any number of hosts, for any limit.
THEOREM MapTrue == Spec => []MapIsTrue
BY TypeCorrect, MapExact, SelfIsFiltered, PTL DEF MapIsTrue
=============================================================================
