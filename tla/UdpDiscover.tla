---------------------------- MODULE UdpDiscover -----------------------------
(***************************************************************************)
(* lidig_udp_discover (network/lidig_udp_discover.cpp) on a set of hosts:  *)
(* each broadcasts a datagram on every tick of its timer and keeps the     *)
(* peers it heard in ip_map_, which drops a peer after more than           *)
(* AliveLimit silent ticks.  Hosts crash and restart, their timers are not *)
(* synchronised, and the network loses, duplicates, delays and reorders    *)
(* datagrams.  A host is named by its address; ports are left out.         *)
(***************************************************************************)
EXTENDS Integers

CONSTANTS
  Node,
  HasEth0,      \* hosts whose address get_local_ip finds; "" on the others
  AliveLimit,   \* the literal 10 in on_time
  MaxCopies     \* bound on the datagrams in flight between two hosts

ASSUME DiscoverAssumption ==
  /\ HasEth0 \subseteq Node
  /\ AliveLimit \in Nat
  /\ MaxCopies \in Nat \ {0}

VARIABLES
  up,           \* hosts whose process runs, with its timer
  listening,    \* hosts that receive: async_read_start called, not closed
  known,        \* the keys of ip_map_
  alive_count,  \* ip_map_[ip].alive_count
  view,         \* the application's view: on_new_ip minus on_delete_ip
  silent,       \* history: ticks since a datagram of the peer was read
  net           \* datagrams in flight, per sender and receiver

vars == <<up, listening, known, alive_count, view, silent, net>>

PerPair(S) == [Node -> [Node -> S]]

TypeOK ==
  /\ up \subseteq Node
  /\ listening \subseteq up
  /\ known \in [Node -> SUBSET Node]
  /\ alive_count \in PerPair(0..AliveLimit)
  /\ view \in [Node -> SUBSET Node]
  /\ silent \in PerPair(0..AliveLimit + 1)
  /\ net \in PerPair(0..MaxCopies)

None == [p \in Node |-> 0]

Init ==
  /\ up = {}
  /\ listening = {}
  /\ known = [n \in Node |-> {}]
  /\ alive_count = [n \in Node |-> None]
  /\ view = [n \in Node |-> {}]
  /\ silent = [n \in Node |-> None]
  /\ net = [n \in Node |-> None]

-----------------------------------------------------------------------------
\* The process starts with an empty map: async_read_start.
async_read_start(n) ==
  /\ n \notin up
  /\ up' = up \cup {n}
  /\ listening' = listening \cup {n}
  /\ known' = [known EXCEPT ![n] = {}]
  /\ view' = [view EXCEPT ![n] = {}]
  /\ alive_count' = [alive_count EXCEPT ![n] = None]
  /\ silent' = [silent EXCEPT ![n] = None]
  /\ UNCHANGED net

Crash(n) ==
  /\ n \in up
  /\ up' = up \ {n}
  /\ listening' = listening \ {n}
  /\ UNCHANGED <<known, alive_count, view, silent, net>>

\* lidig_udp::close stops the reading; nothing stops the timer.
close(n) ==
  /\ n \in listening
  /\ listening' = listening \ {n}
  /\ UNCHANGED <<up, known, alive_count, view, silent, net>>

\* One datagram from p leaves the network.
Take(n, p) == net' = [net EXCEPT ![p][n] = @ - 1]

\* local_ip_, which is empty on a host without eth0.
IsLocal(n, p) == p = n /\ n \in HasEth0

\* Mutated form: a datagram of a known peer does not renew it.
on_read_NoRenew(n, p) ==
  /\ n \in listening
  /\ net[p][n] > 0
  /\ Take(n, p)
  /\ IF IsLocal(n, p) \/ p \in known[n]
     THEN UNCHANGED <<known, view, alive_count>>
     ELSE /\ known' = [known EXCEPT ![n] = @ \cup {p}]
          /\ view' = [view EXCEPT ![n] = @ \cup {p}]
          /\ alive_count' = [alive_count EXCEPT ![n][p] = 0]
  /\ silent' = [silent EXCEPT ![n][p] = 0]
  /\ UNCHANGED <<up, listening>>

\* Mutated form: the host's own broadcast is not filtered.
on_read_HearsSelf(n, p) ==
  /\ n \in listening
  /\ net[p][n] > 0
  /\ Take(n, p)
  /\ known' = [known EXCEPT ![n] = @ \cup {p}]
  /\ view' = [view EXCEPT ![n] = @ \cup {p}]
  /\ alive_count' = [alive_count EXCEPT ![n][p] = 0]
  /\ silent' = [silent EXCEPT ![n][p] = 0]
  /\ UNCHANGED <<up, listening>>

\* on_read: a new peer is entered and announced, a known one renewed.
on_read(n, p) ==
  /\ n \in listening
  /\ net[p][n] > 0
  /\ Take(n, p)
  /\ IF IsLocal(n, p)
     THEN UNCHANGED <<known, view, alive_count>>
     ELSE /\ known' = [known EXCEPT ![n] = @ \cup {p}]
          /\ view' = [view EXCEPT ![n] = IF p \in known[n] THEN @ ELSE @ \cup {p}]
          /\ alive_count' = [alive_count EXCEPT ![n][p] = 0]
  /\ silent' = [silent EXCEPT ![n][p] = 0]
  /\ UNCHANGED <<up, listening>>

\* The peers that on_time erases, after counting them up.
Expired(n) == {p \in known[n] : alive_count[n][p] + 1 > AliveLimit}

\* Mutated forms: the erased peer is not announced; off by one.
on_time_map_Silent(n) ==
  /\ known' = [known EXCEPT ![n] = @ \ Expired(n)]
  /\ alive_count' = [alive_count EXCEPT ![n] =
       [p \in Node |-> IF p \in known[n] \ Expired(n) THEN @[p] + 1 ELSE 0]]
  /\ UNCHANGED view

on_time_map_Hasty(n) ==
  LET hasty == {p \in known[n] : alive_count[n][p] + 1 >= AliveLimit} IN
  /\ known' = [known EXCEPT ![n] = @ \ hasty]
  /\ view' = [view EXCEPT ![n] = @ \ hasty]
  /\ alive_count' = [alive_count EXCEPT ![n] =
       [p \in Node |-> IF p \in known[n] \ hasty THEN @[p] + 1 ELSE 0]]

\* Mutated form: the expired peer is announced but not erased.
on_time_map_NoErase(n) ==
  /\ view' = [view EXCEPT ![n] = @ \ Expired(n)]
  /\ alive_count' = [alive_count EXCEPT ![n] =
       [p \in Node |-> IF p \notin known[n] THEN 0 ELSE
                        IF @[p] > AliveLimit THEN @[p] ELSE @[p] + 1]]
  /\ UNCHANGED known

\* The loop over ip_map_: count, announce with on_delete_ip, erase.
on_time_map(n) ==
  /\ known' = [known EXCEPT ![n] = @ \ Expired(n)]
  /\ view' = [view EXCEPT ![n] = @ \ Expired(n)]
  /\ alive_count' = [alive_count EXCEPT ![n] =
       [p \in Node |-> IF p \in known[n] \ Expired(n) THEN @[p] + 1 ELSE 0]]

Capped(c) == IF c > MaxCopies THEN MaxCopies ELSE c

\* Mutated form: the socket may not broadcast, so only the sender hears it.
Broadcast_Local(n) == {[d \in Node |-> IF d = n THEN 1 ELSE 0]}

\* The copies of a broadcast that set out for each host, the sender included.
\* A send through a handle that close() has closed may go out or fail.
Broadcast(n) == [Node -> IF n \in listening THEN 1..MaxCopies ELSE 0..MaxCopies]

\* on_time: the broadcast, then the map is aged.
on_time(n) ==
  /\ n \in up
  /\ \E copies \in Broadcast(n) :
       net' = [net EXCEPT ![n] = [d \in Node |-> Capped(net[n][d] + copies[d])]]
  /\ on_time_map(n)
  /\ silent' = [silent EXCEPT ![n] =
       [p \in Node |-> IF @[p] <= AliveLimit THEN @[p] + 1 ELSE @[p]]]
  /\ UNCHANGED <<up, listening>>

\* A datagram is lost.
Lose(n, p) ==
  /\ net[p][n] > 0
  /\ Take(n, p)
  /\ UNCHANGED <<up, listening, known, alive_count, view, silent>>

Next ==
  \E n \in Node :
    \/ async_read_start(n) \/ Crash(n) \/ close(n) \/ on_time(n)
    \/ \E p \in Node : on_read(n, p) \/ Lose(n, p)

Spec == Init /\ [][Next]_vars

\* The timer of a running host is periodic; a datagram does not stay in flight
\* for ever; of the datagrams between two hosts not all are lost.
FairSpec ==
  /\ Spec
  /\ \A n \in Node : WF_vars(on_time(n))
  /\ \A n, p \in Node : WF_vars(on_read(n, p) \/ Lose(n, p)) /\ SF_vars(on_read(n, p))

-----------------------------------------------------------------------------
\* The map of a running host is exact: the application was told of precisely
\* the peers in it, and each of them has been silent for as many ticks as its
\* alive_count says, never more than AliveLimit.
MapIsExact ==
  \A n \in up :
    /\ view[n] = known[n]
    /\ \A p \in known[n] : alive_count[n][p] = silent[n][p] /\ silent[n][p] <= AliveLimit

\* A host that knows its address never discovers itself by its own broadcast.
NeverSelf == \A n \in HasEth0 : n \notin known[n]

\* ip_map_ on a network that loses, repeats and delays: it holds the other hosts that
\* were heard, each with its true silence, and never the host itself.
MapIsTrue == TypeOK /\ MapIsExact /\ NeverSelf

\* on_delete_ip is called only for a peer that was silent for more than
\* AliveLimit ticks of this host, however datagrams are delayed or duplicated.
DeletedOnlyAfterSilence ==
  [][\A n \in up \cap up' : \A p \in view[n] \ view'[n] :
       silent[n][p] = AliveLimit /\ silent'[n][p] = AliveLimit + 1]_vars

\* A peer that is gone for good is deleted, and stays deleted, at every host
\* that keeps running, even one that has stopped listening.
GoneIsForgotten ==
  \A n, p \in Node :
    <>[](n \in up /\ p \notin up) => <>[](p \notin view[n])

\* Two hosts that keep running and listening discover each other, again and
\* again if the network makes them lose each other.
PeersAreFound ==
  \A n, p \in Node :
    (<>[](n \in listening /\ p \in listening) /\ n # p) => []<>(p \in view[n])

\* The map follows the peers that come and go, over a network that loses datagrams.
MapFollowsPeers == GoneIsForgotten /\ PeersAreFound
=============================================================================
