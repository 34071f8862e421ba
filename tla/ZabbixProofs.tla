---------------------------- MODULE ZabbixProofs ----------------------------
(***************************************************************************)
(* Invariance proofs for ZabbixStream, for every header size, all packet   *)
(* lengths and any number of packets, reads and connections.               *)
(***************************************************************************)
EXTENDS ZabbixStream, TLAPS

\* A position where a packet begins, or where the next one will.
Boundary(x, ps, w) == x = w \/ \E i \in DOMAIN ps : ps[i].start = x

\* The packets lie on the wire one after the other; those of this connection
\* are complete and leave no gap.
Layout ==
  /\ \A i \in DOMAIN pkts :
       /\ pkts[i].start < pkts[i].stop
       /\ pkts[i].stop <= wr
       /\ pkts[i].start < conn => pkts[i].stop <= conn
       /\ pkts[i].start >= conn => Complete(pkts[i])
       /\ pkts[i].stop > conn => Boundary(pkts[i].stop, pkts, wr)
  /\ \A i, j \in DOMAIN pkts : i < j => pkts[i].stop <= pkts[j].start

\* A call of on_packet was given the whole of a packet.
Whole(d) ==
  \E i \in DOMAIN pkts :
    /\ d.from = pkts[i].start
    /\ d.to = pkts[i].stop
    /\ d.data_len = pkts[i].send_len
    /\ Complete(pkts[i])

Delivered(i) == \E k \in DOMAIN on_packets : on_packets[k].from = pkts[i].start

\* What has been delivered lies before the buffer.
History ==
  /\ \A k \in DOMAIN on_packets : Whole(on_packets[k]) /\ on_packets[k].to <= base
  /\ \A k \in 2..Len(on_packets) : on_packets[k - 1].to <= on_packets[k].from

\* Without coalesced reads the buffer holds at most one packet, an incomplete
\* one, and everything before it has been delivered.
Separate ==
  ~coalesced => \A i \in DOMAIN pkts :
    pkts[i].start >= conn /\ pkts[i].stop <= rd => pkts[i].stop <= base /\ Delivered(i)

\* The inductive invariant.
IInv == TypeOK /\ Layout /\ Boundary(base, pkts, wr) /\ History /\ Separate

-----------------------------------------------------------------------------
\* The fields of a packet and its size.
LEMMA PacketFacts ==
  ASSUME TypeOK, NEW i \in DOMAIN pkts
  PROVE  /\ i \in Nat
         /\ pkts[i] \in Packet
         /\ pkts[i].start \in Nat
         /\ pkts[i].stop \in Nat
         /\ pkts[i].send_len \in Nat
         /\ pkts[i].reserved_len \in Nat
         /\ Size(pkts[i]) \in Nat
         /\ Size(pkts[i]) >= HeaderSize
<1>1. pkts[i] \in Packet /\ i \in Nat
  BY DEF TypeOK
<1>2. /\ pkts[i].start \in Nat
      /\ pkts[i].stop \in Nat
      /\ pkts[i].send_len \in Nat
      /\ pkts[i].reserved_len \in Nat
  BY <1>1, ZabbixAssumption DEF Packet
<1>3. Size(pkts[i]) \in Nat /\ Size(pkts[i]) >= HeaderSize
  BY <1>2, ZabbixAssumption DEF Size
<1> QED BY <1>1, <1>2, <1>3

\* The buffer is empty or begins with a complete packet.
LEMMA SyncLemma == IInv => InSync
<1> SUFFICES ASSUME IInv, base < rd
             PROVE  \E i \in DOMAIN pkts : AtFront(pkts[i]) /\ Complete(pkts[i])
  BY DEF InSync
<1>1. base # wr
  BY DEF IInv, TypeOK
<1>2. PICK i \in DOMAIN pkts : pkts[i].start = base
  BY <1>1 DEF IInv, Boundary
<1>3. pkts[i].stop > base
  BY <1>2, PacketFacts DEF IInv, Layout
<1>4. Complete(pkts[i])
  BY <1>2 DEF IInv, TypeOK, Layout
<1> QED BY <1>2, <1>3, <1>4 DEF AtFront

\* The initial state satisfies the inductive invariant.
LEMMA InitIInv == Init => IInv
<1> SUFFICES ASSUME Init PROVE IInv
  OBVIOUS
<1> USE DEF Init
<1>1. TypeOK
  <2>1. pkts \in Seq(Packet) /\ on_packets \in Seq(Delivery)
    OBVIOUS
  <2>2. wr \in Nat /\ rd \in 0..wr /\ base \in 0..rd /\ conn \in 0..base
    OBVIOUS
  <2> QED BY <2>1, <2>2 DEF TypeOK
<1>2. Layout /\ Boundary(base, pkts, wr) /\ History /\ Separate
  BY DEF Layout, Boundary, History, Separate
<1> QED BY <1>1, <1>2 DEF IInv

\* encode_packet adds one packet at the end of the wire.
LEMMA EncodeStep ==
  ASSUME IInv, NEW s \in Length, NEW r \in Length, encode_packet(s, r)
  PROVE  IInv'
<1> DEFINE n == Len(pkts) + 1
           new == [start |-> wr, stop |-> wr', send_len |-> s, reserved_len |-> r]
<1>0. /\ TypeOK
      /\ UNCHANGED <<rd, base, conn, on_packets, coalesced>>
      /\ wr' = wr + HeaderSize + s + r
      /\ pkts' = Append(pkts, new)
  BY DEF IInv, encode_packet
<1>1. s \in Nat /\ r \in Nat /\ wr \in Nat /\ wr' \in Nat /\ wr < wr'
  BY <1>0, ZabbixAssumption DEF TypeOK
<1>2. new \in Packet
  BY <1>1 DEF Packet
<1>3. /\ pkts' \in Seq(Packet)
      /\ DOMAIN pkts' = DOMAIN pkts \cup {n}
      /\ n \notin DOMAIN pkts
      /\ pkts'[n] = new
      /\ \A i \in DOMAIN pkts : pkts'[i] = pkts[i] /\ i < n
  <2> HIDE DEF new
  <2> QED BY <1>0, <1>2 DEF TypeOK
<1>4. new.start = wr /\ new.stop = wr' /\ new.send_len = s /\ new.reserved_len = r
  OBVIOUS
<1>5. Complete(new) /\ new.start < new.stop
  BY <1>0, <1>1, <1>4, ZabbixAssumption DEF Complete, Size
<1>6. TypeOK'
  BY <1>0, <1>1, <1>3 DEF TypeOK
<1> HIDE DEF n, new
<1>7. ASSUME NEW x, Boundary(x, pkts, wr) PROVE Boundary(x, pkts', wr')
  BY <1>7, <1>3, <1>4 DEF Boundary
<1>8. Layout'
  <2>1. ASSUME NEW i \in DOMAIN pkts
        PROVE  /\ pkts'[i].start < pkts'[i].stop
               /\ pkts'[i].stop <= wr'
               /\ pkts'[i].start < conn' => pkts'[i].stop <= conn'
               /\ pkts'[i].start >= conn' => Complete(pkts'[i])
               /\ pkts'[i].stop > conn' => Boundary(pkts'[i].stop, pkts', wr')
    <3>1. pkts'[i].stop > conn => Boundary(pkts'[i].stop, pkts', wr')
      BY <1>7, <1>3 DEF IInv, Layout
    <3>2. pkts[i].stop <= wr'
      BY <1>0, <1>1, PacketFacts DEF IInv, Layout
    <3> QED BY <3>1, <3>2, <1>0, <1>3 DEF IInv, Layout
  <2>2. /\ new.stop <= wr'
        /\ ~(new.start < conn')
        /\ Boundary(new.stop, pkts', wr')
    BY <1>0, <1>1, <1>4 DEF TypeOK, Boundary
  <2>3. ASSUME NEW i \in DOMAIN pkts', NEW j \in DOMAIN pkts', i < j
        PROVE  pkts'[i].stop <= pkts'[j].start
    <3>1. i \in DOMAIN pkts
      <4>1. n \in Nat /\ j \in Nat /\ (j = n \/ j < n)
        BY <1>0, <1>3, PacketFacts DEF TypeOK, n
      <4> QED BY <4>1, <2>3, <1>3
    <3>2. CASE j \in DOMAIN pkts
      BY <3>1, <3>2, <2>3, <1>3 DEF IInv, Layout
    <3>3. CASE j = n
      BY <3>1, <3>3, <1>3, <1>4 DEF IInv, Layout
    <3> QED BY <3>2, <3>3, <1>3
  <2>4. ASSUME NEW i \in DOMAIN pkts'
        PROVE  /\ pkts'[i].start < pkts'[i].stop
               /\ pkts'[i].stop <= wr'
               /\ pkts'[i].start < conn' => pkts'[i].stop <= conn'
               /\ pkts'[i].start >= conn' => Complete(pkts'[i])
               /\ pkts'[i].stop > conn' => Boundary(pkts'[i].stop, pkts', wr')
    BY <2>1, <2>2, <1>3, <1>5
  <2> QED BY <2>3, <2>4 DEF Layout, Complete, Size
<1>9. Boundary(base, pkts, wr)'
  <2>1. Boundary(base, pkts, wr)
    BY DEF IInv
  <2> QED BY <2>1, <1>3, <1>4, <1>0 DEF Boundary
<1>10. History'
  <2>1. ASSUME NEW k \in DOMAIN on_packets PROVE Whole(on_packets[k])'
    <3>1. Whole(on_packets[k])
      BY DEF IInv, History
    <3> QED BY <3>1, <1>0, <1>3 DEF Whole, Complete, Size
  <2> QED BY <2>1, <1>0 DEF IInv, History
<1>11. Separate'
  <2> SUFFICES ASSUME ~coalesced, NEW i \in DOMAIN pkts',
                      pkts'[i].start >= conn, pkts'[i].stop <= rd
               PROVE  pkts'[i].stop <= base /\ Delivered(i)'
    BY <1>0 DEF Separate
  <2>1. i \in DOMAIN pkts
    BY <1>0, <1>1, <1>3, <1>4 DEF TypeOK
  <2>2. pkts[i].stop <= base /\ Delivered(i)
    BY <2>1, <1>3 DEF IInv, Separate
  <2> QED BY <2>1, <2>2, <1>0, <1>3 DEF Delivered
<1> QED BY <1>6, <1>8, <1>9, <1>10, <1>11 DEF IInv

\* One packet at most is at the front of the buffer.
LEMMA FrontUnique ==
  ASSUME IInv, NEW i \in DOMAIN pkts, NEW j \in DOMAIN pkts,
         pkts[i].start = pkts[j].start
  PROVE  i = j
<1>1. /\ i \in Nat /\ j \in Nat
      /\ pkts[i].start \in Nat /\ pkts[i].stop \in Nat
      /\ pkts[j].start \in Nat /\ pkts[j].stop \in Nat
  BY PacketFacts DEF IInv
<1>2. pkts[i].start < pkts[i].stop /\ pkts[j].start < pkts[j].stop
  BY DEF IInv, Layout
<1>3. ~(i < j) /\ ~(j < i)
  BY <1>1, <1>2 DEF IInv, Layout
<1> QED BY <1>1, <1>3

\* A read finds the complete packet f at the front of the buffer.
LEMMA ReadLemma ==
  ASSUME IInv, NEW to \in 1..wr, on_read(to)
  PROVE  \E f \in DOMAIN pkts :
           /\ pkts[f].start = base
           /\ Complete(pkts[f])
           /\ IF to = pkts[f].stop
              THEN /\ base' = to
                   /\ on_packets' = Append(on_packets,
                        [from |-> base, to |-> to, data_len |-> pkts[f].send_len])
              ELSE UNCHANGED <<base, on_packets>>
<1>0. /\ TypeOK
      /\ to \in Nat /\ rd < to /\ to <= wr
      /\ wr \in Nat /\ rd \in Nat /\ base \in Nat /\ base <= rd /\ base < to
  BY DEF IInv, TypeOK, on_read
<1>1. PICK f \in DOMAIN pkts : pkts[f].start = base
  BY <1>0 DEF IInv, Boundary
<1>2. Complete(pkts[f])
  BY <1>0, <1>1 DEF IInv, TypeOK, Layout
<1>3. pkts[f].stop = base + Size(pkts[f]) /\ AtFront(pkts[f])
  BY <1>1, <1>2, PacketFacts DEF IInv, Layout, Complete, AtFront
<1>4. Size(pkts[f]) \in Nat /\ Size(pkts[f]) >= HeaderSize /\ HeaderSize \in Nat
  BY <1>0, PacketFacts, ZabbixAssumption
<1>5. parser_packet(to)
  BY DEF on_read
<1>6. CASE to - base < HeaderSize
  <2>1. UNCHANGED <<base, on_packets>>
    BY <1>5, <1>6 DEF parser_packet
  <2>2. to # pkts[f].stop
    BY <1>0, <1>3, <1>4, <1>6
  <2> QED BY <1>1, <1>2, <2>1, <2>2
<1>7. CASE ~(to - base < HeaderSize)
  <2>1. PICK i \in DOMAIN pkts :
          /\ AtFront(pkts[i])
          /\ IF Size(pkts[i]) # to - base
             THEN UNCHANGED <<base, on_packets>>
             ELSE /\ on_packets' = Append(on_packets,
                       [from |-> base, to |-> to, data_len |-> pkts[i].send_len])
                  /\ base' = to
    BY <1>3, <1>5, <1>7 DEF parser_packet
  <2>2. i = f
    BY <2>1, <1>1, FrontUnique DEF AtFront
  <2>3. Size(pkts[f]) = to - base <=> to = pkts[f].stop
    BY <1>0, <1>3, <1>4
  <2> QED BY <2>1, <2>2, <2>3, <1>1, <1>2
<1> QED BY <1>6, <1>7

\* on_read: a delivery moves the buffer to the end of its packet.
LEMMA ReadStep ==
  ASSUME IInv, NEW to \in 1..wr, on_read(to)
  PROVE  IInv'
<1>0. /\ TypeOK
      /\ UNCHANGED <<pkts, wr, conn>>
      /\ rd' = to
      /\ coalesced' = (coalesced \/ \E i \in DOMAIN pkts : rd < pkts[i].stop /\ pkts[i].stop < to)
  BY DEF IInv, on_read
<1>1. /\ to \in Nat /\ rd < to /\ to <= wr
      /\ wr \in Nat /\ rd \in Nat /\ base \in Nat /\ conn \in Nat
      /\ base <= rd /\ conn <= base
  BY DEF IInv, TypeOK, on_read
<1>2. PICK f \in DOMAIN pkts :
        /\ pkts[f].start = base
        /\ Complete(pkts[f])
        /\ IF to = pkts[f].stop
           THEN /\ base' = to
                /\ on_packets' = Append(on_packets,
                     [from |-> base, to |-> to, data_len |-> pkts[f].send_len])
           ELSE UNCHANGED <<base, on_packets>>
  BY ReadLemma
<1>3. Layout'
  BY <1>0 DEF IInv, Layout, Complete, Size
<1>4. pkts[f].stop \in Nat /\ base < pkts[f].stop
  BY <1>2, PacketFacts DEF IInv, Layout
<1>5. ASSUME NEW i \in DOMAIN pkts, pkts[i].start >= conn, pkts[i].stop <= to, ~coalesced'
      PROVE  (pkts[i].stop <= base /\ Delivered(i)) \/ (i = f /\ pkts[i].stop = to)
  <2>0. /\ i \in Nat /\ f \in Nat
        /\ pkts[i].start \in Nat /\ pkts[i].stop \in Nat
    BY <1>0, PacketFacts
  <2>a. ~coalesced /\ \A j \in DOMAIN pkts : ~(rd < pkts[j].stop /\ pkts[j].stop < to)
    BY <1>0, <1>5
  <2>1. CASE pkts[i].stop <= rd
    BY <2>1, <2>a, <1>5 DEF IInv, Separate
  <2>2. CASE pkts[i].stop > rd
    <3>1. pkts[i].stop = to
      BY <2>0, <2>a, <2>2, <1>1, <1>5
    <3>2. ~(i < f)
      BY <2>0, <2>2, <1>1, <1>2 DEF IInv, Layout
    <3>3. ~(f < i)
      <4> SUFFICES ASSUME f < i PROVE FALSE
        OBVIOUS
      <4>1. pkts[f].stop <= pkts[i].start /\ pkts[i].start < pkts[i].stop
        BY DEF IInv, Layout
      <4>2. pkts[f].stop < to
        BY <4>1, <3>1, <2>0, <1>4, <1>1
      <4>3. pkts[f].stop <= rd
        BY <4>2, <2>a, <1>1, <1>4
      <4>4. pkts[f].stop <= base
        BY <4>3, <2>a, <1>1, <1>2 DEF IInv, Separate
      <4> QED BY <4>4, <1>4, <1>1
    <3> QED BY <3>1, <3>2, <3>3, <2>0
  <2> QED BY <2>1, <2>2, <2>0, <1>1
<1>6. CASE to # pkts[f].stop
  <2>1. UNCHANGED <<base, on_packets>>
    BY <1>2, <1>6
  <2>2. TypeOK'
    BY <1>0, <1>1, <2>1 DEF TypeOK
  <2>3. Boundary(base, pkts, wr)' /\ History'
    BY <1>0, <2>1 DEF IInv, Boundary, History, Whole, Complete, Size
  <2>4. Separate'
    BY <1>0, <1>5, <1>6, <2>1 DEF Separate, Delivered
  <2> QED BY <1>3, <2>2, <2>3, <2>4 DEF IInv
<1>7. CASE to = pkts[f].stop
  <2> DEFINE d == [from |-> base, to |-> to, data_len |-> pkts[f].send_len]
             n == Len(on_packets) + 1
  <2>0. base' = to /\ on_packets' = Append(on_packets, d)
    BY <1>2, <1>7
  <2>1. d \in Delivery
    <3>1. pkts[f].send_len \in Length
      BY <1>0, PacketFacts DEF Packet
    <3> QED BY <3>1, <1>1 DEF Delivery
  <2>2. d.from = base /\ d.to = to /\ d.data_len = pkts[f].send_len
    OBVIOUS
  <2> HIDE DEF d
  <2>3. /\ on_packets' \in Seq(Delivery)
        /\ n \in Nat
        /\ Len(on_packets') = n
        /\ DOMAIN on_packets' = DOMAIN on_packets \cup {n}
        /\ on_packets'[n] = d
        /\ \A k \in DOMAIN on_packets : on_packets'[k] = on_packets[k]
        /\ DOMAIN on_packets = 1..(n - 1)
    BY <1>0, <2>0, <2>1 DEF TypeOK
  <2> HIDE DEF n
  <2>4. TypeOK'
    BY <1>0, <1>1, <2>0, <2>3 DEF TypeOK
  <2>5. Boundary(base, pkts, wr)'
    <3>1. pkts[f].stop > conn
      BY <1>1, <1>4
    <3>2. Boundary(pkts[f].stop, pkts, wr)
      BY <3>1 DEF IInv, Layout
    <3> QED BY <3>2, <1>0, <1>7, <2>0 DEF Boundary
  <2>6. ASSUME NEW k \in DOMAIN on_packets
        PROVE  /\ Whole(on_packets[k])
               /\ on_packets[k].to <= base
               /\ on_packets[k].to \in Nat
    <3>1. on_packets[k] \in Delivery
      BY <1>0 DEF TypeOK
    <3> QED BY <3>1 DEF IInv, History, Delivery
  <2>7. ASSUME NEW k \in DOMAIN on_packets'
        PROVE  Whole(on_packets[k])' /\ on_packets'[k].to <= base'
    <3>1. CASE k = n
      BY <3>1, <2>0, <2>2, <2>3, <1>0, <1>1, <1>2, <1>7 DEF Whole, Complete, Size
    <3>2. CASE k \in DOMAIN on_packets
      <4>1. Whole(on_packets[k])'
        BY <3>2, <2>3, <2>6, <1>0 DEF Whole, Complete, Size
      <4>2. on_packets'[k].to <= base'
        BY <3>2, <2>0, <2>3, <2>6, <1>1
      <4> QED BY <4>1, <4>2
    <3> QED BY <3>1, <3>2, <2>3
  <2>8. ASSUME NEW k \in 2..n PROVE on_packets'[k - 1].to <= on_packets'[k].from
    <3>1. k - 1 \in DOMAIN on_packets
      BY <2>3
    <3>2. CASE k = n
      BY <3>1, <3>2, <2>2, <2>3, <2>6
    <3>3. CASE k # n
      <4>1. k \in DOMAIN on_packets /\ k \in 2..Len(on_packets)
        BY <3>3, <2>3, <1>0 DEF TypeOK
      <4> QED BY <4>1, <3>1, <2>3 DEF IInv, History
    <3> QED BY <3>2, <3>3
  <2>9. History'
    BY <2>7, <2>8, <2>3 DEF History
  <2>10. Separate'
    <3> SUFFICES ASSUME ~coalesced', NEW i \in DOMAIN pkts,
                        pkts[i].start >= conn, pkts[i].stop <= to
                 PROVE  pkts[i].stop <= base' /\ Delivered(i)'
      BY <1>0 DEF Separate
    <3>1. pkts[i].stop <= base'
      BY <2>0
    <3>2. CASE i = f
      BY <3>1, <3>2, <2>2, <2>3, <1>0, <1>2 DEF Delivered
    <3>3. CASE i # f
      <4>1. Delivered(i)
        BY <3>3, <1>5
      <4> QED BY <3>1, <4>1, <2>3, <1>0 DEF Delivered
    <3> QED BY <3>2, <3>3
  <2> QED BY <1>3, <2>4, <2>5, <2>9, <2>10 DEF IInv
<1> QED BY <1>6, <1>7

\* on_connection: what was delivered is not touched by the cut.
LEMMA ConnectionStep ==
  ASSUME IInv, on_connection
  PROVE  IInv'
<1>0. /\ TypeOK
      /\ wr' = rd /\ base' = rd /\ conn' = rd /\ coalesced' = FALSE
      /\ UNCHANGED <<rd, on_packets>>
      /\ rd \in Nat /\ base \in Nat /\ base <= rd
  BY DEF IInv, TypeOK, on_connection
<1> DEFINE Kept(i) == [pkts[i] EXCEPT !.stop = IF @ > rd THEN rd ELSE @]
<1>1. PICK n \in 0..Len(pkts) :
        /\ \A i \in DOMAIN pkts : pkts[i].start < rd <=> i <= n
        /\ pkts' = [i \in 1..n |-> Kept(i)]
  BY DEF on_connection, Broken
<1>2. n \in Nat /\ 1..n \subseteq DOMAIN pkts
  BY <1>0 DEF TypeOK
<1>3. ASSUME NEW i \in 1..n
      PROVE  /\ Kept(i) \in Packet
             /\ Kept(i).start = pkts[i].start
             /\ Kept(i).stop = IF pkts[i].stop > rd THEN rd ELSE pkts[i].stop
             /\ Kept(i).send_len = pkts[i].send_len
             /\ Kept(i).reserved_len = pkts[i].reserved_len
  <2>1. pkts[i] \in Packet
    BY <1>0, <1>2, PacketFacts
  <2> QED BY <2>1, <1>0 DEF Packet
<1> HIDE DEF Kept
<1>4. /\ DOMAIN pkts' = 1..n
      /\ \A i \in 1..n : pkts'[i] = Kept(i)
      /\ pkts' \in Seq(Packet)
  BY <1>1, <1>2, <1>3
<1>5. TypeOK'
  <2>1. rd' \in 0..wr' /\ base' \in 0..rd' /\ conn' \in 0..base' /\ wr' \in Nat
    BY <1>0
  <2>2. coalesced' \in BOOLEAN /\ on_packets' \in Seq(Delivery)
    BY <1>0 DEF TypeOK
  <2> QED BY <2>1, <2>2, <1>4 DEF TypeOK
<1>6. ASSUME NEW i \in 1..n
      PROVE  /\ i \in DOMAIN pkts
             /\ pkts'[i].start = pkts[i].start
             /\ pkts[i].start \in Nat /\ pkts[i].stop \in Nat
             /\ pkts'[i].stop \in Nat
             /\ pkts[i].start < rd
             /\ pkts'[i].start < pkts'[i].stop
             /\ pkts'[i].stop <= rd
             /\ pkts'[i].stop <= pkts[i].stop
  <2>1. i \in DOMAIN pkts
    BY <1>2
  <2>2. /\ pkts[i].start \in Nat /\ pkts[i].stop \in Nat
        /\ pkts[i].start < pkts[i].stop
        /\ pkts[i].start < rd
    BY <2>1, <1>0, <1>1, PacketFacts DEF IInv, Layout
  <2>3. /\ pkts'[i].start = pkts[i].start
        /\ pkts'[i].stop = IF pkts[i].stop > rd THEN rd ELSE pkts[i].stop
    BY <1>3, <1>4
  <2> QED BY <2>1, <2>2, <2>3, <1>0
<1>7. Layout'
  <2>1. ASSUME NEW i \in DOMAIN pkts', NEW j \in DOMAIN pkts', i < j
        PROVE  pkts'[i].stop <= pkts'[j].start
    <3>1. i \in 1..n /\ j \in 1..n
      BY <1>4
    <3>2. pkts[i].stop <= pkts[j].start
      BY <3>1, <1>2, <2>1 DEF IInv, Layout
    <3> QED BY <3>1, <3>2, <1>6
  <2>2. ASSUME NEW i \in DOMAIN pkts'
        PROVE  /\ pkts'[i].start < pkts'[i].stop
               /\ pkts'[i].stop <= wr'
               /\ pkts'[i].start < conn' /\ pkts'[i].stop <= conn'
               /\ ~(pkts'[i].start >= conn')
               /\ ~(pkts'[i].stop > conn')
    BY <1>0, <1>4, <1>6
  <2> QED BY <2>1, <2>2 DEF Layout
<1>8. Boundary(base, pkts, wr)'
  BY <1>0 DEF Boundary
<1>9. ASSUME NEW k \in DOMAIN on_packets
      PROVE  Whole(on_packets[k])' /\ on_packets'[k].to <= base'
  <2>1. on_packets[k].to \in Nat /\ on_packets[k].to <= base
    <3>1. on_packets[k] \in Delivery
      BY <1>0 DEF TypeOK
    <3> QED BY <3>1 DEF IInv, History, Delivery
  <2>2. PICK i \in DOMAIN pkts :
          /\ on_packets[k].from = pkts[i].start
          /\ on_packets[k].to = pkts[i].stop
          /\ on_packets[k].data_len = pkts[i].send_len
          /\ Complete(pkts[i])
    BY DEF IInv, History, Whole
  <2>3. pkts[i].start \in Nat /\ pkts[i].start < pkts[i].stop /\ i \in Nat /\ i >= 1
    BY <1>0, PacketFacts DEF IInv, Layout, TypeOK
  <2>4. pkts[i].start < rd /\ ~(pkts[i].stop > rd)
    BY <2>1, <2>2, <2>3, <1>0
  <2>5. i \in 1..n
    BY <2>3, <2>4, <1>1, <1>2
  <2>6. /\ pkts'[i].start = pkts[i].start /\ pkts'[i].stop = pkts[i].stop
        /\ pkts'[i].send_len = pkts[i].send_len
        /\ pkts'[i].reserved_len = pkts[i].reserved_len
    BY <2>4, <2>5, <1>3, <1>4
  <2>7. Whole(on_packets[k])'
    BY <2>2, <2>5, <2>6, <1>0, <1>4 DEF Whole, Complete, Size
  <2> QED BY <2>1, <2>7, <1>0
<1>10. History'
  BY <1>0, <1>9 DEF IInv, History
<1>11. Separate'
  BY <1>0, <1>4, <1>6 DEF Separate
<1> QED BY <1>5, <1>7, <1>8, <1>10, <1>11 DEF IInv

\* Every step preserves the invariant.
LEMMA StepIInv == IInv /\ [Next]_vars => IInv'
<1> SUFFICES ASSUME IInv, [Next]_vars PROVE IInv'
  OBVIOUS
<1>1. CASE UNCHANGED vars
  BY <1>1 DEF vars, IInv, TypeOK, Layout, Boundary, History, Whole, Complete, Size,
              Separate, Delivered
<1>2. CASE Next
  BY <1>2, EncodeStep, ReadStep, ConnectionStep DEF Next
<1> QED BY <1>1, <1>2

\* The inductive invariant holds throughout.
LEMMA Invariance == Spec => []IInv
<1> QED BY InitIInv, StepIInv, PTL DEF Spec

-----------------------------------------------------------------------------
\* The receiver never reads ahead of the sender, and the buffer never reaches
\* back into an earlier connection.
THEOREM TypeCorrect == Spec => []TypeOK
<1>1. IInv => TypeOK
  BY DEF IInv
<1> QED BY <1>1, Invariance, PTL

\* on_packet gets whole packets, in order and once each, however the bytes are
\* cut into reads and wherever connections break.
THEOREM PacketsAreWhole == Spec => []WholePackets
<1>1. IInv => WholePackets
  BY DEF IInv, History, Whole, WholePackets
<1> QED BY <1>1, Invariance, PTL

\* parser_packet never finds anything but a header at the front of its buffer.
THEOREM NeverOutOfSync == Spec => []InSync
<1> QED BY SyncLemma, Invariance, PTL

\* A packet that shares no read with the next one is delivered.
THEOREM SeparateDelivered == Spec => []SeparateAreDelivered
<1>1. IInv => SeparateAreDelivered
  BY DEF IInv, Separate, Delivered, SeparateAreDelivered
<1> QED BY <1>1, Invariance, PTL

\* The framing is sound for any lengths, reads and broken connections.
THEOREM FramingSound == Spec => []FramingIsSound
BY TypeCorrect, PacketsAreWhole, NeverOutOfSync, PTL DEF FramingIsSound
=============================================================================
