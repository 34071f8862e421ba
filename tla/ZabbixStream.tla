---------------------------- MODULE ZabbixStream ----------------------------
(***************************************************************************)
(* zabbix_protocol (protocol/zabbix.cpp) over a TCP connection, as the     *)
(* sync application and its server use it.  The stream of bytes is         *)
(* abstracted to positions: a packet occupies start..stop of the stream,   *)
(* and the receiver's recv_body_str_ is the bytes from base to rd.  TCP    *)
(* hands the bytes over in reads of any size.  The connection may break    *)
(* and a new one be accepted by a new sync_file_client.  Payloads do not   *)
(* contain ZABBIX_HEADER, and lengths stay below 2^32.                     *)
(***************************************************************************)
EXTENDS Integers, Sequences

CONSTANTS
  HeaderSize,   \* ZABBIX_HEADER_SIZE, 13
  Length,       \* the sizes of data and reserved
  MaxPackets    \* bound on the packets of a behaviour

ASSUME ZabbixAssumption ==
  /\ HeaderSize \in Nat \ {0}
  /\ Length \subseteq Nat
  /\ MaxPackets \in Nat

VARIABLES
  pkts,         \* packets put on the wire, in order
  wr,           \* bytes written by the sender
  rd,           \* bytes read by the receiver
  base,         \* first byte of recv_body_str_
  conn,         \* where the current connection began
  on_packets,   \* history: the calls of on_packet
  coalesced     \* history: a read of this connection held the end of a packet
                \* and bytes of the next

vars == <<pkts, wr, rd, base, conn, on_packets, coalesced>>

\* stop is where the packet ends on the wire: before its time if it was cut.
Packet == [start : Nat, stop : Nat, send_len : Length, reserved_len : Length]

\* What on_packet was given: the bytes from..to, data_len of them as data.
Delivery == [from : Nat, to : Nat, data_len : Length]

TypeOK ==
  /\ pkts \in Seq(Packet)
  /\ wr \in Nat
  /\ rd \in 0..wr
  /\ base \in 0..rd
  /\ conn \in 0..base
  /\ on_packets \in Seq(Delivery)
  /\ coalesced \in BOOLEAN

Init ==
  /\ pkts = <<>>
  /\ wr = 0
  /\ rd = 0
  /\ base = 0
  /\ conn = 0
  /\ on_packets = <<>>
  /\ coalesced = FALSE

Size(p) == HeaderSize + p.send_len + p.reserved_len

\* All the bytes of p are, or were, on the wire.
Complete(p) == p.stop = p.start + Size(p)

-----------------------------------------------------------------------------
\* sync_file::on_read: a file is encoded and written to the stream.
encode_packet(s, r) ==
  /\ Len(pkts) < MaxPackets
  /\ wr' = wr + HeaderSize + s + r
  /\ pkts' = Append(pkts, [start |-> wr, stop |-> wr', send_len |-> s, reserved_len |-> r])
  /\ UNCHANGED <<rd, base, conn, on_packets, coalesced>>

\* The packet whose header is at the front of the buffer.
AtFront(p) == p.start = base /\ p.stop > base

\* Mutated forms: the buffer may hold more than the packet; it is cleared when
\* it is shorter than a header.
parser_packet_AtLeast(to) ==
  IF to - base < HeaderSize THEN UNCHANGED <<base, on_packets>>
  ELSE \/ \E i \in DOMAIN pkts :
            /\ AtFront(pkts[i])
            /\ IF Size(pkts[i]) > to - base
               THEN UNCHANGED <<base, on_packets>>
               ELSE /\ on_packets' = Append(on_packets,
                         [from |-> base, to |-> to, data_len |-> pkts[i].send_len])
                    /\ base' = to
       \/ (\A i \in DOMAIN pkts : ~AtFront(pkts[i])) /\ base' = to /\ UNCHANGED on_packets

parser_packet_ClearsShort(to) ==
  IF to - base < HeaderSize THEN base' = to /\ UNCHANGED on_packets
  ELSE \/ \E i \in DOMAIN pkts :
            /\ AtFront(pkts[i])
            /\ IF Size(pkts[i]) # to - base
               THEN UNCHANGED <<base, on_packets>>
               ELSE /\ on_packets' = Append(on_packets,
                         [from |-> base, to |-> to, data_len |-> pkts[i].send_len])
                    /\ base' = to
       \/ (\A i \in DOMAIN pkts : ~AtFront(pkts[i])) /\ base' = to /\ UNCHANGED on_packets

\* parser_packet, once the bytes up to position to are appended: too short;
\* another size than the header says; a packet; or not a header at all.
parser_packet(to) ==
  IF to - base < HeaderSize THEN UNCHANGED <<base, on_packets>>
  ELSE \/ \E i \in DOMAIN pkts :
            /\ AtFront(pkts[i])
            /\ IF Size(pkts[i]) # to - base
               THEN UNCHANGED <<base, on_packets>>
               ELSE /\ on_packets' = Append(on_packets,
                         [from |-> base, to |-> to, data_len |-> pkts[i].send_len])
                    /\ base' = to
       \/ (\A i \in DOMAIN pkts : ~AtFront(pkts[i])) /\ base' = to /\ UNCHANGED on_packets

\* sync_file_client::on_read with the bytes up to position to.
on_read(to) ==
  /\ rd < to
  /\ rd' = to
  /\ parser_packet(to)
  /\ coalesced' = (coalesced \/ \E i \in DOMAIN pkts : rd < pkts[i].stop /\ pkts[i].stop < to)
  /\ UNCHANGED <<pkts, wr, conn>>

\* What a broken connection leaves of the packets: those of which nothing was
\* read are gone, the one being read is cut.
Broken(kept) ==
  \E n \in 0..Len(pkts) :
    /\ \A i \in DOMAIN pkts : pkts[i].start < rd <=> i <= n
    /\ kept = [i \in 1..n |-> [pkts[i] EXCEPT !.stop = IF @ > rd THEN rd ELSE @]]

\* Mutated form: the new connection is read by the same protocol object.
on_connection_SameObject ==
  /\ Broken(pkts')
  /\ wr' = rd
  /\ conn' = rd
  /\ coalesced' = FALSE
  /\ UNCHANGED <<rd, base, on_packets>>

\* The connection breaks and sync_file_server::on_connection accepts the next
\* one: a new sync_file_client with an empty buffer.
on_connection ==
  /\ Broken(pkts')
  /\ wr' = rd
  /\ base' = rd
  /\ conn' = rd
  /\ coalesced' = FALSE
  /\ UNCHANGED <<rd, on_packets>>

Next ==
  \/ \E s, r \in Length : encode_packet(s, r)
  \/ \E to \in 1..wr : on_read(to)
  \/ on_connection

Spec == Init /\ [][Next]_vars

-----------------------------------------------------------------------------
\* However the stream is cut into reads and connections, on_packet is called
\* with whole packets as they were encoded, in order, none of them twice.
WholePackets ==
  /\ \A k \in DOMAIN on_packets : \E i \in DOMAIN pkts :
       /\ on_packets[k].from = pkts[i].start
       /\ on_packets[k].to = pkts[i].stop
       /\ on_packets[k].data_len = pkts[i].send_len
       /\ Complete(pkts[i])
  /\ \A k \in 2..Len(on_packets) : on_packets[k - 1].to <= on_packets[k].from

\* The buffer never loses its place: it is empty or begins with the header of
\* a packet none of whose bytes were lost, so that the branch that discards
\* the buffer for a wrong ZABBIX_HEADER is never taken.
InSync ==
  base < rd => \E i \in DOMAIN pkts : AtFront(pkts[i]) /\ Complete(pkts[i])

\* The framing however TCP cuts the stream and breaks: what is delivered is whole and
\* the buffer begins where a packet does.
FramingIsSound == TypeOK /\ WholePackets /\ InSync

\* As long as no read of a connection held the end of a packet and bytes of
\* the next, every packet that was read to its end has been delivered.
SeparateAreDelivered ==
  ~coalesced =>
    \A i \in DOMAIN pkts :
      pkts[i].start >= conn /\ pkts[i].stop <= rd =>
        \E k \in DOMAIN on_packets : on_packets[k].from = pkts[i].start
=============================================================================
