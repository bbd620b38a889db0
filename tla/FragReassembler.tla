-------------------------- MODULE FragReassembler --------------------------
(***************************************************************************)
(* FragReassembler (src/tuic.rs): the event loop collects the fragments of *)
(* a large downlink packet under (assoc_id, pkt_id).  The server numbers   *)
(* its packets anew on every QUIC connection, while the reassembler lives  *)
(* as long as the event loop: after a reconnect an old fragment and a new  *)
(* packet may meet under one key.  Fragments are lost and reordered; those *)
(* of the old connection that were already read may come after the         *)
(* reconnect.                                                              *)
(*                                                                         *)
(* A fragment's bytes are the fragment itself, so that what a reassembled  *)
(* packet was made of can be seen.                                         *)
(***************************************************************************)
EXTENDS Integers, Sequences, FiniteSets

CONSTANTS Assocs,        \* assoc_id values
          Totals,        \* FRAG_TOTAL values the server uses
          cap,           \* FragReassembler::cap, at least 1
          FRAG_REASSEMBLY_TTL_SECS,
          None,          \* an empty fragment slot
          MAX_CONN,      \* bound: QUIC connections made
          MAX_PKT,       \* bound: packets per connection and association
          MAX_IN_FLIGHT, \* bound: fragments on their way
          MAX_NOW        \* bound: seconds

Fragments == [conn : Nat, assoc : Assocs, pkt : Nat, total : Nat, id : Nat]

Slots == [frag : Fragments, at : Nat]

ASSUME FragAssumption ==
  /\ Assocs \subseteq Nat /\ Totals \subseteq Nat
  /\ cap \in Nat \ {0} /\ FRAG_REASSEMBLY_TTL_SECS \in Nat
  /\ MAX_CONN \in Nat /\ MAX_PKT \in Nat /\ MAX_IN_FLIGHT \in Nat /\ MAX_NOW \in Nat
  /\ None \notin Slots

VARIABLES partials,    \* (assoc_id, pkt_id) -> FragPartial
          whole,       \* what the last accept returned, <<>> for None
          now,         \* udp_clock in seconds
          last_sweep,  \* history: the time of the last sweep
          conn,        \* the server's connection with this client
          pkt_id,      \* packets the server has sent on it, by association
          in_flight    \* fragments between the server and accept

server == <<conn, pkt_id>>
vars == <<partials, whole, now, last_sweep, server, in_flight>>

Init ==
  /\ partials = <<>> /\ whole = <<>>
  /\ now = 0 /\ last_sweep = 0
  /\ conn = 1 /\ pkt_id = [a \in Assocs |-> 0]
  /\ in_flight = {}

-----------------------------------------------------------------------------
Key(f) == <<f.assoc, f.pkt>>

\* The meta data decode_packet_meta reads from one Packet command.
PacketMeta(c, a, p, total, id) ==
  [conn |-> c, assoc |-> a, pkt |-> p, total |-> total, id |-> id]

\* A header that names no slot.
Invalid(f) == f.total = 0 \/ f.id >= f.total

\* A fragment with the time it came, and the buffer of a packet's first one.
Slot(f) == [frag |-> f, at |-> now]

Fresh(f) == [frags |-> [i \in 0..(f.total - 1) |-> None], received |-> 0, first_seen |-> now]

\* pkt_id reused with another FRAG_TOTAL: what is left of the old packet.
Outdated(f) ==
  {k \in DOMAIN partials : k = Key(f) /\ DOMAIN partials[k].frags # 0..(f.total - 1)}

Current(f) == DOMAIN partials \ Outdated(f)

\* The order min_by_key uses: first_seen, then the key.
Older(k, j) ==
  \/ partials[k].first_seen < partials[j].first_seen
  \/ /\ partials[k].first_seen = partials[j].first_seen
     /\ k[1] < j[1] \/ (k[1] = j[1] /\ k[2] <= j[2])

\* Mutant: room is made only once the table has more than cap entries.
VictimLate(f) ==
  {k \in Current(f) : /\ Key(f) \notin Current(f) /\ Cardinality(Current(f)) > cap
                      /\ \A j \in Current(f) : Older(k, j)}

\* evict_if_full, for a key that is not in the table.
Victim(f) ==
  {k \in Current(f) : /\ Key(f) \notin Current(f) /\ Cardinality(Current(f)) >= cap
                      /\ \A j \in Current(f) : Older(k, j)}

Kept(f) == Current(f) \ Victim(f)

\* The entry of f with f stored in it, last writer wins.
Filled(f) ==
  LET p == IF Key(f) \in Kept(f) THEN partials[Key(f)] ELSE Fresh(f)
  IN  [p EXCEPT !.frags[f.id] = Slot(f),
                !.received = IF p.frags[f.id] = None THEN @ + 1 ELSE @]

\* accept: an invalid header is dropped, a packet in one piece passes through.
AcceptInvalid(f) == Invalid(f) /\ whole' = <<>> /\ UNCHANGED partials

AcceptSingle(f) ==
  ~Invalid(f) /\ f.total = 1 /\ whole' = <<Slot(f)>> /\ UNCHANGED partials

AcceptPart(f) ==
  /\ ~Invalid(f) /\ f.total # 1 /\ Filled(f).received < f.total
  /\ whole' = <<>>
  /\ partials' = [k \in Kept(f) \cup {Key(f)} |->
                    IF k = Key(f) THEN Filled(f) ELSE partials[k]]

AcceptLast(f) ==
  /\ ~Invalid(f) /\ f.total # 1 /\ Filled(f).received >= f.total
  /\ whole' = [i \in 1..f.total |-> Filled(f).frags[i - 1]]
  /\ partials' = [k \in Kept(f) \ {Key(f)} |-> partials[k]]

Arrive(f) ==
  /\ AcceptInvalid(f) \/ AcceptSingle(f) \/ AcceptPart(f) \/ AcceptLast(f)
  /\ in_flight' = in_flight \ {f}
  /\ UNCHANGED <<now, last_sweep, server>>

\* Mutant: sweep keeps a packet whose last fragment is young.
RecentByLast(p) ==
  \E i \in DOMAIN p.frags : p.frags[i] # None /\ now - p.frags[i].at <= FRAG_REASSEMBLY_TTL_SECS

\* sweep, on the udp_sweep tick.
Recent(p) == now - p.first_seen <= FRAG_REASSEMBLY_TTL_SECS

Sweep ==
  /\ partials' = [k \in {j \in DOMAIN partials : Recent(partials[j])} |-> partials[k]]
  /\ last_sweep' = now /\ whole' = <<>>
  /\ UNCHANGED <<now, server, in_flight>>

-----------------------------------------------------------------------------
\* The server sends a packet of association a in total fragments.
SendPacket(a, total) ==
  /\ pkt_id[a] < MAX_PKT
  /\ in_flight' = in_flight \cup
       {PacketMeta(conn, a, pkt_id[a], total, id) : id \in 0..(IF total = 0 THEN 0 ELSE total - 1)}
  /\ Cardinality(in_flight') <= MAX_IN_FLIGHT
  /\ pkt_id' = [pkt_id EXCEPT ![a] = @ + 1]
  /\ UNCHANGED <<partials, whole, now, last_sweep, conn>>

Lose(f) ==
  in_flight' = in_flight \ {f} /\ UNCHANGED <<partials, whole, now, last_sweep, server>>

\* live_conn makes another connection, on which the server counts from 0.
Reconnect ==
  /\ conn < MAX_CONN
  /\ conn' = conn + 1 /\ pkt_id' = [a \in Assocs |-> 0]
  /\ UNCHANGED <<partials, whole, now, last_sweep, in_flight>>

Tick ==
  now < MAX_NOW /\ now' = now + 1 /\ UNCHANGED <<partials, whole, last_sweep, server, in_flight>>

Next ==
  \/ \E f \in in_flight : Arrive(f) \/ Lose(f)
  \/ Sweep \/ Reconnect \/ Tick
  \/ \E a \in Assocs, total \in Totals : SendPacket(a, total)

Spec == Init /\ [][Next]_vars

-----------------------------------------------------------------------------
\* What accept returns is a whole packet: all slots filled, fragment i in slot i, all
\* under one key with one FRAG_TOTAL.  Fragments of two connections may be mixed, which
\* accept's comment concedes ("narrow window, bounded by the TTL sweep", tuic.rs:336),
\* but then each of them came at most TTL seconds before the last sweep.
WholePackets ==
  \A i, j \in DOMAIN whole :
    /\ whole[i].frag.id = i - 1 /\ whole[i].frag.total = Len(whole)
    /\ Key(whole[i].frag) = Key(whole[j].frag)
    /\ last_sweep - whole[i].at <= FRAG_REASSEMBLY_TTL_SECS

Filling(p) == {i \in DOMAIN p.frags : p.frags[i] # None}

\* However many fragments are lost, the table holds at most cap packets.  Each of them
\* counts its fragments exactly and still misses one: none is complete and forgotten.
BacklogBounded ==
  /\ Cardinality(DOMAIN partials) <= cap
  /\ \A k \in DOMAIN partials :
       /\ partials[k].received = Cardinality(Filling(partials[k]))
       /\ Filling(partials[k]) # DOMAIN partials[k].frags
=============================================================================
