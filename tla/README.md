# A TLA+ model of the mini_vpn client

mini_vpn is a TUN client. It terminates intercepted TCP connections in a userspace
stack (smoltcp), relays each over an upstream stream (TUIC over QUIC, or VLESS over
REALITY), carries UDP over TUIC, and answers DNS with fake addresses that stand for
names. This directory models the parts whose correctness depends on the order of
events, model-checks them with TLC on small instances, and proves their main safety
properties with TLAPS for every value of the constants.

Paths below are relative to `src/` of the crate.

## The system

| Part | Code | Runs as | Modules |
|---|---|---|---|
| Event loop, TCP slots, relays | `client_tun.rs` | one task with a `select!`; a task per relay and per spawned handshake | `TcpSlot`, `MCTcpSlot`, `TcpSlotProofs` |
| Listener registry | `client_tun.rs` | owned by the event loop | `ListenerRegistry` |
| Packet classification, DNS hijack, target resolution | `client_tun.rs`, `dns.rs`, `dns_block.rs` | event loop | `Ingress`, `MCIngress`, `IngressProofs` |
| Fake-IP pool | `fake_ip.rs` | owned by the event loop | `FakeIpPool`, `FakeIpPoolProofs` |
| UDP associations | `tuic.rs`, `client_tun.rs`, `udp_relay.rs` | owned by the event loop | `UdpFlows`, `MCUdpFlows`, `UdpFlowsProofs` |
| Fragment reassembly | `tuic.rs` | owned by the event loop | `FragReassembler`, `FragReassemblerProofs` |
| TUIC connection, UDP driver, start of the program | `tuic.rs`, `client_tun.rs` | the `start_udp` task and the callers of `live_conn` behind a mutex | `TuicConn`, `TuicConnProofs` |
| Failover | `failover.rs` | `open_tcp` calls in spawned tasks, one health task, shared atomics | `Failover`, `FailoverProofs` |
| REALITY cryptography | `reality/{auth,key_schedule,record,cert,client_hello,server_hello}.rs` | pure functions | `RealityKeys` |
| REALITY handshake | `reality/handshake.rs`, `reality_upstream.rs` | inside an `open_tcp` task | `RealityHandshake`, `RealityHandshakeProofs` |
| REALITY stream | `reality_upstream.rs`, `reality/vless.rs` | inside a relay task | `RealityStream`, `ByteStream`, `MCRealityStream` |
| TUN adapter, metrics, loop profiler, QUIC configuration, harness | `device.rs`, `metrics.rs`, `loop_profiler.rs`, `quic.rs`, ... | sequential | not modelled |

The parts meet at few points. A slot opens its upstream through `open_tcp`: inline
when `open_is_cheap` (pure TUIC), in a spawned task otherwise (REALITY and failover).
A slot, or a UDP association, takes a reference in the fake-IP pool when it starts
and returns it when it ends. Failover chooses the leg of each new `open_tcp`. A stream
of the REALITY leg is one `RealityHandshake` followed by one `RealityStream`. `Ingress`
composes the pool, the registry and the receive branch of the event loop in one
specification; the other components share so little state that each is a specification
of its own, with what it sees of its neighbours as nondeterministic choice.

`PROJECT.json` lists the components, the hazards with their source lines, the map
from definitions to code, the runs, the mutants that show each property can fail,
and the theorems.

## TcpSlot

One listener slot and everything that touches it. The state is the smoltcp socket
(`tcp_state`, `rx_buffer`, `tx_buffer`), the `SocketCtx` fields under their own
names, the dirty flag, the position of the event loop, the spawned handshakes, the
relay tasks with their channels, and the shared `global_rx` queue. A payload is a
sequence of chunks `<<connection, number>>`, so a property can tell whose bytes they
are and in which order they were sent; buffers and limits are counted in chunks.
`FakeTargets` says which connections go to fake addresses and so hold a reference.

* `Syn` .. `OtherPacket` are TUN packets: smoltcp consumes the packet, the handle is
  marked dirty and the loop goes on to `process_dirty_relay`.
* `ProcessDirtyRelay` has one disjunct per way through `process_listener_activity`
  and `handle_local_payload`, each including the trailing `still_active` test.
* `HandshakeStale`, `HandshakeOk`, `HandshakeErr` are `handle_handshake_done`;
  `RemoteEof`, `RemoteLate`, `RemoteData` are `handle_remote_payload`; `Reap` is
  `reap_dead_slots`; `Relay*` are the steps of `run_relay`. A relay that left its
  loop still owns its receiver until `stream.shutdown()` returns (`"shutting"`).

What is abstracted. smoltcp is external. SYN-RECEIVED is folded into Established (a
reset there returns the socket to Listen). A reset connection is Closed and has no
local endpoint. The client never calls `close()`, so there are no FIN-WAIT states.
Retransmission is smoltcp's affair: a chunk in `rx_buffer` counts as acknowledged.
A relay's read and its `back_tx.send` are one step that needs room in the queue; in
the code the task waits inside `send`, during which it does nothing else. Other
slots are not in the model: slots share only the pool and the queue.

## Failover

Every load, store, `fetch_add` and `compare_exchange` of `FailoverState` is a step.
`pc` says where each `open_tcp` call and the health task stand between two of them.
The TUIC leg is what the failover sees of it: a path that is up, lossy or down, and a
connection that is open or closed. `live_conn` hands out an open connection without
touching the network and reconnects a closed one. Time is counted in health ticks
and kept as ages that saturate at the threshold they are compared with. The clock
moves only while every task is at an `await`: what lies between takes microseconds.

`MAX_DUE < PROBE_INTERVAL` bounds the ticks that pile up behind one slow probe. A
probe lasts at most about 2 ticks (5 s) and probes are 10 ticks apart. With the
shipped constants three probes at 30 s intervals already take longer than the 60 s
cooldown. The model keeps the constants independent so that each is checked.

## FakeIpPool, ListenerRegistry and Ingress

`FakeIpPool`: `ip_to_mapping` is one function per field, `last_used` is an age. A flow
acquires on start and releases once at its end, which `TcpSlot!FakeIpBalanced` shows for
the TCP slot. `next_free_ip` is the first free address from the cursor (`FirstFree`), or
the cursor's own address when the ring is full. `exhausted` remembers that this happened.

`ListenerRegistry`: `ensure_port` builds a pool of listening sockets for the port of a
SYN, within the limit on ports; `ensure_spare_listeners` adds sockets within the limit on
the total. `AcceptSyn` is both followed by smoltcp's choice of a listening socket,
`DropSyn` is both without one. A connection that was reset early leaves its socket Closed,
the state that the run `tcp_slot_reset` reaches.

`Ingress` extends both and is what the event loop does with a packet: `Receive` is the
receive branch with `ClassifyInbound`, `DnsHijack` and `ForgeDnsReply` answer a query,
`Syn` goes to the registry, `FirstPayload` and `RefusePayload` are `resolve_target` with
its blocks (DNS ports, DNS over HTTPS by name), `Rearm` returns the slot. The application
is the environment: it asks for a name and connects to the answer it holds, at once or
when the pool may already have reclaimed the address. A query is its question or
something that does not parse; addresses are those of the fake range.

## UdpFlows

The event loop owns the association table and finishes each update before its next
`await`, so a handler is one step. `id_to_entry` is `tuple` and `idle` (the seconds
since `last_activity`). `UplinkNew` is the whole of `handle_tuic_udp_uplink` for the
first packet of a flow: resolve the target, evict when the table is full, take the next
unregistered id, acquire the fake address, release the evicted one. `UplinkKnown` and
`Downlink` touch the association; a packet that resolves to nothing, is blocked, or
comes back for an unknown id changes nothing. `Sweep` is `AssocTable::sweep` with its
releases. `target` is a history variable: the name the first packet was sent to.
The pool is reduced to names and counts that may be reclaimed at count 0 and given out
again; it never overwrites here, so the theorems hold until the pool overflows, as in
`FakeIpPool`. Two associations idle beyond the limit have the same age in the model, so
eviction may take either. What `send_udp` does with the packet is in `TuicConn`.

## FragReassembler

`partials` is the table keyed by association and packet id; `Arrive` is `accept` with its
four outcomes (invalid header, packet in one piece, one more fragment, the last one),
including the replacement of a packet whose total differs and the eviction of the oldest
at the cap. `Sweep` drops by `first_seen`. The server and the network are external:
fragments are lost and reordered (QUIC does not deliver a datagram twice), and after a
`Reconnect` the server counts from 0 again, so that fragments of two connections meet
under one key. A fragment's bytes are the fragment itself.

## TuicConn

One QUIC connection behind a tokio mutex, and everything that uses it: `open_tcp` calls,
the failover's probe, the UDP driver of `start_udp`, the event loop's `send_udp`. `pc`
says at which `await` a task stands; a synchronous stretch under the mutex is one step.
`holder` and `waiters` are the FIFO mutex, held across a reconnect. `LiveConn` ..
`HandshakeErr` are `live_conn` with its timeouts, `ReadDatagram`, `SendDownlink`,
`AcceptUni`, `PumpBreak` and `HeartbeatFails` the arms of the driver's inner loop,
`ReaderSends` and `ReaderFails` the spawned readers of downlink streams.
`SendUdpViaStream` blocks the event loop until the write ends, and so does an `open_tcp`
when it is inline (`Inline`). The module begins with `start_tun_proxy`: which upstream is
chosen, the first connection, and the early returns. quinn is external: a handshake ends
either way and any connection may be closed at any time.

## RealityKeys, RealityHandshake, RealityStream

`RealityKeys` gives the cryptography as terms: a secret, a key, a MAC or a sealed record
is the tuple of what the code feeds into it. Two of them are equal exactly when all their
inputs are, so a wrong transcript, label, secret or sequence number shows as a record that
does not open. That the primitives are free of collisions is assumed.

`RealityHandshake` is one `open_tcp` up to the VLESS request: `establish` and `drive`
with the record reader, the handshake reassembler, the transcript, the certificate gate
and both Finished messages. Messages are cut into halves and packed into records, and
records into reads, without regard to their boundaries. The peer is external: the REALITY
server, or the borrowed site when the session id does not open; the connection may break
at any point and the overall timeout may strike.

`RealityStream` continues it: `decode_one`, `absorb_app` (which strips the VLESS response
header), `on_key_update`, `poll_read`, `poll_write`, `poll_shutdown`, as the relay task
`run_relay` drives them. Sealed records wait in `write_pending` while the TCP buffer is
full; a KeyUpdate that asks for an answer changes the sending keys between two of them.
`ByteStream` is what a `RelayStream` promises: two reliable byte streams whose end is seen
only after all bytes. The refinement mapping takes the server's position after the
response header for `down_sent`, and the ends seen by the server and the relay.

## Runs

Passing runs:

* `failover` (281,046 states): two opens and the health task. At most one caller runs
  the stores of `switch_to_reality`. The leg returns to TUIC only after the full run
  of probes and the cooldown of this spell. A black-hole verdict never uses what was
  seen before the current spell. A path that stays down ends with the leg on REALITY;
  a path that stays up ends with it on TUIC.
* `tcp_slot` (1,842,500 states): two connections, inline and spawned opens. At most
  one current handshake, the sender belongs to the current connection, the uplink is
  in order and without duplicates, no wake-up is lost, fake-IP references balance.
* `tcp_slot_live` (32,886 states): a pending handshake ends, uplink data drains, a
  used slot whose application left listens again.
* `fake_ip` (414,520 states, `MCIngress`): the receive path as a whole. The two maps of
  the pool are inverse and its counts exact; a live flow keeps its name, and goes to the
  name the application asked for, as long as the pool has not overflowed and the answer
  was not older than the pool's TTL; a clean SYN is lost only at a limit of the registry.
  `ensure_port` does not look at `MAX_TOTAL_LISTENERS`, so `ListenersBounded` allows the
  total to exceed it by the pools of the ports.
* `udp_flows` (13,563 states): the maps of the association table are inverse when ids
  wrap, the table keeps to its capacity and evicts the longest idle flow, references on
  the pool are exact, an association keeps its target, and an idle one goes away.
* `tuic` (97,082 states): at most one live connection whoever notices the loss first,
  bounded stream readers over all connections, every `open_tcp` returns, and the driver
  ends up pumping the new connection, with a full downlink channel and an event loop that
  waits in a stream write among the obstacles.
* `fragments` (537,938 states): what `accept` returns has every fragment in its place,
  under one key and one total, and none older than the window of the last sweep; the
  table keeps to its cap and holds no complete packet. Fragments of two connections may
  be mixed within that window, as the comment at `tuic.rs:336` concedes.
* `reality` (175,251 states): a client that sends its VLESS request talks to the REALITY
  server and has the same secrets as it; every record opens under the key and number its
  receiver has reached, across KeyUpdates in both directions; the stream implements
  `ByteStream`; what `write_all` accepted arrives while the connection lasts.

Runs that show a disagreement between the code and what the repository says of it
(the quotations are in `PROJECT.json`, under `findings`):

* `tcp_slot_crosstalk`: a queued message of the previous stream reaches the next
  connection once that one has its own sender.
* `tcp_slot_gap`: a payload dropped by the full handshake buffer was already
  acknowledged, so it is not sent again.
* `tcp_slot_eof`: a remote EOF drops bytes that still wait in `downlink_pending`.
* `tcp_slot_reset`: a connection reset before its first payload leaves a slot that
  nothing re-arms.

That a full pool overwrites the mapping of a live flow is documented in `fake_ip.rs`;
the properties of the pool are therefore stated until `exhausted`.

### Bounds

The number of connections (`MAX_CONNS` 2) lets every late event of one connection
meet the next one; the first goes to a fake address and the second to a real one.
`MAX_SENT` 3 with two-chunk buffers fills the handshake buffer and
overflows it; a channel and a queue of one message make "full" a common state, and
`TX_CAPACITY` 1 makes `downlink_pending` one too. The liveness run uses one-chunk
buffers and no downlink data, because its properties are about the uplink and the
state of the slot. Two opens suffice for a race on the failover's atomics together
with the health task; the thresholds are 2 so that "one short" exists. The
association table has four flows for two places and three ids, so eviction and
wrap-around are common; two flows share a fake address, so one sweep can release it twice.

`MCIngress` has three names for two addresses, so the ring fills and addresses are
reclaimed and reused; `FAKE_IP_TTL` 0 makes the boundary of the TTL one tick. The names
other than the DNS-over-HTTPS one are symmetric. Two ports (53 and 443), pools of one
socket, at most two sockets in total and one spare make every limit reachable. The
constraint `Followed` keeps to two busy connections at a time, and one once the pool has
overflowed or the total limit is passed, where the properties say least.

`FragReassembler` has a cap of one packet, so that every second packet evicts; totals 0 to
3 cover the invalid, the single, and packets with and without a middle; two connections
with one packet per association reuse each key once; three fragments in flight are a
whole packet of the largest total. `TuicConn` has one opener, the probe and the driver, a
downlink channel and a semaphore of one, and three connections: two reconnects, so a stale clone can be two
connections behind. `MCRealityStream` has the right and a wrong public key and short id, a
decoy for each check that can fail, a two-unit response header that may be cut by a record,
one-unit records so that a payload of two takes two, two records without payload (a
KeyUpdate after a KeyUpdate), and buffers of three pieces so that a record waits for room.

Deadlock is checked in every run but `fragments`, where the bounded server may have sent
everything, and `reality`, where a connection comes to its end.

### Fairness

`TcpSlot!Fairness`: the loop never stops, and its `select!` polls the arms in random
order, so an arm that stays ready is taken; the reaping sweep is ready again and
again and is taken (strong fairness). A spawned handshake ends within its timeouts. A
relay task keeps polling its channel. One assumption is about the upstream and not
bounded by the code: a `write_all` or `shutdown` of a relay ends, in success or in an
error. The application and the remote are obliged to nothing.

`Failover!FairSpec`: a started `open_tcp` finishes (its awaits have timeouts), the
health task and the clock run, quinn closes a connection that hears nothing, and the
driver's reconnect loop never gives up. A tick may find the connection mutex taken by
a reconnect, but not for ever, since the loop sleeps without it (strong fairness of
`TickTuicObserve`). Nothing obliges the path to change.

`TuicConn!Fairness`: timers fire and woken tasks run, so each step of a task that stays
possible is taken; the driver's loop never ends. tokio serves the senders of a channel in
order and `select!` chooses among ready arms at random, so a sender and the downlink arm
that are ready again and again get their turn (strong fairness). A stream write ends: the
server reads on or quinn closes the connection. No open is obliged to start, no
connection to be closed and nothing obliges a handshake to succeed.

`RealityStream!FairSpec`: the relay task is polled while it can move and the event loop
takes what it sends; the server goes on reading while the connection lasts.

`UdpFlows!FairSpec`: the clock runs and the one-second sweep arm is taken. No flow is
obliged to send or to stop.

## Proofs

Each proof module proves `Spec => []IInv` with one step per action, and the
properties from it. The assumptions are the named ASSUMEs of the component modules:
capacities and thresholds are positive, `RX_CAPACITY <= MAX_UPLINK_BUFFER`,
`MAX_DUE < PROBE_INTERVAL`, finitely many flows, and in `RealityHandshake` that no
certificate of a decoy verifies under an AuthKey of the client.

* `FailoverProofs`: `TypeCorrect`, `OnlyOneSwitches`, `ReturnIsEarned`,
  `VerdictIsFresh`. `SingleSwitcher` is not enough for the other two. The invariant
  adds that no probe is under way while a caller is between the compare-exchange and
  its stores (`ProbeAlone`, because the probe timer restarts with each spell:
  `TimerYoung`), that the stored switch time is never older than the spell
  (`AgeKnown`), that the counter never exceeds the probes of this spell
  (`ProbesCounted`), and that the detector is never older than the spell
  (`DetectorYoung`).
* `TcpSlotProofs`: `TypeCorrect`, `HandshakeUnique`, `UplinkAlwaysOwn`,
  `FakeIpAlwaysBalanced`, `WakeupNeverLost`. The invariant relates the socket's state,
  the context's state, the sender and the epochs of the handshakes in flight: an epoch
  is used once, and the one that is current belongs to the current connection.
* `FakeIpPoolProofs`: `TypeCorrect`, `MapsAlwaysAgree`, `RefcountAlwaysExact`,
  `FlowsKeepDomain`. The count of a mapping is the cardinality of the set of flows
  that hold it; a mapping that a flow holds therefore has a positive count and `Sweep`
  passes it by.
* `UdpFlowsProofs`: `TypeCorrect`, `TablesAlwaysAgree`, `RefsAlwaysExact`,
  `TargetAlwaysStable`, `CapAlwaysRespected`, `OldestIsDropped`.
  A target is stable because the pool forgets only an address of
  count 0, and such an address has no association because the count is exact. The
  count stays exact because a new mapping, which starts at 0, is never made for an
  address that is held (`HeldMapped`).

* `IngressProofs`: `PoolSafeInDispatch`, `TargetIsAlwaysAsked`, `ListenersAlwaysBounded`,
  `SynAlwaysDroppedOnlyAtLimit`. Each step of the composition is a step of the pool or
  leaves the pool alone, so the pool's inductive invariant carries over. The invariant
  adds that an answer not older than the TTL still names its mapping, which `Sweep` spares
  because the mapping is no older than the answer, and that the registry's total is the
  number of sockets it built.
* `FragReassemblerProofs`: `WholePacketsHolds`, `BacklogBoundedHolds`. The invariant says
  of each entry that a filled slot holds the fragment of that number, key and total, no
  older than `first_seen`, and that `received` is the number of filled slots and less than
  the total; hence the last fragment completes the packet.
* `TuicConnProofs`: `OneLiveConnectionHolds`, `StreamsBoundedHolds`. A connection is only
  made by the holder of the mutex after the one in it was closed (`HandshakeAlone`), and
  permits and readers add up to the semaphore (`PermitsExact`).
* `RealityHandshakeProofs`: `OnlyRealityHolds`. A client gets to its VLESS request only
  through the certificate gate. Every message it takes from a record was put there by the
  peer it talks to (the invariant follows the flight through cutting, packing, sealing and
  reassembly), and a decoy has no certificate that passes. This is the first conjunct of
  `PeerAuthenticated`; that both sides derive the same secrets is model-checked.

Only model-checked: every liveness property (fairness and ENABLED are beyond the
prover); `UplinkInOrder`, which is about the concatenation of flattened queues; and of
`RealityStream` everything beyond the handshake: `RecordsOpen` and the refinement of
`ByteStream` speak of the unbounded contents of several buffers together and would need
induction over sequences.

## Not modelled

* An abstract relay slot (one connection at a time, in order, each byte once) for
  `TcpSlot`: the code does not implement it, and the four runs named above show where. The
  parts of it that hold are properties of `TcpSlot`.
* `TuicConn` as an implementation of the TUIC leg of `Failover`: the leg counts time in
  health ticks and the connection module has no clock, so the mapping would have to invent
  one. Both are translated from `live_conn`, `is_dead` and `probe` directly.
* Addresses outside the fake range in `Ingress`, among them the list of resolver addresses
  `DOH_IPS`: they take no reference and change no state of the pool. `TcpSlot` has
  connections to real addresses.
* Back-off durations and timeouts as numbers: a timeout may strike whenever its task waits.
* TUIC encoders and address layouts, environment and configuration parsing: functions of
  one message or string without state.
* The bit patterns of the cryptography, see `RealityKeys`.
* `device.rs`: one packet slot and one transmit queue between the TUN descriptor and
  smoltcp, emptied in the same turn of the loop; pure I/O.
* `metrics.rs`, `loop_profiler.rs`, the UDP statistics arm, `quic.rs` and the load-test
  harness: nothing the data plane decides depends on them.
