------------------------------- MODULE TcpSlot -------------------------------
(***************************************************************************)
(* One listener slot of the TUN client (src/client_tun.rs): its smoltcp    *)
(* socket, its SocketCtx, the spawned handshakes and relay tasks that      *)
(* belong to it, and the arms of run_event_loop's select! that touch it.   *)
(* Slots share no state but the fake-IP pool and the global_rx queue, so   *)
(* one slot with the messages that carry its handle is the whole story.    *)
(*                                                                         *)
(* The slot serves one intercepted TCP connection after another, numbered  *)
(* by "conn".  A chunk of payload is <<c, n>>: the n-th chunk that the     *)
(* application of connection c sent, or that upstream stream c returned.   *)
(* An upstream stream and its relay task carry the number of the           *)
(* connection they were opened for; the code has no such number, it is     *)
(* what the properties compare with.                                       *)
(*                                                                         *)
(* The event loop is one task: "loop" says whether it waits in select! or  *)
(* is about to run process_dirty_relay, which the TUN-packet arm and the   *)
(* 5 ms timer arm both end with.  Handshake and relay tasks run in         *)
(* parallel with it.                                                       *)
(***************************************************************************)
EXTENDS Integers, Sequences, FiniteSets

CONSTANTS MAX_CONNS,              \* bound: connections accepted by the slot
          MAX_SENT,               \* bound: chunks an application sends per connection
          MAX_READ,               \* bound: chunks an upstream stream returns
          RX_CAPACITY,            \* TCP_SOCKET_BUFFER_SIZE of the rx buffer, in chunks
          TX_CAPACITY,            \* the same of the tx buffer
          MAX_UPLINK_BUFFER,
          RELAY_CHANNEL_CAPACITY,
          Cheap,                  \* possible answers of ProxyUpstream::open_is_cheap
          FakeTargets             \* the connections whose destination is a fake address

ASSUME TcpSlotAssumption ==
  /\ {MAX_CONNS, MAX_SENT, MAX_READ} \subseteq Nat
  /\ {RX_CAPACITY, TX_CAPACITY, MAX_UPLINK_BUFFER, RELAY_CHANNEL_CAPACITY}
       \subseteq Nat \ {0}
  /\ RX_CAPACITY <= MAX_UPLINK_BUFFER
  /\ Cheap \subseteq BOOLEAN
  /\ FakeTargets \subseteq 1..MAX_CONNS

None    == 0
Streams == 1..MAX_CONNS

VARIABLES
  \* the smoltcp socket
  tcp_state, rx_buffer, tx_buffer,
  \* SocketCtx (fake_ip: whether the slot holds a fake-IP reference)
  state, uplink_tx, downlink_pending, uplink_buffer, conn_epoch, fake_ip,
  \* the event loop: where it is, and whether the handle is in the dirty set
  loop, dirty,
  \* spawned tasks and the channels to them
  handshakes, relay, channel, global_rx,
  \* ProxyUpstream::open_is_cheap of the upstream wired at startup
  cheap,
  \* history: the connection served last and what its application sent, what each
  \* stream was given and gave, references taken from the fake-IP pool
  conn, sent, written, read, refcount

sock    == <<tcp_state, rx_buffer, tx_buffer>>
ctx     == <<state, uplink_tx, downlink_pending, uplink_buffer, conn_epoch, fake_ip>>
tasks   == <<handshakes, relay, channel, global_rx>>
history == <<conn, sent, written, read, refcount>>
vars    == <<sock, ctx, loop, dirty, tasks, cheap, history>>

Init ==
  /\ tcp_state = "Listen" /\ rx_buffer = <<>> /\ tx_buffer = <<>>
  /\ state = "Listening" /\ uplink_tx = None /\ downlink_pending = <<>>
  /\ uplink_buffer = <<>> /\ conn_epoch = 0 /\ fake_ip = FALSE
  /\ loop = "select" /\ dirty = FALSE
  /\ handshakes = {} /\ global_rx = <<>>
  /\ relay = [r \in Streams |-> "none"] /\ channel = [r \in Streams |-> <<>>]
  /\ cheap \in Cheap
  /\ conn = 0 /\ sent = 0 /\ refcount = 0
  /\ written = [r \in Streams |-> <<>>] /\ read = [r \in Streams |-> 0]

\* smoltcp: is_active() and may_send().  The code never calls close(), so the
\* FIN-WAIT states do not occur; SynReceived is folded into Established.
IsActive == tcp_state \in {"Established", "CloseWait"}
MaySend  == tcp_state \in {"Established", "CloseWait"}

-----------------------------------------------------------------------------
(* TUN packets for the slot's port.  The arm marks every handle of the     *)
(* port dirty, lets smoltcp consume the packet (iface.poll), and goes on   *)
(* to process_dirty_relay.                                                 *)

Packet == loop = "select" /\ loop' = "relay" /\ dirty' = TRUE

Syn ==
  /\ Packet /\ tcp_state = "Listen" /\ conn < MAX_CONNS
  /\ tcp_state' = "Established" /\ conn' = conn + 1 /\ sent' = 0
  /\ UNCHANGED <<rx_buffer, tx_buffer, ctx, tasks, cheap, written, read, refcount>>

Data ==
  /\ Packet /\ tcp_state = "Established"
  /\ sent < MAX_SENT /\ Len(rx_buffer) < RX_CAPACITY
  /\ sent' = sent + 1 /\ rx_buffer' = Append(rx_buffer, <<conn, sent + 1>>)
  /\ UNCHANGED <<tcp_state, tx_buffer, ctx, tasks, cheap, conn, written, read,
                 refcount>>

\* The application reads a chunk and acknowledges it.
Ack ==
  /\ Packet /\ MaySend /\ tx_buffer # <<>>
  /\ tx_buffer' = Tail(tx_buffer)
  /\ UNCHANGED <<tcp_state, rx_buffer, ctx, tasks, cheap, conn, sent, written, read,
                 refcount>>

Fin ==
  /\ Packet /\ tcp_state = "Established" /\ tcp_state' = "CloseWait"
  /\ UNCHANGED <<rx_buffer, tx_buffer, ctx, tasks, cheap, history>>

Rst ==
  /\ Packet /\ IsActive /\ tcp_state' = "Closed"
  /\ UNCHANGED <<rx_buffer, tx_buffer, ctx, tasks, cheap, history>>

\* A packet for another slot of the same port.
OtherPacket == Packet /\ UNCHANGED <<sock, ctx, tasks, cheap, history>>

\* The 5 ms timer arm: process_dirty_relay runs on whatever is dirty.
Timer ==
  /\ loop = "select" /\ dirty /\ loop' = "relay"
  /\ UNCHANGED <<sock, ctx, dirty, tasks, cheap, history>>

-----------------------------------------------------------------------------
(* rearm_socket: abort, drop the sender, clear both backlogs, bump the     *)
(* epoch, release the fake-IP, listen again.                               *)

\* Mutant: rearm_socket without the epoch bump.
RearmKeepsEpoch ==
  /\ tcp_state' = "Listen" /\ rx_buffer' = <<>> /\ tx_buffer' = <<>>
  /\ state' = "Listening" /\ uplink_tx' = None
  /\ downlink_pending' = <<>> /\ uplink_buffer' = <<>>
  /\ fake_ip' = FALSE /\ refcount' = IF fake_ip THEN refcount - 1 ELSE refcount
  /\ UNCHANGED conn_epoch

Rearm ==
  /\ tcp_state' = "Listen" /\ rx_buffer' = <<>> /\ tx_buffer' = <<>>
  /\ state' = "Listening" /\ uplink_tx' = None
  /\ downlink_pending' = <<>> /\ uplink_buffer' = <<>>
  /\ conn_epoch' = conn_epoch + 1
  /\ fake_ip' = FALSE /\ refcount' = IF fake_ip THEN refcount - 1 ELSE refcount

\* flush_downlink: move what fits of a backlog into the tx buffer.
Room == IF MaySend THEN TX_CAPACITY - Len(tx_buffer) ELSE 0

FlushDownlink(backlog) ==
  LET n == IF Room < Len(backlog) THEN Room ELSE Len(backlog) IN
  /\ tx_buffer' = tx_buffer \o SubSeq(backlog, 1, n)
  /\ downlink_pending' = SubSeq(backlog, n + 1, Len(backlog))

\* extract_socket_payload: a contiguous, non-empty stretch of the rx ring.
Extract(n) ==
  /\ n \in 1..Len(rx_buffer)
  /\ rx_buffer' = SubSeq(rx_buffer, n + 1, Len(rx_buffer))

Payload(n) == SubSeq(rx_buffer, 1, n)

\* Mutant: the limit is compared with what is buffered already.
BufferUplinkLate(payload) ==
  uplink_buffer' = IF Len(uplink_buffer) > MAX_UPLINK_BUFFER
                   THEN uplink_buffer ELSE uplink_buffer \o payload

\* buffer_uplink: all of the payload or nothing.
BufferUplink(payload) ==
  uplink_buffer' = IF Len(uplink_buffer) + Len(payload) > MAX_UPLINK_BUFFER
                   THEN uplink_buffer ELSE uplink_buffer \o payload

\* A connection to a fake address takes a reference; one to a real address does not.
Acquire ==
  \/ conn \in FakeTargets /\ fake_ip' = TRUE /\ refcount' = refcount + 1
  \/ conn \notin FakeTargets /\ UNCHANGED <<fake_ip, refcount>>

\* spawn_remote_relay for the stream opened for connection r; first: what the
\* channel holds when the relay starts.
SpawnRelay(r, first) ==
  /\ uplink_tx' = r /\ state' = "Relaying"
  /\ relay' = [relay EXCEPT ![r] = "run"]
  /\ channel' = [channel EXCEPT ![r] = first]

-----------------------------------------------------------------------------
(* process_dirty_relay: process_listener_activity on the slot if it is     *)
(* dirty, then out of the dirty set unless there is more to receive or to  *)
(* flush.                                                                  *)

Processing == loop = "relay" /\ dirty /\ loop' = "select"

\* Mutant: only the downlink backlog keeps a handle dirty.
StillFlushing == dirty' = (downlink_pending' # <<>>)

StillActive == dirty' = (rx_buffer' # <<>> \/ downlink_pending' # <<>>)

\* Established uplink, permit reserved: at most one payload into the channel.
Uplink ==
  /\ Processing /\ uplink_tx # None /\ relay[uplink_tx] # "done"
  /\ Len(channel[uplink_tx]) < RELAY_CHANNEL_CAPACITY
  /\ FlushDownlink(downlink_pending)
  /\ IF rx_buffer = <<>>
     THEN UNCHANGED <<rx_buffer, state, channel>>
     ELSE \E n \in 1..Len(rx_buffer) :
            /\ Extract(n) /\ state' = "Relaying"
            /\ channel' = [channel EXCEPT ![uplink_tx] = Append(@, Payload(n))]
  /\ UNCHANGED <<tcp_state, uplink_tx, uplink_buffer, conn_epoch, fake_ip,
                 handshakes, relay, global_rx, cheap, history>>
  /\ StillActive

\* Channel full: the bytes stay in the rx buffer.
UplinkFull ==
  /\ Processing /\ uplink_tx # None /\ relay[uplink_tx] # "done"
  /\ Len(channel[uplink_tx]) >= RELAY_CHANNEL_CAPACITY
  /\ FlushDownlink(downlink_pending)
  /\ UNCHANGED <<tcp_state, rx_buffer, state, uplink_tx, uplink_buffer, conn_epoch,
                 fake_ip, tasks, cheap, history>>
  /\ StillActive

\* The relay task has returned and dropped its receiver.
UplinkClosed ==
  /\ Processing /\ uplink_tx # None /\ relay[uplink_tx] = "done"
  /\ Rearm
  /\ UNCHANGED <<tasks, cheap, conn, sent, written, read>>
  /\ StillActive

NotEstablished == Processing /\ uplink_tx = None

\* No payload, or a payload on a socket that lost its endpoint (RST): skipped.
NoPayload ==
  /\ NotEstablished
  /\ \/ rx_buffer = <<>> /\ UNCHANGED rx_buffer
     \/ tcp_state = "Closed" /\ \E n \in 1..Len(rx_buffer) : Extract(n)
  /\ FlushDownlink(downlink_pending)
  /\ UNCHANGED <<tcp_state, state, uplink_tx, uplink_buffer, conn_epoch, fake_ip,
                 tasks, cheap, history>>
  /\ StillActive

\* resolve_target: Refuse (no mapping) or Block (encrypted DNS).
Refused ==
  /\ NotEstablished /\ IsActive /\ rx_buffer # <<>>
  /\ Rearm
  /\ UNCHANGED <<tasks, cheap, conn, sent, written, read>>
  /\ StillActive

Opening(n) ==
  NotEstablished /\ IsActive /\ Extract(n) /\ FlushDownlink(downlink_pending)

\* handle_local_payload while a spawned handshake is in flight.
BufferPayload ==
  /\ state = "HandshakePending"
  /\ \E n \in 1..Len(rx_buffer) : Opening(n) /\ BufferUplink(Payload(n))
  /\ UNCHANGED <<tcp_state, state, uplink_tx, conn_epoch, fake_ip, tasks, cheap, history>>
  /\ StillActive

\* The inline branch: open_tcp succeeds, or its error leaves through "?".
OpenInline ==
  /\ state # "HandshakePending" /\ cheap
  /\ \E n \in 1..Len(rx_buffer) : Opening(n) /\ SpawnRelay(conn, <<Payload(n)>>)
  /\ Acquire
  /\ UNCHANGED <<tcp_state, uplink_buffer, conn_epoch, handshakes, global_rx, cheap,
                 conn, sent, written, read>>
  /\ StillActive

\* Mutant: the fake-IP is acquired before open_tcp.
OpenInlineFailsAcquired ==
  /\ state # "HandshakePending" /\ cheap
  /\ \E n \in 1..Len(rx_buffer) : Opening(n)
  /\ state' = "OpeningRemote" /\ Acquire
  /\ UNCHANGED <<tcp_state, uplink_tx, uplink_buffer, conn_epoch, tasks, cheap, conn,
                 sent, written, read>>
  /\ StillActive

OpenInlineFails ==
  /\ state # "HandshakePending" /\ cheap
  /\ \E n \in 1..Len(rx_buffer) : Opening(n)
  /\ state' = "OpeningRemote"
  /\ UNCHANGED <<tcp_state, uplink_tx, uplink_buffer, conn_epoch, fake_ip, tasks,
                 cheap, history>>
  /\ StillActive

\* The spawn branch: a new epoch, captured by the handshake task.
OpenSpawned ==
  /\ state # "HandshakePending" /\ ~cheap
  /\ \E n \in 1..Len(rx_buffer) : Opening(n) /\ BufferUplink(Payload(n))
  /\ state' = "HandshakePending" /\ conn_epoch' = conn_epoch + 1
  /\ handshakes' = handshakes \cup {[epoch |-> conn_epoch + 1, conn |-> conn]}
  /\ Acquire
  /\ UNCHANGED <<tcp_state, uplink_tx, relay, channel, global_rx, cheap,
                 conn, sent, written, read>>
  /\ StillActive

ProcessDirtyRelay ==
  \/ Uplink \/ UplinkFull \/ UplinkClosed \/ NoPayload \/ Refused
  \/ BufferPayload \/ OpenInline \/ OpenInlineFails \/ OpenSpawned

-----------------------------------------------------------------------------
(* handle_handshake_done.  The order of results in the channel is the      *)
(* order in which the tasks happened to finish: any task may be next.      *)

\* Mutant: only the state is looked at, not the epoch.
StaleByState(h) == state # "HandshakePending"

Stale(h) == h.epoch # conn_epoch \/ state # "HandshakePending"

HandshakeStale(h) ==
  /\ loop = "select" /\ Stale(h) /\ handshakes' = handshakes \ {h}
  /\ UNCHANGED <<sock, ctx, loop, dirty, relay, channel, global_rx, cheap, history>>

\* Mutant: the buffer is sent but not taken.
HandshakeOkCopies(h) ==
  /\ loop = "select" /\ ~Stale(h) /\ handshakes' = handshakes \ {h}
  /\ SpawnRelay(h.conn, IF uplink_buffer = <<>> THEN <<>> ELSE <<uplink_buffer>>)
  /\ UNCHANGED <<sock, downlink_pending, uplink_buffer, conn_epoch, fake_ip, loop, dirty,
                 global_rx, cheap, history>>

HandshakeOk(h) ==
  /\ loop = "select" /\ ~Stale(h) /\ handshakes' = handshakes \ {h}
  /\ SpawnRelay(h.conn, IF uplink_buffer = <<>> THEN <<>> ELSE <<uplink_buffer>>)
  /\ uplink_buffer' = <<>>
  /\ UNCHANGED <<sock, downlink_pending, conn_epoch, fake_ip, loop, dirty, global_rx,
                 cheap, history>>

\* Mutant: a failed handshake is only logged.
HandshakeErrIgnored(h) ==
  /\ loop = "select" /\ ~Stale(h) /\ handshakes' = handshakes \ {h}
  /\ UNCHANGED <<sock, ctx, loop, dirty, relay, channel, global_rx, cheap, history>>

HandshakeErr(h) ==
  /\ loop = "select" /\ ~Stale(h) /\ handshakes' = handshakes \ {h}
  /\ Rearm
  /\ UNCHANGED <<loop, dirty, relay, channel, global_rx, cheap,
                 conn, sent, written, read>>

HandshakeDone == \E h \in handshakes : HandshakeStale(h) \/ HandshakeOk(h) \/ HandshakeErr(h)

-----------------------------------------------------------------------------
(* handle_remote_payload: global_rx carries the handle and the bytes; the  *)
(* "stream" field is what the code does not have.                          *)

GlobalRx == loop = "select" /\ global_rx # <<>> /\ global_rx' = Tail(global_rx)

RemoteEof ==
  /\ GlobalRx /\ Head(global_rx).eof
  /\ Rearm
  /\ UNCHANGED <<loop, dirty, handshakes, relay, channel, cheap,
                 conn, sent, written, read>>

RemoteLate ==
  /\ GlobalRx /\ ~Head(global_rx).eof /\ uplink_tx = None
  /\ dirty' = (dirty \/ downlink_pending # <<>>)
  /\ UNCHANGED <<sock, ctx, loop, handshakes, relay, channel, cheap, history>>

RemoteData ==
  /\ GlobalRx /\ ~Head(global_rx).eof /\ uplink_tx # None
  /\ FlushDownlink(Append(downlink_pending, Head(global_rx).chunk))
  /\ state' = "Relaying"
  /\ dirty' = (dirty \/ downlink_pending' # <<>>)
  /\ UNCHANGED <<tcp_state, rx_buffer, uplink_tx, uplink_buffer, conn_epoch, fake_ip,
                 loop, handshakes, relay, channel, cheap, history>>

\* Mutant: CloseWait is left to the remote's EOF.
ReapInactive ==
  /\ loop = "select" /\ state # "Listening"
  /\ ~IsActive \/ (state = "OpeningRemote" /\ uplink_tx = None)
  /\ Rearm
  /\ UNCHANGED <<loop, dirty, tasks, cheap, conn, sent, written, read>>

\* reap_dead_slots, on the 1 s sweep.
Reap ==
  /\ loop = "select" /\ state # "Listening"
  /\ \/ ~IsActive \/ tcp_state = "CloseWait"
     \/ state = "OpeningRemote" /\ uplink_tx = None
  /\ Rearm
  /\ UNCHANGED <<loop, dirty, tasks, cheap, conn, sent, written, read>>

-----------------------------------------------------------------------------
(* run_relay, one task per opened stream.  Its select! polls the channel,  *)
(* the stream and the idle timer in random order.  After the loop the task *)
(* still owns the receiver until stream.shutdown() returns ("shutting").   *)

RelayUp(r) ==
  /\ relay[r] = "run" /\ channel[r] # <<>>
  /\ channel' = [channel EXCEPT ![r] = Tail(@)]
  /\ \/ written' = [written EXCEPT ![r] = @ \o Head(channel[r])] /\ UNCHANGED relay
     \/ relay' = [relay EXCEPT ![r] = "shutting"] /\ UNCHANGED written
  /\ UNCHANGED <<sock, ctx, loop, dirty, handshakes, global_rx, cheap, conn, sent,
                 read, refcount>>

\* recv() = None: the slot dropped the sender and the queue is drained.
RelayLocalClosed(r) ==
  /\ relay[r] = "run" /\ channel[r] = <<>> /\ uplink_tx # r
  /\ relay' = [relay EXCEPT ![r] = "shutting"]
  /\ UNCHANGED <<sock, ctx, loop, dirty, handshakes, channel, global_rx, cheap, history>>

GlobalSend(r, eof, chunk) ==
  /\ Len(global_rx) < RELAY_CHANNEL_CAPACITY
  /\ global_rx' = Append(global_rx, [stream |-> r, eof |-> eof, chunk |-> chunk])

RelayDown(r) ==
  /\ relay[r] = "run" /\ read[r] < MAX_READ
  /\ read' = [read EXCEPT ![r] = @ + 1]
  /\ GlobalSend(r, FALSE, <<r, read[r] + 1>>)
  /\ UNCHANGED <<sock, ctx, loop, dirty, handshakes, relay, channel, cheap, conn, sent,
                 written, refcount>>

RelayEof(r) ==
  /\ relay[r] = "run" /\ GlobalSend(r, TRUE, <<>>)
  /\ relay' = [relay EXCEPT ![r] = "shutting"]
  /\ UNCHANGED <<sock, ctx, loop, dirty, handshakes, channel, cheap, history>>

\* A read error or the 90 s idle timeout: the loop is not told.
RelayQuit(r) ==
  /\ relay[r] = "run" /\ relay' = [relay EXCEPT ![r] = "shutting"]
  /\ UNCHANGED <<sock, ctx, loop, dirty, handshakes, channel, global_rx, cheap, history>>

RelayShutdown(r) ==
  /\ relay[r] = "shutting" /\ relay' = [relay EXCEPT ![r] = "done"]
  /\ UNCHANGED <<sock, ctx, loop, dirty, handshakes, channel, global_rx, cheap, history>>

AppPacket == Syn \/ Data \/ Ack \/ Fin \/ Rst \/ OtherPacket

RelayTask(r) ==
  \/ RelayUp(r) \/ RelayLocalClosed(r) \/ RelayDown(r) \/ RelayEof(r) \/ RelayQuit(r)
  \/ RelayShutdown(r)

Next ==
  \/ AppPacket \/ Timer \/ ProcessDirtyRelay \/ HandshakeDone
  \/ RemoteEof \/ RemoteLate \/ RemoteData \/ Reap
  \/ \E r \in Streams : RelayTask(r)

Spec == Init /\ [][Next]_vars

(***************************************************************************)
(* Fairness.  The event loop always finishes the arm it is in, and         *)
(* select! picks among ready arms at random, so an arm that is ready again *)
(* and again is taken (strong fairness: between two waits the loop is      *)
(* busy).  Spawned handshakes end within their 10 s timeouts.  A relay     *)
(* task keeps polling its channel, and the upstream stream accepts or      *)
(* fails what it is given: write_all and shutdown carry no timeout of      *)
(* their own.  The application and the remote's data are obliged to        *)
(* nothing.                                                                *)
(***************************************************************************)
Fairness ==
  /\ WF_vars(ProcessDirtyRelay)
  /\ SF_vars(Timer) /\ SF_vars(HandshakeDone) /\ SF_vars(Reap)
  /\ SF_vars(RemoteEof \/ RemoteLate \/ RemoteData)
  /\ \A r \in Streams :
       WF_vars(RelayUp(r)) /\ WF_vars(RelayLocalClosed(r)) /\ WF_vars(RelayShutdown(r))

FairSpec == Spec /\ Fairness

-----------------------------------------------------------------------------
Chunks == Streams \X (1..(MAX_SENT + MAX_READ))

Messages == [stream : Streams, eof : {FALSE}, chunk : Chunks]
              \cup [stream : Streams, eof : {TRUE}, chunk : {<<>>}]

States == {"Listening", "HandshakePending", "OpeningRemote", "Relaying"}

TypeOK ==
  /\ tcp_state \in {"Listen", "Established", "CloseWait", "Closed"}
  /\ Len(rx_buffer) <= RX_CAPACITY /\ Len(tx_buffer) <= TX_CAPACITY
  /\ Len(uplink_buffer) <= MAX_UPLINK_BUFFER
  /\ \A r \in Streams : Len(channel[r]) <= RELAY_CHANNEL_CAPACITY
  /\ rx_buffer \in Seq(Chunks) /\ tx_buffer \in Seq(Chunks)
  /\ state \in States /\ uplink_tx \in Streams \cup {None}
  /\ downlink_pending \in Seq(Chunks) /\ uplink_buffer \in Seq(Chunks)
  /\ conn_epoch \in Nat /\ fake_ip \in BOOLEAN
  /\ loop \in {"select", "relay"} /\ dirty \in BOOLEAN
  /\ handshakes \subseteq [epoch : Nat, conn : Streams]
  /\ relay \in [Streams -> {"none", "run", "shutting", "done"}]
  /\ channel \in [Streams -> Seq(Seq(Chunks))]
  /\ global_rx \in Seq(Messages)
  /\ cheap \in BOOLEAN
  /\ conn \in 0..MAX_CONNS /\ sent \in 0..MAX_SENT
  /\ written \in [Streams -> Seq(Chunks)] /\ read \in [Streams -> 0..MAX_READ]
  /\ refcount \in Int

\* A slot waiting for a handshake waits for exactly one, the one its current
\* connection started, and a handshake carrying the current epoch is waited for:
\* no double open, and no result that could be installed on a later connection
\* (handle_local_payload's HandshakePending branch, conn_epoch in rearm_socket).
OneHandshake ==
  LET current == {h \in handshakes : h.epoch = conn_epoch} IN
  IF state = "HandshakePending"
  THEN \E h \in current : h.conn = conn /\ current = {h}
  ELSE current = {}

\* The uplink sender a slot holds leads to the stream opened for the connection it
\* serves now, across rearms, late handshakes and re-used slots.
UplinkIsOwn == uplink_tx # None => uplink_tx = conn /\ relay[conn] # "none"

\* The dirty set misses no work: while the loop waits, a slot with bytes to receive
\* or to flush is in it (process_dirty_relay replaced a scan of all slots).
NoLostWakeup ==
  loop = "select" /\ (rx_buffer # <<>> \/ downlink_pending # <<>>) => dirty

\* The slot holds a fake-IP reference exactly while it opens or relays a connection
\* to a fake address: acquires and releases balance on every path (inline, spawned,
\* failed, reaped).
FakeIpBalanced ==
  /\ refcount = IF fake_ip THEN 1 ELSE 0
  /\ fake_ip <=> conn \in FakeTargets /\ state \in {"HandshakePending", "Relaying"}

\* A handshake in flight is always resolved: its result, or a rearm.
HandshakeResolves == (state = "HandshakePending") ~> (state # "HandshakePending")

\* Received bytes never stay in the socket for good: they are relayed or the slot
\* is rearmed, also when the channel is full or the relay died without notice.
UplinkProgress == (rx_buffer # <<>>) ~> (rx_buffer = <<>>)

\* A used slot whose application went away listens again (reap_dead_slots).
UsedSlotReturns == (state # "Listening" /\ tcp_state \in {"Closed", "CloseWait"})
                     ~> (tcp_state = "Listen")
=============================================================================
