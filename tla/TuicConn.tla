------------------------------ MODULE TuicConn ------------------------------
(***************************************************************************)
(* TuicUpstream (src/tuic.rs): one QUIC connection behind a mutex, shared  *)
(* by the UDP driver task of start_udp, the open_tcp calls, the health     *)
(* probe and the event loop's inline send_udp.  start_tun_proxy            *)
(* (src/client_tun.rs) makes the first connection before any of them runs. *)
(* With the plain TUIC upstream open_tcp is cheap and the event loop       *)
(* awaits it; with the failover upstream every open_tcp is a task.         *)
(*                                                                         *)
(* Connections are numbered in the order they are made; a clone of a       *)
(* connection is its number.  A synchronous stretch under the mutex is one *)
(* step, so holder is set only while a task awaits a handshake with the    *)
(* mutex held.  The path may fail at any time: a handshake ends either     *)
(* way, a stream write may hang, and quinn may close any connection.  The  *)
(* payload of datagrams and the lengths of back-off and timeouts are left  *)
(* out; of the heartbeat only its failure, which ends the pump, is there.  *)
(***************************************************************************)
EXTENDS Integers, Sequences

CONSTANTS Openers,   \* open_tcp calls
          Probers,   \* the health task's probe
          Driver,    \* the task of start_udp
          None,      \* no task holds the mutex; no upstream is chosen
          udp_relay_mode,
          TUIC_DOWNLINK_CAPACITY, MAX_CONCURRENT_DOWNLINK_STREAMS,
          MAX_CONN   \* bound: connections made

ASSUME TuicAssumption ==
  /\ Openers \cap Probers = {} /\ Driver \notin Openers \cup Probers
  /\ None \notin Openers \cup Probers \cup {Driver}
  /\ TUIC_DOWNLINK_CAPACITY \in Nat \ {0} /\ MAX_CONCURRENT_DOWNLINK_STREAMS \in Nat
  /\ MAX_CONN \in Nat \ {0} /\ udp_relay_mode \in {"Native", "Quic"}
  /\ None \notin {"Tuic", "Failover", "Reality"}

Tasks == Openers \cup Probers \cup {Driver}

VARIABLES kind,      \* the UpstreamKind start_tun_proxy is starting or has started
          conn,      \* the connection in the mutex
          made,      \* external: connections made so far
          closed,    \* external: those with a close_reason
          holder, waiters,  \* the tokio mutex: FIFO
          pc, my,    \* where each task stands, the clone it works on
          queue,     \* packets in the downlink channel
          permits,   \* of stream_sem
          readers,   \* spawned tasks that read a downlink uni-stream
          writing    \* the connection send_udp_via_stream awaits in the event loop, or 0

mutex == <<holder, waiters>>
vars == <<kind, conn, made, closed, mutex, pc, my, queue, permits, readers, writing>>

Init ==
  /\ kind = None /\ conn = 0 /\ made = 0 /\ closed = {}
  /\ holder = None /\ waiters = <<>>
  /\ pc = [t \in Tasks |-> "idle"] /\ my = [t \in Tasks |-> 0]
  /\ queue = 0 /\ readers = 0 /\ permits = MAX_CONCURRENT_DOWNLINK_STREAMS
  /\ writing = 0

Open(c) == c \notin closed

\* Where a task goes on with the connection, and without one.  The driver backs off
\* in "idle", a failed open_tcp of the failover upstream asks is_dead.
Ready(t) == IF t = Driver THEN "pump" ELSE IF t \in Openers THEN "open" ELSE "idle"

AsksIsDead(t) == t \in Openers /\ kind = "Failover"

Failed(t) == IF AsksIsDead(t) THEN "is_dead" ELSE "idle"

\* open_is_cheap: the event loop itself is in open_tcp.
Inline == kind = "Tuic"

EventLoopFree == writing = 0 /\ (Inline => \A t \in Openers : pc[t] = "idle")

-----------------------------------------------------------------------------
(* start_tun_proxy.  A wrong configuration or a TUN device that cannot be  *)
(* created ends the start before anything is made; the user tries again.   *)

\* MINI_VPN_UPSTREAM.
SelectUpstreamKind(env) ==
  CASE env = "reality"  -> "Reality"
    [] env = "failover" -> "Failover"
    [] OTHER            -> "Tuic"

\* The REALITY upstream alone makes no TUIC connection: its downlink is a channel that
\* nobody sends on, its send_udp does nothing.
Start(env) ==
  /\ kind = None /\ kind' = SelectUpstreamKind(env)
  /\ UNCHANGED <<conn, made, closed, mutex, pc, my, queue, permits, readers, writing>>

\* TuicUpstream::connect succeeds.
Connect ==
  /\ conn' = 1 /\ made' = 1
  /\ UNCHANGED <<kind, closed, mutex, pc, my, queue, permits, readers, writing>>

StartTuic == kind = "Tuic" /\ made = 0 /\ Connect

\* Both legs: connect, start_udp, and a valid REALITY configuration.
StartFailover == kind = "Failover" /\ made = 0 /\ Connect

\* An early return: connect fails, or a configuration that the kind needs is invalid.
StartAborts ==
  /\ kind # None /\ made = 0 /\ kind' = None
  /\ UNCHANGED <<conn, made, closed, mutex, pc, my, queue, permits, readers, writing>>

-----------------------------------------------------------------------------
\* A task calls live_conn and queues for the mutex.
Begin(t) ==
  /\ pc[t] = "idle" /\ made > 0
  /\ t \in Probers => kind = "Failover"
  /\ t \in Openers /\ Inline => EventLoopFree
  /\ pc' = [pc EXCEPT ![t] = "lock"] /\ waiters' = Append(waiters, t)
  /\ UNCHANGED <<kind, conn, made, closed, holder, my, queue, permits, readers, writing>>

Granted(t, at) == holder = None /\ waiters # <<>> /\ Head(waiters) = t /\ pc[t] = at

\* live_conn finds the connection open and clones it.
LiveConn(t) ==
  /\ Granted(t, "lock") /\ Open(conn)
  /\ waiters' = Tail(waiters)
  /\ my' = [my EXCEPT ![t] = conn] /\ pc' = [pc EXCEPT ![t] = Ready(t)]
  /\ UNCHANGED <<kind, conn, made, closed, holder, queue, permits, readers, writing>>

\* Mutant: the guard is dropped before the handshake.
ReconnectUnlocked(t) ==
  /\ Granted(t, "lock") /\ ~Open(conn)
  /\ waiters' = Tail(waiters) /\ holder' = None
  /\ pc' = [pc EXCEPT ![t] = "handshake"]
  /\ UNCHANGED <<kind, conn, made, closed, my, queue, permits, readers, writing>>

\* live_conn finds it closed and awaits the handshake with the mutex held.
Reconnect(t) ==
  /\ Granted(t, "lock") /\ ~Open(conn)
  /\ waiters' = Tail(waiters) /\ holder' = t
  /\ pc' = [pc EXCEPT ![t] = "handshake"]
  /\ UNCHANGED <<kind, conn, made, closed, my, queue, permits, readers, writing>>

\* Mutant: every connection gets a semaphore of its own.
HandshakeOkNewSem(t) ==
  /\ pc[t] = "handshake" /\ made < MAX_CONN
  /\ made' = made + 1 /\ conn' = made + 1 /\ holder' = None
  /\ my' = [my EXCEPT ![t] = made + 1] /\ pc' = [pc EXCEPT ![t] = Ready(t)]
  /\ permits' = MAX_CONCURRENT_DOWNLINK_STREAMS
  /\ UNCHANGED <<kind, closed, waiters, queue, readers, writing>>

\* handshake: 0-RTT, else 1-RTT, with TUIC authentication.
HandshakeOk(t) ==
  /\ pc[t] = "handshake" /\ made < MAX_CONN
  /\ made' = made + 1 /\ conn' = made + 1 /\ holder' = None
  /\ my' = [my EXCEPT ![t] = made + 1] /\ pc' = [pc EXCEPT ![t] = Ready(t)]
  /\ UNCHANGED <<kind, closed, waiters, queue, permits, readers, writing>>

\* An error of the handshake or TUIC_RECONNECT_TIMEOUT: the closed connection stays.
HandshakeErr(t) ==
  /\ pc[t] = "handshake" /\ holder' = None
  /\ pc' = [pc EXCEPT ![t] = Failed(t)]
  /\ waiters' = IF AsksIsDead(t) THEN Append(waiters, t) ELSE waiters
  /\ UNCHANGED <<kind, conn, made, closed, my, queue, permits, readers, writing>>

\* open_tcp: open_bi and the Connect header.
OpenOk(t) ==
  /\ pc[t] = "open" /\ Open(my[t])
  /\ pc' = [pc EXCEPT ![t] = "idle"]
  /\ UNCHANGED <<kind, conn, made, closed, mutex, my, queue, permits, readers, writing>>

\* Mutant: no TUIC_OPEN_TIMEOUT, only a closed connection ends the wait.
OpenErrClosed(t) ==
  /\ pc[t] = "open" /\ ~Open(my[t])
  /\ pc' = [pc EXCEPT ![t] = Failed(t)]
  /\ waiters' = IF AsksIsDead(t) THEN Append(waiters, t) ELSE waiters
  /\ UNCHANGED <<kind, conn, made, closed, holder, my, queue, permits, readers, writing>>

\* The connection closes under it, or TUIC_OPEN_TIMEOUT.
OpenErr(t) ==
  /\ pc[t] = "open"
  /\ pc' = [pc EXCEPT ![t] = Failed(t)]
  /\ waiters' = IF AsksIsDead(t) THEN Append(waiters, t) ELSE waiters
  /\ UNCHANGED <<kind, conn, made, closed, holder, my, queue, permits, readers, writing>>

IsDead(t) ==
  /\ Granted(t, "is_dead")
  /\ waiters' = Tail(waiters) /\ pc' = [pc EXCEPT ![t] = "idle"]
  /\ UNCHANGED <<kind, conn, made, closed, holder, my, queue, permits, readers, writing>>

-----------------------------------------------------------------------------
\* The driver's inner loop: read_datagram, then the send into the channel.
ReadDatagram ==
  /\ pc[Driver] = "pump" /\ Open(my[Driver])
  /\ pc' = [pc EXCEPT ![Driver] = "send"]
  /\ UNCHANGED <<kind, conn, made, closed, mutex, my, queue, permits, readers, writing>>

SendDownlink ==
  /\ pc[Driver] = "send" /\ queue < TUIC_DOWNLINK_CAPACITY
  /\ queue' = queue + 1 /\ pc' = [pc EXCEPT ![Driver] = "pump"]
  /\ UNCHANGED <<kind, conn, made, closed, mutex, my, permits, readers, writing>>

\* accept_uni with a permit; without one the stream is dropped.
AcceptUni ==
  /\ pc[Driver] = "pump" /\ Open(my[Driver]) /\ permits > 0
  /\ permits' = permits - 1 /\ readers' = readers + 1
  /\ UNCHANGED <<kind, conn, made, closed, mutex, pc, my, queue, writing>>

\* A reader has read its packet and sends it, or read_uni_packet returns None.
ReaderSends ==
  /\ readers > 0 /\ queue < TUIC_DOWNLINK_CAPACITY
  /\ readers' = readers - 1 /\ permits' = permits + 1 /\ queue' = queue + 1
  /\ UNCHANGED <<kind, conn, made, closed, mutex, pc, my, writing>>

ReaderFails ==
  /\ readers > 0
  /\ readers' = readers - 1 /\ permits' = permits + 1
  /\ UNCHANGED <<kind, conn, made, closed, mutex, pc, my, queue, writing>>

\* Mutant: the driver tries its own clone again instead of going back to live_conn.
PumpBreakKeeps ==
  /\ pc[Driver] = "pump" /\ ~Open(my[Driver])
  /\ pc' = [pc EXCEPT ![Driver] = "pump"]
  /\ UNCHANGED <<kind, conn, made, closed, mutex, my, queue, permits, readers, writing>>

\* The connection is gone: leave the inner loop and back off.
PumpBreak ==
  /\ pc[Driver] = "pump" /\ ~Open(my[Driver])
  /\ pc' = [pc EXCEPT ![Driver] = "idle"]
  /\ UNCHANGED <<kind, conn, made, closed, mutex, my, queue, permits, readers, writing>>

\* hb.tick with recent UDP traffic: send_datagram also fails on an open connection, when
\* the server takes no datagrams, and the driver leaves the inner loop all the same.
HeartbeatFails ==
  /\ pc[Driver] = "pump" /\ Open(my[Driver])
  /\ pc' = [pc EXCEPT ![Driver] = "idle"]
  /\ UNCHANGED <<kind, conn, made, closed, mutex, my, queue, permits, readers, writing>>

-----------------------------------------------------------------------------
\* The event loop.  current_conn is try_lock: with the mutex taken or the connection
\* closed the packet is dropped, a datagram is sent at once, a stream is awaited.
CurrentConn == made > 0 /\ holder = None /\ waiters = <<>> /\ Open(conn)

\* udp_send_plan: does the packet fit into max_datagram_size, if there is one?
UdpSendPlan(fits) == IF udp_relay_mode = "Native" /\ fits THEN "Datagram" ELSE "Stream"

\* The plan says so, or the limit has shrunk below the packet when the datagram is sent.
SendUdpViaStream ==
  /\ EventLoopFree /\ CurrentConn
  /\ \E fits, fits_still \in BOOLEAN : UdpSendPlan(fits) = "Stream" \/ ~fits_still
  /\ writing' = conn
  /\ UNCHANGED <<kind, conn, made, closed, mutex, pc, my, queue, permits, readers>>

WriteDone ==
  /\ writing # 0 /\ Open(writing)
  /\ writing' = 0
  /\ UNCHANGED <<kind, conn, made, closed, mutex, pc, my, queue, permits, readers>>

WriteFails ==
  /\ writing # 0 /\ ~Open(writing)
  /\ writing' = 0
  /\ UNCHANGED <<kind, conn, made, closed, mutex, pc, my, queue, permits, readers>>

\* The TUIC downlink branch of the event loop.
RecvDownlink ==
  /\ EventLoopFree /\ queue > 0
  /\ queue' = queue - 1
  /\ UNCHANGED <<kind, conn, made, closed, mutex, pc, my, permits, readers, writing>>

\* quinn closes a connection: idle timeout, or the peer.
Close(c) ==
  /\ Open(c)
  /\ closed' = closed \cup {c}
  /\ UNCHANGED <<kind, conn, made, mutex, pc, my, queue, permits, readers, writing>>

Steps(t) ==
  LiveConn(t) \/ Reconnect(t) \/ HandshakeOk(t) \/ HandshakeErr(t) \/ OpenErr(t) \/ IsDead(t)

Next ==
  \/ \E env \in {"reality", "failover", "other"} : Start(env)
  \/ StartTuic \/ StartFailover \/ StartAborts
  \/ \E t \in Tasks : Begin(t) \/ Steps(t) \/ OpenOk(t)
  \/ ReadDatagram \/ SendDownlink \/ AcceptUni \/ PumpBreak \/ HeartbeatFails
  \/ ReaderSends \/ ReaderFails
  \/ SendUdpViaStream \/ WriteDone \/ WriteFails \/ RecvDownlink
  \/ \E c \in 1..made : Close(c)

Spec == Init /\ [][Next]_vars

\* Timers fire and woken tasks run; the driver's loop never ends; tokio serves the
\* senders of a channel in order of arrival and select! picks among its ready branches
\* at random.  A stream write ends: the server reads on, or quinn closes the connection.
Fairness ==
  /\ \A t \in Tasks : WF_pc(Steps(t))
  /\ WF_pc(Begin(Driver)) /\ WF_pc(PumpBreak) /\ SF_pc(SendDownlink)
  /\ WF_writing(WriteDone \/ WriteFails) /\ SF_queue(RecvDownlink)

FairSpec == Spec /\ Fairness

-----------------------------------------------------------------------------
\* "The conn mutex serialises reconnects and avoids two connections at a time"
\* (tuic.rs:835): every connection but the one in the mutex is closed, whichever of
\* the driver, the opens and the probe notices the loss first.
OneLiveConnection == \A c \in 1..made : Open(c) => c = conn

\* stream_sem is shared across reconnects: readers of old and new connections together
\* never exceed MAX_CONCURRENT_DOWNLINK_STREAMS.
StreamsBounded == readers <= MAX_CONCURRENT_DOWNLINK_STREAMS

\* open_tcp returns, black hole or not: the waits for the mutex, the handshake, the
\* stream and is_dead are all bounded by timeouts.
OpenResolves == \A t \in Openers : pc[t] # "idle" ~> pc[t] = "idle"

\* Whoever reconnects, the UDP driver ends up pumping the new connection, unless that
\* one is lost too: neither a stale clone, nor a full channel behind an event loop that
\* awaits a stream write, nor the back-off keeps it away.
PumpFollows ==
  \A c \in 1..MAX_CONN :
    conn = c /\ Open(c) ~> ~Open(c) \/ (my[Driver] = c /\ pc[Driver] \in {"pump", "send"})
=============================================================================
