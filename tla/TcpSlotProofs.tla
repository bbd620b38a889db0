---------------------------- MODULE TcpSlotProofs ----------------------------
(***************************************************************************)
(* TcpSlot's invariants for any number of connections, chunks and buffer   *)
(* sizes.  The heart is SlotInv: what ties the socket, the SocketCtx and   *)
(* the handshakes still in flight together, so that a new SYN can only     *)
(* meet a slot that nothing of an earlier connection can reach.            *)
(***************************************************************************)
EXTENDS TcpSlot, SequenceTheorems, TLAPS

SlotInv ==
  /\ tcp_state = "Listen" => state = "Listening"
  /\ tcp_state # "Listen" => conn \in Streams
  /\ uplink_tx # None <=> state = "Relaying"
  /\ \A h \in handshakes : h.epoch <= conn_epoch

IInv == TypeOK /\ SlotInv /\ OneHandshake /\ UplinkIsOwn /\ FakeIpBalanced

\* The bounds and capacities are natural numbers.
LEMMA Bounds ==
  /\ MAX_CONNS \in Nat /\ MAX_SENT \in Nat /\ MAX_READ \in Nat
  /\ RX_CAPACITY \in Nat /\ TX_CAPACITY \in Nat /\ MAX_UPLINK_BUFFER \in Nat
  /\ RELAY_CHANNEL_CAPACITY \in Nat /\ RELAY_CHANNEL_CAPACITY >= 1
BY TcpSlotAssumption

-----------------------------------------------------------------------------
(* Sequences.                                                              *)

\* Cutting a sequence in two: types and lengths of both parts.
LEMMA CutProperties ==
  ASSUME NEW S, NEW s \in Seq(S), NEW n \in 0..Len(s)
  PROVE  /\ SubSeq(s, 1, n) \in Seq(S) /\ Len(SubSeq(s, 1, n)) = n
         /\ SubSeq(s, n + 1, Len(s)) \in Seq(S)
         /\ Len(SubSeq(s, n + 1, Len(s))) = Len(s) - n
<1>1. Len(s) \in Nat /\ \A i \in 1..Len(s) : s[i] \in S
  BY ElementOfSeq, LenProperties
<1>2. SubSeq(s, 1, n) \in Seq(S) /\ Len(SubSeq(s, 1, n)) = IF 1 <= n THEN n - 1 + 1 ELSE 0
  <2>1. \A i \in 1..n : s[i] \in S
    BY <1>1
  <2> QED
    BY <1>1, <2>1, SubSeqProperties
<1>3. /\ SubSeq(s, n + 1, Len(s)) \in Seq(S)
      /\ Len(SubSeq(s, n + 1, Len(s)))
           = IF n + 1 <= Len(s) THEN Len(s) - (n + 1) + 1 ELSE 0
  <2>1. \A i \in (n + 1)..Len(s) : s[i] \in S
    BY <1>1
  <2> QED
    BY <1>1, <2>1, SubSeqProperties
<1> QED
  BY <1>1, <1>2, <1>3

\* flush_downlink keeps every chunk and never overfills the tx buffer.
LEMMA FlushType ==
  ASSUME TypeOK, NEW backlog \in Seq(Chunks), FlushDownlink(backlog)
  PROVE  /\ tx_buffer' \in Seq(Chunks) /\ Len(tx_buffer') <= TX_CAPACITY
         /\ downlink_pending' \in Seq(Chunks)
<1> DEFINE n == IF Room < Len(backlog) THEN Room ELSE Len(backlog)
<1>1. /\ Len(backlog) \in Nat /\ Len(tx_buffer) \in Nat
      /\ tx_buffer \in Seq(Chunks) /\ Len(tx_buffer) <= TX_CAPACITY
      /\ TX_CAPACITY \in Nat
  BY LenProperties, TcpSlotAssumption DEF TypeOK
<1>2. Room \in Nat /\ Room <= TX_CAPACITY - Len(tx_buffer)
  BY <1>1 DEF Room
<1>3. n \in 0..Len(backlog) /\ n <= Room
  BY <1>1, <1>2
<1>4. /\ tx_buffer' = tx_buffer \o SubSeq(backlog, 1, n)
      /\ downlink_pending' = SubSeq(backlog, n + 1, Len(backlog))
  BY DEF FlushDownlink
<1> HIDE DEF n
<1>5. /\ SubSeq(backlog, 1, n) \in Seq(Chunks) /\ Len(SubSeq(backlog, 1, n)) = n
      /\ SubSeq(backlog, n + 1, Len(backlog)) \in Seq(Chunks)
  BY <1>3, CutProperties
<1>6. /\ tx_buffer \o SubSeq(backlog, 1, n) \in Seq(Chunks)
      /\ Len(tx_buffer \o SubSeq(backlog, 1, n)) = Len(tx_buffer) + n
  BY <1>1, <1>5, ConcatProperties
<1> QED
  BY <1>1, <1>2, <1>3, <1>4, <1>5, <1>6

\* extract_socket_payload takes a non-empty, well-typed payload off the rx buffer.
LEMMA ExtractType ==
  ASSUME TypeOK, NEW n \in 1..Len(rx_buffer), Extract(n)
  PROVE  /\ rx_buffer' \in Seq(Chunks) /\ Len(rx_buffer') <= RX_CAPACITY
         /\ Payload(n) \in Seq(Chunks)
<1>1. /\ rx_buffer \in Seq(Chunks) /\ Len(rx_buffer) <= RX_CAPACITY
      /\ Len(rx_buffer) \in Nat /\ RX_CAPACITY \in Nat
  BY LenProperties, TcpSlotAssumption DEF TypeOK
<1>2. n \in 0..Len(rx_buffer) /\ n >= 1
  BY <1>1
<1> QED
  BY <1>1, <1>2, CutProperties DEF Extract, Payload

\* buffer_uplink never exceeds MAX_UPLINK_BUFFER.
LEMMA BufferType ==
  ASSUME TypeOK, NEW p \in Seq(Chunks), BufferUplink(p)
  PROVE  uplink_buffer' \in Seq(Chunks) /\ Len(uplink_buffer') <= MAX_UPLINK_BUFFER
<1>1. /\ uplink_buffer \in Seq(Chunks) /\ Len(uplink_buffer) <= MAX_UPLINK_BUFFER
      /\ MAX_UPLINK_BUFFER \in Nat
  BY TcpSlotAssumption DEF TypeOK
<1>2. Len(uplink_buffer) \in Nat /\ Len(p) \in Nat
  BY <1>1, LenProperties
<1>3. /\ uplink_buffer \o p \in Seq(Chunks)
      /\ Len(uplink_buffer \o p) = Len(uplink_buffer) + Len(p)
  BY <1>1, ConcatProperties
<1> QED
  BY <1>1, <1>2, <1>3 DEF BufferUplink

\* The fields rearm_socket sets are well-typed.
LEMMA RearmType ==
  ASSUME TypeOK, Rearm
  PROVE  /\ tcp_state' = "Listen" /\ state' = "Listening" /\ uplink_tx' = None
         /\ rx_buffer' \in Seq(Chunks) /\ Len(rx_buffer') <= RX_CAPACITY
         /\ tx_buffer' \in Seq(Chunks) /\ Len(tx_buffer') <= TX_CAPACITY
         /\ downlink_pending' \in Seq(Chunks) /\ uplink_buffer' \in Seq(Chunks)
         /\ Len(uplink_buffer') <= MAX_UPLINK_BUFFER
         /\ conn_epoch' \in Nat /\ fake_ip' \in BOOLEAN /\ refcount' \in Int
<1>1. <<>> \in Seq(Chunks) /\ Len(<<>>) = 0
  BY EmptySeq
<1>2. /\ 0 <= RX_CAPACITY /\ 0 <= TX_CAPACITY /\ 0 <= MAX_UPLINK_BUFFER
      /\ conn_epoch + 1 \in Nat /\ refcount - 1 \in Int
  BY TcpSlotAssumption DEF TypeOK
<1> QED
  BY <1>1, <1>2 DEF Rearm, TypeOK

\* Taking, or not taking, a reference keeps the two reference fields typed.
LEMMA AcquireType ==
  ASSUME TypeOK, Acquire
  PROVE  fake_ip' \in BOOLEAN /\ refcount' \in Int
<1>1. CASE fake_ip' = TRUE /\ refcount' = refcount + 1
  BY <1>1 DEF TypeOK
<1>2. CASE UNCHANGED <<fake_ip, refcount>>
  <2>1. fake_ip' = fake_ip /\ refcount' = refcount
    BY <1>2
  <2> QED
    BY <2>1 DEF TypeOK
<1> QED
  BY <1>1, <1>2 DEF Acquire

\* The relay a slot starts has its sender, a clean state and a short first queue.
LEMMA SpawnType ==
  ASSUME TypeOK, NEW r \in Streams, NEW first \in Seq(Seq(Chunks)), Len(first) <= 1,
         SpawnRelay(r, first)
  PROVE  /\ uplink_tx' \in Streams \cup {None} /\ state' \in States
         /\ relay' \in [Streams -> {"none", "run", "shutting", "done"}]
         /\ channel' \in [Streams -> Seq(Seq(Chunks))]
         /\ \A s \in Streams : Len(channel'[s]) <= RELAY_CHANNEL_CAPACITY
<1>1. 1 <= RELAY_CHANNEL_CAPACITY /\ RELAY_CHANNEL_CAPACITY \in Nat /\ Len(first) \in Nat
  BY Bounds, LenProperties
<1>2. uplink_tx' \in Streams \cup {None} /\ state' \in States
  BY DEF SpawnRelay, States
<1>3. relay' = [relay EXCEPT ![r] = "run"] /\ channel' = [channel EXCEPT ![r] = first]
  BY DEF SpawnRelay
<1>4. /\ relay \in [Streams -> {"none", "run", "shutting", "done"}]
      /\ channel \in [Streams -> Seq(Seq(Chunks))]
      /\ \A s \in Streams : Len(channel[s]) <= RELAY_CHANNEL_CAPACITY
  BY DEF TypeOK
<1>5. relay' \in [Streams -> {"none", "run", "shutting", "done"}]
  BY <1>3, <1>4
<1>6. channel' \in [Streams -> Seq(Seq(Chunks))]
  BY <1>3, <1>4
<1>7. ASSUME NEW s \in Streams PROVE Len(channel'[s]) <= RELAY_CHANNEL_CAPACITY
  <2>1. CASE s = r
    <3>1. channel'[s] = first
      BY <1>3, <1>4, <2>1
    <3> QED
      BY <1>1, <3>1
  <2>2. CASE s # r
    <3>1. channel'[s] = channel[s]
      BY <1>3, <1>4, <2>2
    <3> QED
      BY <1>4, <3>1
  <2> QED
    BY <2>1, <2>2
<1> QED
  BY <1>2, <1>5, <1>6, <1>7

-----------------------------------------------------------------------------
(* Type correctness.                                                       *)

\* The slot starts well-typed.
LEMMA InitType == Init => TypeOK
<1> SUFFICES ASSUME Init PROVE TypeOK
  OBVIOUS
<1>1. /\ <<>> \in Seq(Chunks) /\ Len(<<>>) = 0 /\ <<>> \in Seq(Seq(Chunks))
      /\ <<>> \in Seq(Messages)
  BY EmptySeq
<1>2. /\ 0 \in 0..MAX_CONNS /\ 0 \in 0..MAX_SENT /\ 0 \in 0..MAX_READ
      /\ 0 <= RX_CAPACITY /\ 0 <= TX_CAPACITY /\ 0 <= MAX_UPLINK_BUFFER
      /\ 0 <= RELAY_CHANNEL_CAPACITY /\ Cheap \subseteq BOOLEAN
  BY TcpSlotAssumption
<1>3. /\ relay \in [Streams -> {"none", "run", "shutting", "done"}]
      /\ channel \in [Streams -> Seq(Seq(Chunks))] /\ written \in [Streams -> Seq(Chunks)]
      /\ read \in [Streams -> 0..MAX_READ]
      /\ \A r \in Streams : Len(channel[r]) <= RELAY_CHANNEL_CAPACITY
  BY <1>1, <1>2 DEF Init
<1>4. handshakes \subseteq [epoch : Nat, conn : Streams] /\ uplink_tx \in Streams \cup {None}
  BY DEF Init
<1>5. /\ Len(rx_buffer) <= RX_CAPACITY /\ Len(tx_buffer) <= TX_CAPACITY
      /\ Len(uplink_buffer) <= MAX_UPLINK_BUFFER
  BY <1>1, <1>2 DEF Init
<1>6. cheap \in BOOLEAN /\ fake_ip \in BOOLEAN /\ dirty \in BOOLEAN
  BY <1>2 DEF Init
<1>7. state \in States /\ conn_epoch \in Nat /\ refcount \in Int
  BY DEF Init, States
<1> QED
  BY <1>1, <1>2, <1>3, <1>4, <1>5, <1>6, <1>7 DEF Init, TypeOK

\* Every step keeps the types and the capacities of all four buffers.
LEMMA NextType == TypeOK /\ SlotInv /\ [Next]_vars => TypeOK'
<1> SUFFICES ASSUME TypeOK, SlotInv, [Next]_vars PROVE TypeOK'
  OBVIOUS
<1> USE DEF sock, ctx, tasks, history
<1>1. CASE Syn
  <2>1. conn + 1 \in 0..MAX_CONNS /\ 0 \in 0..MAX_SENT
    <3>1. conn \in 0..MAX_CONNS /\ conn < MAX_CONNS
      BY <1>1 DEF Syn, TypeOK
    <3> QED
      BY <3>1, Bounds
  <2> QED
    BY <1>1, <2>1 DEF Syn, Packet, TypeOK
<1>2. CASE Data
  <2>1. sent + 1 \in 0..MAX_SENT /\ <<conn, sent + 1>> \in Chunks
    <3>1. conn \in Streams /\ sent \in 0..MAX_SENT /\ sent < MAX_SENT
      BY <1>2 DEF Data, TypeOK, SlotInv
    <3>2. sent + 1 \in 0..MAX_SENT /\ sent + 1 \in 1..(MAX_SENT + MAX_READ)
      BY <3>1, Bounds
    <3> QED
      BY <3>1, <3>2 DEF Chunks
  <2>2. rx_buffer' \in Seq(Chunks) /\ Len(rx_buffer') = Len(rx_buffer) + 1
    BY <1>2, <2>1, AppendProperties DEF Data, TypeOK
  <2>3. Len(rx_buffer') <= RX_CAPACITY
    <3>1. Len(rx_buffer) \in Nat /\ Len(rx_buffer) < RX_CAPACITY
      BY <1>2, LenProperties DEF Data, TypeOK
    <3> QED
      BY <2>2, <3>1, Bounds
  <2> QED
    BY <1>2, <2>1, <2>2, <2>3 DEF Data, Packet, TypeOK
<1>3. CASE Ack
  <2>1. tx_buffer' \in Seq(Chunks) /\ Len(tx_buffer') = Len(tx_buffer) - 1
    BY <1>3, HeadTailProperties DEF Ack, TypeOK
  <2>2. Len(tx_buffer') <= TX_CAPACITY
    <3>1. Len(tx_buffer) \in Nat /\ Len(tx_buffer) <= TX_CAPACITY
      BY LenProperties DEF TypeOK
    <3> QED
      BY <2>1, <3>1, Bounds
  <2> QED
    BY <1>3, <2>1, <2>2 DEF Ack, Packet, TypeOK
<1>4. CASE Fin \/ Rst \/ OtherPacket \/ Timer
  BY <1>4 DEF Fin, Rst, OtherPacket, Timer, Packet, TypeOK
<1>5. CASE Uplink
  <2>1. FlushDownlink(downlink_pending) /\ uplink_tx \in Streams
    BY <1>5 DEF Uplink, TypeOK
  <2>2. /\ tx_buffer' \in Seq(Chunks) /\ Len(tx_buffer') <= TX_CAPACITY
        /\ downlink_pending' \in Seq(Chunks)
    BY <2>1, FlushType DEF TypeOK
  <2>3. CASE rx_buffer = <<>>
    BY <1>5, <2>2, <2>3 DEF Uplink, Processing, StillActive, TypeOK
  <2>4. CASE rx_buffer # <<>>
    <3>1. PICK n \in 1..Len(rx_buffer) :
            /\ Extract(n) /\ state' = "Relaying"
            /\ channel' = [channel EXCEPT ![uplink_tx] = Append(@, Payload(n))]
      BY <1>5, <2>4 DEF Uplink
    <3>2. /\ rx_buffer' \in Seq(Chunks) /\ Len(rx_buffer') <= RX_CAPACITY
          /\ Payload(n) \in Seq(Chunks)
      BY <3>1, ExtractType
    <3>3. /\ channel[uplink_tx] \in Seq(Seq(Chunks))
          /\ Len(channel[uplink_tx]) < RELAY_CHANNEL_CAPACITY
          /\ RELAY_CHANNEL_CAPACITY \in Nat /\ Len(channel[uplink_tx]) \in Nat
      BY <1>5, <2>1, TcpSlotAssumption, LenProperties DEF Uplink, TypeOK
    <3>4. /\ Append(channel[uplink_tx], Payload(n)) \in Seq(Seq(Chunks))
          /\ Len(Append(channel[uplink_tx], Payload(n))) = Len(channel[uplink_tx]) + 1
      BY <3>2, <3>3, AppendProperties
    <3>5. channel' \in [Streams -> Seq(Seq(Chunks))]
      BY <2>1, <3>1, <3>4 DEF TypeOK
    <3>6. ASSUME NEW r \in Streams PROVE Len(channel'[r]) <= RELAY_CHANNEL_CAPACITY
      <4>1. CASE r = uplink_tx
        <5>1. channel'[r] = Append(channel[uplink_tx], Payload(n))
          BY <2>1, <3>1, <4>1 DEF TypeOK
        <5> QED
          BY <3>3, <3>4, <5>1
      <4>2. CASE r # uplink_tx
        BY <3>1, <4>2 DEF TypeOK
      <4> QED
        BY <4>1, <4>2
    <3> QED
      BY <1>5, <2>2, <3>1, <3>2, <3>5, <3>6 DEF Uplink, Processing, StillActive, TypeOK, States
  <2> QED
    BY <2>3, <2>4
<1>6. CASE UplinkFull
  <2>1. /\ tx_buffer' \in Seq(Chunks) /\ Len(tx_buffer') <= TX_CAPACITY
        /\ downlink_pending' \in Seq(Chunks)
    BY <1>6, FlushType DEF TypeOK, UplinkFull
  <2> QED
    BY <1>6, <2>1 DEF UplinkFull, Processing, StillActive, TypeOK
<1>7. CASE UplinkClosed
  BY <1>7, RearmType DEF UplinkClosed, Processing, StillActive, TypeOK, States
<1>8. CASE NoPayload
  <2>1. /\ tx_buffer' \in Seq(Chunks) /\ Len(tx_buffer') <= TX_CAPACITY
        /\ downlink_pending' \in Seq(Chunks)
    BY <1>8, FlushType DEF TypeOK, NoPayload
  <2>2. rx_buffer' \in Seq(Chunks) /\ Len(rx_buffer') <= RX_CAPACITY
    BY <1>8, ExtractType DEF NoPayload, TypeOK
  <2> QED
    BY <1>8, <2>1, <2>2 DEF NoPayload, NotEstablished, Processing, StillActive, TypeOK
<1>9. CASE Refused
  BY <1>9, RearmType DEF Refused, NotEstablished, Processing, StillActive, TypeOK, States
<1>10. ASSUME NEW n \in 1..Len(rx_buffer), Opening(n)
       PROVE  /\ rx_buffer' \in Seq(Chunks) /\ Len(rx_buffer') <= RX_CAPACITY
              /\ tx_buffer' \in Seq(Chunks) /\ Len(tx_buffer') <= TX_CAPACITY
              /\ downlink_pending' \in Seq(Chunks) /\ Payload(n) \in Seq(Chunks)
              /\ loop' = "select" /\ conn \in Streams
  <2>1. Extract(n) /\ FlushDownlink(downlink_pending) /\ loop' = "select" /\ conn \in Streams
    BY <1>10 DEF Opening, NotEstablished, Processing, IsActive, SlotInv
  <2> QED
    BY <2>1, ExtractType, FlushType DEF TypeOK
<1>11. CASE BufferPayload
  <2>1. PICK n \in 1..Len(rx_buffer) : Opening(n) /\ BufferUplink(Payload(n))
    BY <1>11 DEF BufferPayload
  <2>2. uplink_buffer' \in Seq(Chunks) /\ Len(uplink_buffer') <= MAX_UPLINK_BUFFER
    BY <2>1, <1>10, BufferType
  <2> QED
    BY <1>11, <2>1, <1>10, <2>2 DEF BufferPayload, StillActive, TypeOK
<1>12. CASE OpenInline
  <2>1. PICK n \in 1..Len(rx_buffer) : Opening(n) /\ SpawnRelay(conn, <<Payload(n)>>)
    BY <1>12 DEF OpenInline
  <2>2. <<Payload(n)>> \in Seq(Seq(Chunks)) /\ Len(<<Payload(n)>>) <= 1
    BY <2>1, <1>10
  <2>3. /\ uplink_tx' \in Streams \cup {None} /\ state' \in States
        /\ relay' \in [Streams -> {"none", "run", "shutting", "done"}]
        /\ channel' \in [Streams -> Seq(Seq(Chunks))]
        /\ \A s \in Streams : Len(channel'[s]) <= RELAY_CHANNEL_CAPACITY
    BY <2>1, <2>2, <1>10, SpawnType
  <2>4. fake_ip' \in BOOLEAN /\ refcount' \in Int
    BY <1>12, AcquireType DEF OpenInline
  <2> QED
    BY <1>12, <2>1, <1>10, <2>3, <2>4 DEF OpenInline, StillActive, TypeOK
<1>13. CASE OpenInlineFails
  <2>1. PICK n \in 1..Len(rx_buffer) : Opening(n)
    BY <1>13 DEF OpenInlineFails
  <2> QED
    BY <1>13, <2>1, <1>10 DEF OpenInlineFails, StillActive, TypeOK, States
<1>14. CASE OpenSpawned
  <2>1. PICK n \in 1..Len(rx_buffer) : Opening(n) /\ BufferUplink(Payload(n))
    BY <1>14 DEF OpenSpawned
  <2>2. uplink_buffer' \in Seq(Chunks) /\ Len(uplink_buffer') <= MAX_UPLINK_BUFFER
    BY <2>1, <1>10, BufferType
  <2>3. handshakes' \subseteq [epoch : Nat, conn : Streams]
    <3>1. [epoch |-> conn_epoch + 1, conn |-> conn] \in [epoch : Nat, conn : Streams]
      BY <2>1, <1>10 DEF TypeOK
    <3> QED
      BY <1>14, <3>1 DEF OpenSpawned, TypeOK
  <2>4. fake_ip' \in BOOLEAN /\ refcount' \in Int /\ conn_epoch' \in Nat
    BY <1>14, AcquireType DEF OpenSpawned, TypeOK
  <2> QED
    BY <1>14, <2>1, <1>10, <2>2, <2>3, <2>4 DEF OpenSpawned, StillActive, TypeOK, States
<1>15. ASSUME NEW h \in handshakes, HandshakeStale(h) PROVE TypeOK'
  BY <1>15 DEF HandshakeStale, TypeOK
<1>16. ASSUME NEW h \in handshakes, HandshakeOk(h) PROVE TypeOK'
  <2> DEFINE first == IF uplink_buffer = <<>> THEN <<>> ELSE <<uplink_buffer>>
  <2>1. first \in Seq(Seq(Chunks)) /\ Len(first) <= 1
    BY EmptySeq DEF TypeOK
  <2>2. h.conn \in Streams /\ SpawnRelay(h.conn, first)
    BY <1>16 DEF HandshakeOk, TypeOK
  <2>3. /\ uplink_tx' \in Streams \cup {None} /\ state' \in States
        /\ relay' \in [Streams -> {"none", "run", "shutting", "done"}]
        /\ channel' \in [Streams -> Seq(Seq(Chunks))]
        /\ \A s \in Streams : Len(channel'[s]) <= RELAY_CHANNEL_CAPACITY
    BY <2>1, <2>2, SpawnType
  <2>4. uplink_buffer' \in Seq(Chunks) /\ Len(uplink_buffer') <= MAX_UPLINK_BUFFER
    BY <1>16, EmptySeq, TcpSlotAssumption DEF HandshakeOk
  <2> QED
    BY <1>16, <2>3, <2>4 DEF HandshakeOk, TypeOK
<1>17. ASSUME NEW h \in handshakes, HandshakeErr(h) PROVE TypeOK'
  BY <1>17, RearmType DEF HandshakeErr, TypeOK, States
<1>18. ASSUME GlobalRx
       PROVE  global_rx' \in Seq(Messages) /\ Head(global_rx) \in Messages
  BY <1>18, HeadTailProperties DEF GlobalRx, TypeOK
<1>19. CASE RemoteEof
  BY <1>19, <1>18, RearmType DEF RemoteEof, TypeOK, States
<1>20. CASE RemoteLate
  BY <1>20, <1>18 DEF RemoteLate, TypeOK
<1>21. CASE RemoteData
  <2>1. Head(global_rx).chunk \in Chunks
    BY <1>21, <1>18 DEF RemoteData, Messages
  <2>2. Append(downlink_pending, Head(global_rx).chunk) \in Seq(Chunks)
    BY <2>1, AppendProperties DEF TypeOK
  <2>3. /\ tx_buffer' \in Seq(Chunks) /\ Len(tx_buffer') <= TX_CAPACITY
        /\ downlink_pending' \in Seq(Chunks)
    BY <1>21, <2>2, FlushType DEF RemoteData
  <2> QED
    BY <1>21, <1>18, <2>3 DEF RemoteData, TypeOK, States
<1>22. CASE Reap
  BY <1>22, RearmType DEF Reap, TypeOK, States
<1>23. ASSUME NEW r \in Streams, RelayUp(r) PROVE TypeOK'
  <2>1. /\ Head(channel[r]) \in Seq(Chunks) /\ Tail(channel[r]) \in Seq(Seq(Chunks))
        /\ Len(Tail(channel[r])) = Len(channel[r]) - 1
    BY <1>23, HeadTailProperties DEF RelayUp, TypeOK
  <2>2. Len(Tail(channel[r])) <= RELAY_CHANNEL_CAPACITY
    <3>1. Len(channel[r]) <= RELAY_CHANNEL_CAPACITY /\ Len(channel[r]) \in Nat
      BY LenProperties DEF TypeOK
    <3> QED
      BY <2>1, <3>1, Bounds
  <2>3. /\ channel' \in [Streams -> Seq(Seq(Chunks))]
        /\ \A s \in Streams : Len(channel'[s]) <= RELAY_CHANNEL_CAPACITY
    BY <1>23, <2>1, <2>2 DEF RelayUp, TypeOK
  <2>4. written[r] \o Head(channel[r]) \in Seq(Chunks)
    BY <2>1, ConcatProperties DEF TypeOK
  <2>5. written' \in [Streams -> Seq(Chunks)]
    BY <1>23, <2>4 DEF RelayUp, TypeOK
  <2>6. relay' \in [Streams -> {"none", "run", "shutting", "done"}]
    BY <1>23 DEF RelayUp, TypeOK
  <2> QED
    BY <1>23, <2>3, <2>5, <2>6 DEF RelayUp, TypeOK
<1>24. ASSUME NEW r \in Streams, NEW eof, NEW chunk, GlobalSend(r, eof, chunk),
              [stream |-> r, eof |-> eof, chunk |-> chunk] \in Messages
       PROVE  global_rx' \in Seq(Messages)
  BY <1>24, AppendProperties DEF GlobalSend, TypeOK
<1>25. ASSUME NEW r \in Streams, RelayDown(r) PROVE TypeOK'
  <2>1. read[r] + 1 \in 0..MAX_READ /\ <<r, read[r] + 1>> \in Chunks
    <3>1. read[r] \in 0..MAX_READ /\ read[r] < MAX_READ
      BY <1>25 DEF RelayDown, TypeOK
    <3>2. read[r] + 1 \in 0..MAX_READ /\ read[r] + 1 \in 1..(MAX_SENT + MAX_READ)
      BY <3>1, Bounds
    <3> QED
      BY <3>2 DEF Chunks
  <2>2. [stream |-> r, eof |-> FALSE, chunk |-> <<r, read[r] + 1>>] \in Messages
    BY <2>1 DEF Messages
  <2> QED
    BY <1>24, <1>25, <2>1, <2>2 DEF RelayDown, TypeOK
<1>26. ASSUME NEW r \in Streams, RelayEof(r) PROVE TypeOK'
  <2>1. [stream |-> r, eof |-> TRUE, chunk |-> <<>>] \in Messages
    BY DEF Messages
  <2> QED
    BY <1>24, <1>26, <2>1 DEF RelayEof, TypeOK
<1>27. ASSUME NEW r \in Streams, RelayLocalClosed(r) \/ RelayQuit(r) \/ RelayShutdown(r)
       PROVE  TypeOK'
  BY <1>27 DEF RelayLocalClosed, RelayQuit, RelayShutdown, TypeOK
<1>28. CASE UNCHANGED vars
  BY <1>28 DEF vars, TypeOK
<1> QED
  BY <1>1, <1>2, <1>3, <1>4, <1>5, <1>6, <1>7, <1>8, <1>9, <1>11, <1>12, <1>13, <1>14,
     <1>15, <1>16, <1>17, <1>19, <1>20, <1>21, <1>22, <1>23, <1>25, <1>26, <1>27, <1>28
     DEF Next, AppPacket, ProcessDirtyRelay, HandshakeDone, RelayTask

-----------------------------------------------------------------------------
(* Epochs, the uplink sender and the fake-IP reference.                    *)

Control == SlotInv /\ OneHandshake /\ UplinkIsOwn /\ FakeIpBalanced

\* rearm_socket makes every handshake in flight stale, whatever the slot was doing.
LEMMA RearmControl ==
  ASSUME IInv, Rearm, handshakes' \subseteq handshakes, conn' = conn
  PROVE  Control'
<1>1. \A h \in handshakes' : h.epoch \in Nat /\ h.epoch < conn_epoch'
  BY DEF IInv, SlotInv, TypeOK, Rearm
<1>2. conn_epoch' \in Nat /\ tcp_state' = "Listen" /\ state' = "Listening" /\ uplink_tx' = None
  BY DEF Rearm, IInv, TypeOK
<1>3. SlotInv'
  BY <1>1, <1>2 DEF SlotInv
<1>4. OneHandshake'
  BY <1>1, <1>2 DEF OneHandshake
<1>5. UplinkIsOwn'
  BY <1>2 DEF UplinkIsOwn
<1>6. FakeIpBalanced'
  BY DEF IInv, FakeIpBalanced, TypeOK, Rearm
<1> QED
  BY <1>3, <1>4, <1>5, <1>6 DEF Control

\* A step that leaves the SocketCtx's control fields alone.
LEMMA QuietControl ==
  ASSUME IInv, tcp_state' = "Listen" <=> tcp_state = "Listen",
         UNCHANGED <<state, uplink_tx, conn_epoch, fake_ip, handshakes, conn, refcount>>,
         \A r \in Streams : relay[r] # "none" => relay'[r] # "none"
  PROVE  Control'
<1>1. SlotInv' /\ FakeIpBalanced'
  BY DEF IInv, SlotInv, FakeIpBalanced
<1>2. OneHandshake'
  BY DEF IInv, OneHandshake
<1>3. UplinkIsOwn'
  BY DEF IInv, UplinkIsOwn, TypeOK
<1> QED
  BY <1>1, <1>2, <1>3 DEF Control

\* Starting a relay for the connection the slot serves.
LEMMA SpawnControl ==
  ASSUME IInv, NEW first, conn \in Streams, SpawnRelay(conn, first),
         UNCHANGED <<tcp_state, conn_epoch, conn>>, tcp_state # "Listen",
         handshakes' \subseteq handshakes,
         \A h \in handshakes' : h.epoch # conn_epoch,
         refcount' = IF fake_ip' THEN 1 ELSE 0,
         fake_ip' <=> conn \in FakeTargets
  PROVE  Control'
<1>1. state' = "Relaying" /\ uplink_tx' = conn /\ conn # None /\ relay'[conn] = "run"
  BY DEF SpawnRelay, Streams, None, IInv, TypeOK
<1>2. SlotInv'
  BY <1>1 DEF IInv, SlotInv
<1>3. OneHandshake'
  BY <1>1 DEF OneHandshake
<1>4. UplinkIsOwn' /\ FakeIpBalanced'
  BY <1>1 DEF UplinkIsOwn, FakeIpBalanced
<1> QED
  BY <1>2, <1>3, <1>4 DEF Control

\* A slot that is neither waiting nor relaying holds no reference and is waited for
\* by no handshake of its epoch.
LEMMA FreshSlot ==
  ASSUME IInv, uplink_tx = None, state # "HandshakePending"
  PROVE  ~fake_ip /\ refcount = 0 /\ \A h \in handshakes : h.epoch # conn_epoch
<1>1. state \notin {"HandshakePending", "Relaying"}
  BY DEF IInv, SlotInv
<1>2. ~fake_ip /\ refcount = 0
  BY <1>1 DEF IInv, FakeIpBalanced
<1>3. \A h \in handshakes : h.epoch # conn_epoch
  BY DEF IInv, OneHandshake
<1> QED
  BY <1>2, <1>3

\* Every step keeps the control invariant.
LEMMA NextControl == IInv /\ [Next]_vars => Control'
<1> SUFFICES ASSUME IInv, [Next]_vars PROVE Control'
  OBVIOUS
<1> USE DEF sock, ctx, tasks, history
<1>1. CASE Syn
  <2>1. /\ state = "Listening" /\ uplink_tx = None /\ conn' \in Streams
        /\ tcp_state' # "Listen"
    BY <1>1, Bounds DEF Syn, IInv, SlotInv, TypeOK, Streams
  <2>2. SlotInv' /\ UplinkIsOwn' /\ FakeIpBalanced'
    BY <1>1, <2>1 DEF Syn, IInv, SlotInv, UplinkIsOwn, FakeIpBalanced
  <2>3. OneHandshake'
    BY <1>1, <2>1, FreshSlot DEF Syn, OneHandshake
  <2> QED
    BY <2>2, <2>3 DEF Control
<1>2. CASE Data \/ Ack \/ Fin \/ Rst \/ OtherPacket \/ Timer
  BY <1>2, QuietControl DEF Data, Ack, Fin, Rst, OtherPacket, Timer, IsActive
<1>3. CASE Uplink
  <2>1. state = "Relaying"
    BY <1>3 DEF Uplink, IInv, SlotInv
  <2>2. state' = state
    BY <1>3, <2>1 DEF Uplink
  <2> QED
    BY <1>3, <2>2, QuietControl DEF Uplink
<1>4. CASE UplinkFull \/ NoPayload \/ BufferPayload
  BY <1>4, QuietControl DEF UplinkFull, NoPayload, BufferPayload
<1>5. CASE UplinkClosed \/ Refused \/ Reap
  BY <1>5, RearmControl DEF UplinkClosed, Refused, Reap
<1>6. ASSUME NEW n \in 1..Len(rx_buffer), Opening(n)
      PROVE  conn \in Streams /\ uplink_tx = None /\ tcp_state # "Listen"
  BY <1>6 DEF Opening, NotEstablished, IsActive, IInv, SlotInv
<1>7. CASE OpenInline
  <2>1. PICK n \in 1..Len(rx_buffer) : Opening(n) /\ SpawnRelay(conn, <<Payload(n)>>)
    BY <1>7 DEF OpenInline
  <2>2. refcount = 0 /\ \A h \in handshakes : h.epoch # conn_epoch
    BY <1>6, <1>7, <2>1, FreshSlot DEF OpenInline
  <2>3. ~fake_ip
    BY <1>6, <1>7, <2>1, FreshSlot DEF OpenInline
  <2>4. (refcount' = IF fake_ip' THEN 1 ELSE 0) /\ (fake_ip' <=> conn \in FakeTargets)
    BY <1>7, <2>2, <2>3 DEF OpenInline, Acquire
  <2> QED
    BY <1>6, <1>7, <2>1, <2>2, <2>4, SpawnControl DEF OpenInline
<1>8. CASE OpenInlineFails
  <2>1. conn \in Streams /\ uplink_tx = None /\ tcp_state # "Listen"
    BY <1>6, <1>8 DEF OpenInlineFails
  <2>2. ~fake_ip /\ refcount = 0 /\ \A h \in handshakes : h.epoch # conn_epoch
    BY <1>8, <2>1, FreshSlot DEF OpenInlineFails
  <2>3. SlotInv' /\ UplinkIsOwn' /\ FakeIpBalanced'
    BY <1>8, <2>1, <2>2
       DEF OpenInlineFails, IInv, SlotInv, UplinkIsOwn, FakeIpBalanced
  <2>4. OneHandshake'
    BY <1>8, <2>2 DEF OpenInlineFails, OneHandshake
  <2> QED
    BY <2>3, <2>4 DEF Control
<1>9. CASE OpenSpawned
  <2> DEFINE h0 == [epoch |-> conn_epoch + 1, conn |-> conn]
  <2>1. conn \in Streams /\ uplink_tx = None /\ tcp_state # "Listen"
    BY <1>6, <1>9 DEF OpenSpawned
  <2>2. /\ state' = "HandshakePending" /\ conn_epoch' = conn_epoch + 1
        /\ handshakes' = handshakes \cup {h0}
        /\ UNCHANGED <<tcp_state, uplink_tx, conn, relay>>
    BY <1>9 DEF OpenSpawned
  <2>3. \A h \in handshakes : h.epoch \in Nat /\ h.epoch < conn_epoch + 1
    BY DEF IInv, SlotInv, TypeOK
  <2>4. SlotInv'
    BY <2>1, <2>2, <2>3 DEF IInv, SlotInv, TypeOK
  <2>5. OneHandshake'
    <3>1. h0 \in handshakes' /\ h0.epoch = conn_epoch' /\ h0.conn = conn'
      BY <2>2
    <3>2. {h \in handshakes' : h.epoch = conn_epoch'} = {h0}
      BY <2>2, <2>3, <3>1
    <3> QED
      BY <2>2, <3>1, <3>2 DEF OneHandshake
  <2>6. UplinkIsOwn'
    BY <2>1, <2>2 DEF UplinkIsOwn
  <2>7. FakeIpBalanced'
    <3>1. ~fake_ip /\ refcount = 0
      BY <1>9, <2>1, FreshSlot DEF OpenSpawned
    <3> QED
      BY <1>9, <2>2, <3>1 DEF OpenSpawned, Acquire, FakeIpBalanced
  <2> QED
    BY <2>4, <2>5, <2>6, <2>7 DEF Control
<1>10. ASSUME NEW h \in handshakes, HandshakeStale(h) PROVE Control'
  <2>1. SlotInv' /\ UplinkIsOwn' /\ FakeIpBalanced'
    BY <1>10 DEF HandshakeStale, IInv, SlotInv, UplinkIsOwn, FakeIpBalanced
  <2>2. OneHandshake'
    BY <1>10 DEF HandshakeStale, Stale, IInv, OneHandshake
  <2> QED
    BY <2>1, <2>2 DEF Control
<1>11. ASSUME NEW h \in handshakes, HandshakeOk(h) PROVE Control'
  <2>1. state = "HandshakePending" /\ h.epoch = conn_epoch
    BY <1>11 DEF HandshakeOk, Stale
  <2>2. PICK g \in {x \in handshakes : x.epoch = conn_epoch} :
          g.conn = conn /\ {x \in handshakes : x.epoch = conn_epoch} = {g}
    BY <2>1 DEF IInv, OneHandshake
  <2>3. h = g
    BY <2>1, <2>2
  <2>4. h.conn = conn /\ \A x \in handshakes' : x.epoch # conn_epoch
    BY <1>11, <2>2, <2>3 DEF HandshakeOk
  <2>5. tcp_state # "Listen" /\ conn \in Streams
    BY <2>1 DEF IInv, SlotInv
  <2>6. (refcount = IF fake_ip THEN 1 ELSE 0) /\ (fake_ip <=> conn \in FakeTargets)
    BY <2>1 DEF IInv, FakeIpBalanced
  <2> QED
    BY <1>11, <2>4, <2>5, <2>6, SpawnControl DEF HandshakeOk
<1>12. ASSUME NEW h \in handshakes, HandshakeErr(h) PROVE Control'
  BY <1>12, RearmControl DEF HandshakeErr
<1>13. CASE RemoteEof
  BY <1>13, RearmControl DEF RemoteEof
<1>14. CASE RemoteLate
  BY <1>14, QuietControl DEF RemoteLate
<1>15. CASE RemoteData
  <2>1. state' = state
    BY <1>15 DEF RemoteData, IInv, SlotInv
  <2> QED
    BY <1>15, <2>1, QuietControl DEF RemoteData
<1>16. ASSUME NEW r \in Streams, RelayTask(r) PROVE Control'
  BY <1>16, QuietControl
     DEF RelayTask, RelayUp, RelayLocalClosed, RelayDown, RelayEof, RelayQuit,
         RelayShutdown, IInv, TypeOK
<1>17. CASE UNCHANGED vars
  BY <1>17, QuietControl DEF vars
<1> QED
  BY <1>1, <1>2, <1>3, <1>4, <1>5, <1>7, <1>8, <1>9, <1>10, <1>11, <1>12, <1>13, <1>14,
     <1>15, <1>16, <1>17 DEF Next, AppPacket, ProcessDirtyRelay, HandshakeDone

\* IInv is inductive.
LEMMA Inductive == (Init => IInv) /\ (IInv /\ [Next]_vars => IInv')
<1>1. Init => IInv
  <2> SUFFICES ASSUME Init PROVE IInv
    OBVIOUS
  <2>1. SlotInv /\ OneHandshake /\ UplinkIsOwn /\ FakeIpBalanced
    BY DEF Init, SlotInv, OneHandshake, UplinkIsOwn, FakeIpBalanced
  <2> QED
    BY <2>1, InitType DEF IInv
<1>2. IInv /\ [Next]_vars => IInv'
  BY NextType, NextControl DEF IInv, Control
<1> QED
  BY <1>1, <1>2

-----------------------------------------------------------------------------
(* The dirty set.                                                          *)

\* NoLostWakeup is inductive by itself: whatever an arm adds to the rx buffer or to
\* the backlog, it marks the handle, and process_dirty_relay unmarks last.
LEMMA NextWakeup == NoLostWakeup /\ [Next]_vars => NoLostWakeup'
<1> SUFFICES ASSUME NoLostWakeup, [Next]_vars PROVE NoLostWakeup'
  OBVIOUS
<1> USE DEF NoLostWakeup, sock, ctx, tasks, history
<1>1. CASE AppPacket
  BY <1>1 DEF AppPacket, Packet, Syn, Data, Ack, Fin, Rst, OtherPacket
<1>2. CASE Timer
  BY <1>2 DEF Timer
<1>3. CASE ProcessDirtyRelay
  <2>1. StillActive
    BY <1>3 DEF ProcessDirtyRelay, Uplink, UplinkFull, UplinkClosed, NoPayload, Refused,
                BufferPayload, OpenInline, OpenInlineFails, OpenSpawned
  <2> QED
    BY <2>1 DEF StillActive
<1>4. CASE HandshakeDone
  <2>1. PICK h \in handshakes : HandshakeStale(h) \/ HandshakeOk(h) \/ HandshakeErr(h)
    BY <1>4 DEF HandshakeDone
  <2>2. CASE HandshakeStale(h)
    BY <2>2 DEF HandshakeStale
  <2>3. CASE HandshakeOk(h)
    BY <2>3 DEF HandshakeOk
  <2>4. CASE HandshakeErr(h)
    BY <2>4 DEF HandshakeErr, Rearm
  <2> QED
    BY <2>1, <2>2, <2>3, <2>4
<1>5. CASE RemoteEof \/ RemoteLate \/ RemoteData \/ Reap
  BY <1>5 DEF RemoteEof, RemoteLate, RemoteData, Reap, GlobalRx, Rearm
<1>6. ASSUME NEW r \in Streams, RelayTask(r) PROVE NoLostWakeup'
  BY <1>6 DEF RelayTask, RelayUp, RelayLocalClosed, RelayDown, RelayEof, RelayQuit,
              RelayShutdown
<1>7. CASE UNCHANGED vars
  BY <1>7 DEF vars
<1> QED
  BY <1>1, <1>2, <1>3, <1>4, <1>5, <1>6, <1>7 DEF Next

-----------------------------------------------------------------------------
\* The slot is well-typed and none of its buffers outgrows its capacity.
THEOREM TypeCorrect == Spec => []TypeOK
<1>1. IInv => TypeOK
  BY DEF IInv
<1> QED
  BY <1>1, Inductive, PTL DEF Spec

\* A slot waits for exactly the handshake its own connection started, for any
\* number of re-uses and of handshakes still in flight (conn_epoch).
THEOREM HandshakeUnique == Spec => []OneHandshake
<1>1. IInv => OneHandshake
  BY DEF IInv
<1> QED
  BY <1>1, Inductive, PTL DEF Spec

\* The uplink of a slot is always the stream of the connection it serves.
THEOREM UplinkAlwaysOwn == Spec => []UplinkIsOwn
<1>1. IInv => UplinkIsOwn
  BY DEF IInv
<1> QED
  BY <1>1, Inductive, PTL DEF Spec

\* Acquire and release of the slot's fake-IP reference balance on every path.
THEOREM FakeIpAlwaysBalanced == Spec => []FakeIpBalanced
<1>1. IInv => FakeIpBalanced
  BY DEF IInv
<1> QED
  BY <1>1, Inductive, PTL DEF Spec

\* The dirty set never misses a slot with work to do.
THEOREM WakeupNeverLost == Spec => []NoLostWakeup
<1>1. Init => NoLostWakeup
  BY DEF Init, NoLostWakeup
<1> QED
  BY <1>1, NextWakeup, PTL DEF Spec
=============================================================================
