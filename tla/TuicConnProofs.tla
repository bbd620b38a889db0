--------------------------- MODULE TuicConnProofs ---------------------------
(***************************************************************************)
(* TuicConn's safety for any number of tasks and connections.  Two live    *)
(* connections are excluded because a handshake runs only in the holder of *)
(* the mutex and only over a closed connection, which nothing reopens.     *)
(***************************************************************************)
EXTENDS TuicConn, TLAPS

Places == {"idle", "lock", "handshake", "open", "is_dead", "pump", "send"}

TypeOK ==
  /\ made \in Nat /\ conn \in 0..made
  /\ pc \in [Tasks -> Places] /\ my \in [Tasks -> Nat]
  /\ holder \in Tasks \cup {None}
  /\ readers \in Nat /\ permits \in Nat

\* A task in its handshake holds the mutex over a connection that is closed.
HandshakeAlone ==
  \A t \in Tasks : pc[t] = "handshake" => holder = t /\ ~Open(conn)

\* Nobody runs before the first connection is made.
NotStarted == made = 0 => \A t \in Tasks : pc[t] = "idle"

\* No permit is lost, on whichever connection its reader began.
PermitsExact == readers + permits = MAX_CONCURRENT_DOWNLINK_STREAMS

IInv == TypeOK /\ OneLiveConnection /\ HandshakeAlone /\ NotStarted /\ PermitsExact

LEMMA InitIInv == Init => IInv
<1> SUFFICES ASSUME Init PROVE IInv
  OBVIOUS
<1>1. TypeOK
  BY TuicAssumption DEF Init, TypeOK, Places
<1>2. OneLiveConnection
  BY DEF Init, OneLiveConnection
<1>3. HandshakeAlone
  BY DEF Init, HandshakeAlone
<1>4. PermitsExact
  BY TuicAssumption DEF Init, PermitsExact
<1>5. NotStarted
  BY DEF Init, NotStarted
<1> QED
  BY <1>1, <1>2, <1>3, <1>4, <1>5 DEF IInv

\* Steps that touch neither the connection nor the readers, and send the moving task
\* anywhere but into a handshake.
LEMMA OtherSteps ==
  ASSUME IInv, NEW t \in Tasks, NEW to \in Places, to # "handshake",
         pc' = [pc EXCEPT ![t] = to], my' \in [Tasks -> Nat], made > 0 \/ pc[t] # "idle",
         UNCHANGED <<conn, made, closed, holder, permits, readers>>
  PROVE  IInv'
<1>1. TypeOK'
  BY DEF IInv, TypeOK
<1>2. OneLiveConnection'
  BY DEF IInv, OneLiveConnection, Open
<1>3. HandshakeAlone'
  <2> SUFFICES ASSUME NEW u \in Tasks, pc'[u] = "handshake" PROVE holder' = u /\ ~Open(conn)'
    BY DEF HandshakeAlone
  <2>1. pc[u] = "handshake"
    BY DEF IInv, TypeOK
  <2> QED
    BY <2>1 DEF IInv, HandshakeAlone, Open
<1>4. PermitsExact'
  BY DEF IInv, PermitsExact
<1>5. NotStarted'
  BY DEF IInv, TypeOK, NotStarted
<1> QED
  BY <1>1, <1>2, <1>3, <1>4, <1>5 DEF IInv

\* Steps that leave the tasks and the mutex alone; connections may only close.
LEMMA IdleSteps ==
  ASSUME IInv, closed \subseteq closed', readers' \in Nat, permits' \in Nat,
         readers' + permits' = readers + permits, UNCHANGED <<conn, made, holder, pc, my>>
  PROVE  IInv'
<1>1. TypeOK'
  BY DEF IInv, TypeOK
<1>2. OneLiveConnection'
  BY DEF IInv, OneLiveConnection, Open
<1>3. HandshakeAlone'
  BY DEF IInv, HandshakeAlone, Open
<1>4. PermitsExact'
  BY DEF IInv, PermitsExact
<1>5. NotStarted'
  BY DEF IInv, NotStarted
<1> QED
  BY <1>1, <1>2, <1>3, <1>4, <1>5 DEF IInv

\* The first connection: no task is there to see it made.
LEMMA ConnectIInv == ASSUME IInv, made = 0, Connect PROVE IInv'
<1>1. conn' = 1 /\ made' = 1 /\ UNCHANGED <<closed, holder, pc, my, readers, permits>>
  BY DEF Connect, mutex
<1>2. TypeOK'
  BY <1>1 DEF IInv, TypeOK
<1>3. OneLiveConnection'
  BY <1>1 DEF OneLiveConnection
<1>4. HandshakeAlone'
  BY <1>1 DEF IInv, NotStarted, HandshakeAlone
<1>5. NotStarted' /\ PermitsExact'
  BY <1>1 DEF IInv, NotStarted, PermitsExact
<1> QED
  BY <1>2, <1>3, <1>4, <1>5 DEF IInv

\* Nobody else is in a handshake when the mutex is free.
LEMMA ReconnectIInv == ASSUME IInv, NEW t \in Tasks, Reconnect(t) PROVE IInv'
<1>1. holder = None /\ ~Open(conn) /\ pc[t] = "lock" /\ holder' = t /\ pc' = [pc EXCEPT ![t] = "handshake"]
      /\ UNCHANGED <<conn, made, closed, my, permits, readers>>
  BY DEF Reconnect, Granted
<1>2. TypeOK'
  BY <1>1 DEF IInv, TypeOK, Places
<1>3. OneLiveConnection'
  BY <1>1 DEF IInv, OneLiveConnection, Open
<1>4. HandshakeAlone'
  <2> SUFFICES ASSUME NEW u \in Tasks, pc'[u] = "handshake" PROVE holder' = u /\ ~Open(conn)'
    BY DEF HandshakeAlone
  <2>1. pc[u] # "handshake"
    BY <1>1, TuicAssumption DEF IInv, HandshakeAlone, Tasks
  <2>2. u = t
    BY <1>1, <2>1 DEF IInv, TypeOK
  <2> QED
    BY <1>1, <2>2 DEF Open
<1>5. PermitsExact'
  BY <1>1 DEF IInv, PermitsExact
<1>6. NotStarted'
  BY <1>1 DEF IInv, NotStarted
<1> QED
  BY <1>2, <1>3, <1>4, <1>5, <1>6 DEF IInv

\* The new connection replaces a closed one; only its maker was in a handshake.
LEMMA HandshakeOkIInv == ASSUME IInv, NEW t \in Tasks, HandshakeOk(t) PROVE IInv'
<1>1. /\ pc[t] = "handshake" /\ made' = made + 1 /\ conn' = made + 1 /\ holder' = None
      /\ my' = [my EXCEPT ![t] = made + 1] /\ pc' = [pc EXCEPT ![t] = Ready(t)]
      /\ UNCHANGED <<closed, permits, readers>>
  BY DEF HandshakeOk
<1>2. Ready(t) \in Places /\ Ready(t) # "handshake"
  BY DEF Ready, Places
<1>3. holder = t /\ ~Open(conn)
  BY <1>1 DEF IInv, HandshakeAlone
<1>4. TypeOK'
  BY <1>1, <1>2 DEF IInv, TypeOK
<1>5. OneLiveConnection'
  <2> SUFFICES ASSUME NEW c \in 1..(made + 1), c \notin closed PROVE c = made + 1
    BY <1>1 DEF OneLiveConnection, Open
  <2>1. c \in 1..made => c = conn
    BY DEF IInv, OneLiveConnection, Open
  <2> QED
    BY <2>1, <1>3 DEF IInv, TypeOK, Open
<1>6. HandshakeAlone'
  <2> SUFFICES ASSUME NEW u \in Tasks, pc'[u] = "handshake" PROVE FALSE
    BY DEF HandshakeAlone
  <2>1. u # t /\ pc[u] = "handshake"
    BY <1>1, <1>2 DEF IInv, TypeOK
  <2> QED
    BY <2>1, <1>3 DEF IInv, HandshakeAlone
<1>7. PermitsExact'
  BY <1>1 DEF IInv, PermitsExact
<1>8. NotStarted'
  BY <1>1 DEF IInv, TypeOK, NotStarted
<1> QED
  BY <1>4, <1>5, <1>6, <1>7, <1>8 DEF IInv

\* A failed handshake leaves the closed connection in place and frees the mutex.
LEMMA HandshakeErrIInv == ASSUME IInv, NEW t \in Tasks, HandshakeErr(t) PROVE IInv'
<1>1. /\ pc[t] = "handshake" /\ holder' = None /\ pc' = [pc EXCEPT ![t] = Failed(t)]
      /\ UNCHANGED <<conn, made, closed, my, permits, readers>>
  BY DEF HandshakeErr
<1>2. Failed(t) \in Places /\ Failed(t) # "handshake"
  BY DEF Failed, Places
<1>3. holder = t
  BY <1>1 DEF IInv, HandshakeAlone
<1>4. TypeOK'
  BY <1>1, <1>2 DEF IInv, TypeOK
<1>5. OneLiveConnection'
  BY <1>1 DEF IInv, OneLiveConnection, Open
<1>6. HandshakeAlone'
  <2> SUFFICES ASSUME NEW u \in Tasks, pc'[u] = "handshake" PROVE FALSE
    BY DEF HandshakeAlone
  <2>1. u # t /\ pc[u] = "handshake"
    BY <1>1, <1>2 DEF IInv, TypeOK
  <2> QED
    BY <2>1, <1>3 DEF IInv, HandshakeAlone
<1>7. PermitsExact'
  BY <1>1 DEF IInv, PermitsExact
<1>8. NotStarted'
  BY <1>1 DEF IInv, NotStarted
<1> QED
  BY <1>4, <1>5, <1>6, <1>7, <1>8 DEF IInv

LEMMA NextIInv == ASSUME IInv, [Next]_vars PROVE IInv'
<1>1. ASSUME NEW t \in Tasks, Begin(t) PROVE IInv'
  BY <1>1, OtherSteps DEF Begin, IInv, TypeOK, Places
<1>2. ASSUME NEW t \in Tasks, LiveConn(t) PROVE IInv'
  <2>1. Ready(t) \in Places /\ Ready(t) # "handshake"
    BY DEF Ready, Places
  <2>2. conn \in Nat /\ my' \in [Tasks -> Nat]
    BY <1>2 DEF LiveConn, IInv, TypeOK
  <2> QED
    BY <1>2, <2>1, <2>2, OtherSteps DEF LiveConn, Granted
<1>3. ASSUME NEW t \in Tasks, OpenErr(t) PROVE IInv'
  <2>1. Failed(t) \in Places /\ Failed(t) # "handshake"
    BY DEF Failed, Places
  <2> QED
    BY <1>3, <2>1, OtherSteps DEF OpenErr, IInv, TypeOK
<1>4. ASSUME NEW t \in Tasks, IsDead(t) \/ OpenOk(t) PROVE IInv'
  <2>1. pc' = [pc EXCEPT ![t] = "idle"] /\ pc[t] # "idle" /\ my' = my
        /\ UNCHANGED <<conn, made, closed, holder, permits, readers>>
    BY <1>4 DEF IsDead, OpenOk, Granted, mutex
  <2> QED
    BY <2>1, OtherSteps DEF IInv, TypeOK, Places
<1>5. ASSUME NEW t \in Tasks, Reconnect(t) \/ HandshakeOk(t) \/ HandshakeErr(t) PROVE IInv'
  BY <1>5, ReconnectIInv, HandshakeOkIInv, HandshakeErrIInv
<1>6. CASE ReadDatagram \/ SendDownlink \/ PumpBreak \/ HeartbeatFails
  <2>1. Driver \in Tasks
    BY DEF Tasks
  <2>2. my' = my /\ pc[Driver] # "idle" /\ UNCHANGED <<conn, made, closed, holder, permits, readers>>
    BY <1>6 DEF ReadDatagram, SendDownlink, PumpBreak, HeartbeatFails, mutex
  <2>3. \E to \in {"send", "pump", "idle"} : pc' = [pc EXCEPT ![Driver] = to]
    BY <1>6 DEF ReadDatagram, SendDownlink, PumpBreak, HeartbeatFails
  <2> QED
    BY <2>1, <2>2, <2>3, OtherSteps DEF IInv, TypeOK, Places
<1>7. CASE AcceptUni
  BY <1>7, IdleSteps DEF AcceptUni, mutex, IInv, TypeOK
<1>8. CASE ReaderSends \/ ReaderFails
  BY <1>8, IdleSteps DEF ReaderSends, ReaderFails, mutex, IInv, TypeOK
<1>9. CASE SendUdpViaStream \/ WriteDone \/ WriteFails \/ RecvDownlink
  BY <1>9, IdleSteps
     DEF SendUdpViaStream, WriteDone, WriteFails, RecvDownlink, mutex, IInv, TypeOK
<1>10. ASSUME NEW c \in 1..made, Close(c) PROVE IInv'
  BY <1>10, IdleSteps DEF Close, mutex, IInv, TypeOK
<1>11. CASE UNCHANGED vars
  BY <1>11, IdleSteps DEF vars, mutex, IInv, TypeOK
<1>12. CASE (\E env \in {"reality", "failover", "other"} : Start(env)) \/ StartAborts
  BY <1>12, IdleSteps DEF Start, StartAborts, mutex, IInv, TypeOK
<1>13. CASE StartTuic \/ StartFailover
  BY <1>13, ConnectIInv DEF StartTuic, StartFailover
<1> QED
  BY <1>1, <1>2, <1>3, <1>4, <1>5, <1>6, <1>7, <1>8, <1>9, <1>10, <1>11, <1>12, <1>13
     DEF Next, Steps

\* Whichever task reconnects, at most one connection is live: the mutex is held over
\* the whole handshake (live_conn, tuic.rs:839).
THEOREM OneLiveConnectionHolds == Spec => []OneLiveConnection
<1>1. IInv => OneLiveConnection
  BY DEF IInv
<1> QED
  BY <1>1, InitIInv, NextIInv, PTL DEF Spec

\* The readers of all connections together stay within the one semaphore start_udp
\* makes (tuic.rs:957).
THEOREM StreamsBoundedHolds == Spec => []StreamsBounded
<1>1. IInv => StreamsBounded
  BY TuicAssumption DEF IInv, TypeOK, PermitsExact, StreamsBounded
<1> QED
  BY <1>1, InitIInv, NextIInv, PTL DEF Spec
=============================================================================
