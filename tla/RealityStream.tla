--------------------------- MODULE RealityStream ---------------------------
(***************************************************************************)
(* RealityStream (src/reality_upstream.rs) from the handshake that opens   *)
(* it to its end, as the relay task run_relay (src/client_tun.rs) drives   *)
(* it: records of application data with the VLESS response header before   *)
(* them, KeyUpdate, alerts, and sealed records that wait in write_pending  *)
(* for room in the TCP send buffer.                                        *)
(*                                                                         *)
(* The relay is one task.  In "select" it waits for a payload of the event *)
(* loop or for the stream; "reading" is inside poll_read's loop, "writing" *)
(* inside write_all, "sending" in back_tx.send.  What it is not doing does *)
(* not happen: while it writes nothing is read.                            *)
(*                                                                         *)
(* Payload is counted in units: a unit of downlink data is its position    *)
(* after the response header, whose units are 0 and below.                 *)
(***************************************************************************)
EXTENDS RealityHandshake

CONSTANTS MAX_PLAINTEXT,   \* units of payload in one record
          PayloadSizes,    \* units in one payload of the event loop
          MAX_UP,          \* bound: units the event loop sends
          MAX_DOWN,        \* bound: units the server returns
          MAX_POST,        \* bound: records without payload
          HEADER,          \* units of the VLESS response header
          C2S_CAPACITY     \* the TCP send buffer, in pieces

VARIABLES
  recv_keys, send_keys, server_ap_secret, client_ap_secret,
  staging, stripped, plaintext_out, write_pending,
  relay, payload, chunk, c_fin,     \* run_relay; its FIN
  s_pos, s_post, s_eof,             \* the server: units and messages sent, FIN seen
  up_sent, up_got, down_got, eof    \* history: what either side put in and got out

keyvars == <<recv_keys, send_keys, server_ap_secret, client_ap_secret>>
inbound == <<staging, stripped, plaintext_out>>
hist    == <<up_sent, up_got, down_got, eof>>
svars   == <<keyvars, inbound, write_pending, relay, payload, chunk, c_fin, s_pos, s_post,
             s_eof, hist>>
hsOnly  == <<conf, phase, client, s_role, s_transcript, s_hs, s_flight, s_app>>
vars    == <<hvars, svars>>

SInit ==
  /\ recv_keys = NoKeys /\ send_keys = NoKeys
  /\ server_ap_secret = NoKeys.secret /\ client_ap_secret = NoKeys.secret
  /\ staging = <<>> /\ stripped = FALSE /\ plaintext_out = <<>> /\ write_pending = <<>>
  /\ relay = "none" /\ payload = <<>> /\ chunk = <<>> /\ c_fin = FALSE
  /\ s_pos = 0 /\ s_post = 0 /\ s_eof = FALSE
  /\ up_sent = 0 /\ up_got = <<>> /\ down_got = <<>> /\ eof = FALSE

-----------------------------------------------------------------------------
(* The client *)

\* open_tcp after establish: RealityStream::new with the keys, the send_keys that
\* sealed the VLESS request, and the bytes read beyond the handshake (raw).  drive's
\* locals are gone.
New ==
  /\ phase = "open" /\ phase' = "stream" /\ relay' = "select"
  /\ recv_keys' = RecordKeys(app.s_ap) /\ send_keys' = app.send_keys
  /\ server_ap_secret' = app.s_ap /\ client_ap_secret' = app.c_ap
  /\ transcript' = <<>> /\ hs' = NoHs /\ recv' = NoKeys /\ reasm' = <<>> /\ msgs' = <<>>
  /\ app' = NoApp
  /\ UNCHANGED <<conf, raw, cert_verified, s2c, c2s, s_closed, broken, server, inbound,
                 write_pending, payload, chunk, c_fin, s_pos, s_post, s_eof, hist>>

\* poll_flush_pending writes as many pieces as the socket takes.
Room(n) == IF Len(c2s) + n <= C2S_CAPACITY THEN n
           ELSE IF Len(c2s) < C2S_CAPACITY THEN C2S_CAPACITY - Len(c2s) ELSE 0
Written(pending) == c2s \o SubSeq(pending, 1, Room(Len(pending)))
Unsent(pending)  == SubSeq(pending, Room(Len(pending)) + 1, Len(pending))

\* One round of poll_read's loop.  From "select" it needs a waker: bytes or an end to
\* read, or room for a pending record.
Polled ==
  \/ relay = "reading"
  \/ /\ relay = "select"
     /\ s2c # <<>> \/ s_closed \/ broken \/ Whole \/ Room(Len(write_pending)) > 0

\* Step 0 of a round, when the flush does not fail.
Flushing ==
  /\ Polled /\ (write_pending = <<>> \/ ~broken)
  /\ c2s' = Written(write_pending)

FlushError ==
  /\ Polled /\ write_pending # <<>> /\ broken
  /\ relay' = "shutdown"
  /\ UNCHANGED <<hvars, keyvars, inbound, write_pending, payload, chunk, c_fin, s_pos, s_post,
                 s_eof, hist>>

\* Step 1: hand over what is decoded.
Deliver ==
  /\ Flushing /\ plaintext_out # <<>>
  /\ relay' = "sending" /\ chunk' = plaintext_out /\ plaintext_out' = <<>>
  /\ write_pending' = Unsent(write_pending)
  /\ UNCHANGED <<hsOnly, raw, s2c, s_closed, broken, s_phase, s_send, s_recv, keyvars, staging,
                 stripped, payload, c_fin, s_pos, s_post, s_eof, hist>>

\* Step 2: a whole record that opens.
Decoding == Flushing /\ plaintext_out = <<>> /\ Whole /\ Opens(recv_keys, Record)

\* VlessResponseStripper::strip: nothing is consumed before the whole header, whose
\* length its second byte tells, is there.
HeaderWhole(buf) == Len(buf) >= HEADER
Strip(buf)       == SubSeq(buf, HEADER + 1, Len(buf))

\* absorb_app: the response header is stripped once, from what has accumulated.
DecodeData ==
  /\ Decoding /\ Record.inner = "application_data"
  /\ relay' = "reading" /\ raw' = Rest /\ recv_keys' = Advance(recv_keys)
  /\ LET all == staging \o Record.content
     IN  IF stripped
         THEN plaintext_out' = Record.content /\ UNCHANGED <<staging, stripped>>
         ELSE IF HeaderWhole(all)
         THEN stripped' = TRUE /\ staging' = <<>> /\ plaintext_out' = Strip(all)
         ELSE staging' = all /\ UNCHANGED <<stripped, plaintext_out>>
  /\ write_pending' = Unsent(write_pending)
  /\ UNCHANGED <<hsOnly, s2c, s_closed, broken, s_phase, s_send, s_recv, send_keys,
                 server_ap_secret, client_ap_secret, payload, chunk, c_fin, s_pos, s_post, s_eof,
                 hist>>

\* The answer to a KeyUpdate, under the current sending key.
Reply == Sealed(send_keys, "handshake", <<"KeyUpdate">>)

\* Mutant: the sending direction is rotated before the answer is sealed.
KeyUpdateNewKey(requested) ==
  /\ server_ap_secret' = NextApplicationTrafficSecret(server_ap_secret)
  /\ recv_keys' = RecordKeys(server_ap_secret')
  /\ IF requested
     THEN /\ client_ap_secret' = NextApplicationTrafficSecret(client_ap_secret)
          /\ send_keys' = Advance(RecordKeys(client_ap_secret'))
          /\ write_pending' = Unsent(write_pending) \o
               Pieces(Sealed(RecordKeys(client_ap_secret'), "handshake", <<"KeyUpdate">>))
     ELSE write_pending' = Unsent(write_pending) /\ UNCHANGED <<client_ap_secret, send_keys>>

\* Mutant: the new sending secret is not kept.
KeyUpdateForgets(requested) ==
  /\ server_ap_secret' = NextApplicationTrafficSecret(server_ap_secret)
  /\ recv_keys' = RecordKeys(server_ap_secret')
  /\ UNCHANGED client_ap_secret
  /\ IF requested
     THEN /\ write_pending' = Unsent(write_pending) \o Pieces(Reply)
          /\ send_keys' = RecordKeys(NextApplicationTrafficSecret(client_ap_secret))
     ELSE write_pending' = Unsent(write_pending) /\ UNCHANGED send_keys

\* on_key_update rotates the receiving direction; asked to (update_requested), it
\* answers under the old sending key and then rotates the sending direction.
OnKeyUpdate(requested) ==
  /\ server_ap_secret' = NextApplicationTrafficSecret(server_ap_secret)
  /\ recv_keys' = RecordKeys(server_ap_secret')
  /\ IF requested
     THEN /\ write_pending' = Unsent(write_pending) \o Pieces(Reply)
          /\ client_ap_secret' = NextApplicationTrafficSecret(client_ap_secret)
          /\ send_keys' = RecordKeys(client_ap_secret')
     ELSE write_pending' = Unsent(write_pending) /\ UNCHANGED <<client_ap_secret, send_keys>>

\* Post-handshake messages: each KeyUpdate is acted on, a NewSessionTicket is dropped.
\* A key change ends its record, so a record holds one KeyUpdate at most.
Messages == {Record.content[i] : i \in 1..Len(Record.content)}

DecodePost ==
  /\ Decoding /\ Record.inner = "handshake"
  /\ relay' = "reading" /\ raw' = Rest
  /\ IF Messages \cap {"KeyUpdate", "KeyUpdate requested"} # {}
     THEN OnKeyUpdate("KeyUpdate requested" \in Messages)
     ELSE /\ recv_keys' = Advance(recv_keys) /\ write_pending' = Unsent(write_pending)
          /\ UNCHANGED <<send_keys, server_ap_secret, client_ap_secret>>
  /\ UNCHANGED <<hsOnly, s2c, s_closed, broken, s_phase, s_send, s_recv, inbound, payload, chunk,
                 c_fin, s_pos, s_post, s_eof, hist>>

\* poll_read returns: Ok(0), which the relay passes on as an empty chunk, or an error.
Return(next) ==
  /\ relay' = next /\ chunk' = <<>> /\ write_pending' = Unsent(write_pending)
  /\ UNCHANGED <<hsOnly, raw, s2c, s_closed, broken, s_phase, s_send, s_recv, keyvars, inbound,
                 payload, c_fin, s_pos, s_post, s_eof, hist>>

CloseNotify ==
  Decoding /\ Record.inner = "alert" /\ Record.content = <<"close_notify">> /\ Return("sending")

\* A fatal alert, or a record that does not open.
DecodeError ==
  /\ Flushing /\ plaintext_out = <<>> /\ Whole
  /\ ~Opens(recv_keys, Record) \/ (Record.inner = "alert" /\ Record.content = <<"fatal">>)
  /\ Return("shutdown")

\* Step 3: read more.
Starved == Flushing /\ plaintext_out = <<>> /\ ~Whole

ReadMore ==
  /\ Starved /\ ~broken
  /\ \E n \in 1..Len(s2c) :
       /\ raw' = raw \o SubSeq(s2c, 1, n)
       /\ s2c' = SubSeq(s2c, n + 1, Len(s2c))
  /\ relay' = "reading" /\ write_pending' = Unsent(write_pending)
  /\ UNCHANGED <<hsOnly, s_closed, broken, s_phase, s_send, s_recv, keyvars, inbound, payload,
                 chunk, c_fin, s_pos, s_post, s_eof, hist>>

\* Mutant: an end inside a record is an end of the stream too.
CleanEndAnywhere == TRUE

\* The end of the TCP stream is clean only between two records.
CleanEnd == raw = <<>>

ReadEnd ==
  /\ Starved /\ ~broken /\ s2c = <<>> /\ s_closed
  /\ IF CleanEnd THEN Return("sending") ELSE Return("shutdown")

ReadError == Starved /\ broken /\ Return("shutdown")

Pending ==
  /\ Starved /\ ~broken /\ s2c = <<>> /\ ~s_closed
  /\ Return("select")

PollRead ==
  \/ FlushError \/ Deliver \/ DecodeData \/ DecodePost \/ CloseNotify \/ DecodeError
  \/ ReadMore \/ ReadEnd \/ ReadError \/ Pending

\* back_tx.send returns: the event loop has the chunk, an empty one being the end.
BackTxSent ==
  /\ relay = "sending"
  /\ IF chunk = <<>> THEN relay' = "shutdown" /\ eof' = TRUE
     ELSE relay' = "select" /\ UNCHANGED eof
  /\ down_got' = down_got \o chunk /\ chunk' = <<>>
  /\ UNCHANGED <<hvars, keyvars, inbound, write_pending, payload, c_fin, s_pos, s_post, s_eof,
                 up_sent, up_got>>

\* rx.recv gives a payload.
TakePayload ==
  /\ relay = "select"
  /\ \E n \in PayloadSizes :
       /\ up_sent + n <= MAX_UP
       /\ payload' = [i \in 1..n |-> up_sent + i]
  /\ relay' = "writing"
  /\ UNCHANGED <<hvars, keyvars, inbound, write_pending, chunk, c_fin, s_pos, s_post, s_eof, hist>>

\* write_all calls poll_write.  While older records are pending it only flushes;
\* otherwise it seals at most MAX_PLAINTEXT and writes what fits.
PollWrite ==
  /\ relay = "writing" /\ ~broken
  /\ IF Unsent(write_pending) # <<>>
     THEN /\ Room(Len(write_pending)) > 0
          /\ c2s' = Written(write_pending) /\ write_pending' = Unsent(write_pending)
          /\ UNCHANGED <<relay, payload, send_keys, up_sent>>
     ELSE LET n == IF Len(payload) < MAX_PLAINTEXT THEN Len(payload) ELSE MAX_PLAINTEXT
              all == write_pending \o
                       Pieces(Sealed(send_keys, "application_data", SubSeq(payload, 1, n)))
          IN  /\ c2s' = Written(all) /\ write_pending' = Unsent(all)
              /\ send_keys' = Advance(send_keys)
              /\ payload' = SubSeq(payload, n + 1, Len(payload))
              /\ up_sent' = up_sent + n
              /\ relay' = IF n = Len(payload) THEN "select" ELSE "writing"
  /\ UNCHANGED <<hsOnly, raw, s2c, s_closed, broken, s_phase, s_send, s_recv, recv_keys,
                 server_ap_secret, client_ap_secret, inbound, chunk, c_fin, s_pos, s_post, s_eof,
                 up_got, down_got, eof>>

WriteError ==
  /\ relay = "writing" /\ broken
  /\ relay' = "shutdown" /\ payload' = <<>>
  /\ UNCHANGED <<hvars, keyvars, inbound, write_pending, chunk, c_fin, s_pos, s_post, s_eof, hist>>

\* The slot dropped the channel, or both directions were silent for RELAY_IDLE_TIMEOUT.
Leave ==
  /\ relay = "select"
  /\ relay' = "shutdown"
  /\ UNCHANGED <<hvars, keyvars, inbound, write_pending, payload, chunk, c_fin, s_pos, s_post,
                 s_eof, hist>>

\* poll_shutdown flushes, then sends FIN; an error ends it without one.
PollShutdown ==
  /\ relay = "shutdown"
  /\ IF broken
     THEN relay' = "done" /\ UNCHANGED <<c2s, write_pending, c_fin>>
     ELSE /\ write_pending = <<>> \/ Room(Len(write_pending)) > 0
          /\ c2s' = Written(write_pending) /\ write_pending' = Unsent(write_pending)
          /\ IF Unsent(write_pending) = <<>> THEN c_fin' = TRUE /\ relay' = "done"
             ELSE UNCHANGED <<c_fin, relay>>
  /\ UNCHANGED <<hsOnly, raw, s2c, s_closed, broken, s_phase, s_send, s_recv, keyvars, inbound,
                 payload, chunk, s_pos, s_post, s_eof, hist>>

RelayTask ==
  New \/ PollRead \/ BackTxSent \/ PollWrite \/ WriteError \/ PollShutdown

-----------------------------------------------------------------------------
(* The server *)

ServerSends(inner, content) ==
  /\ Sending /\ relay # "done"
  /\ s2c' = s2c \o Pieces(Sealed(s_send, inner, content))
  /\ UNCHANGED <<hsOnly, raw, c2s, broken, s_phase, s_recv, keyvars, inbound, write_pending,
                 relay, payload, chunk, c_fin, s_eof, hist>>

\* Response header and data, packed into records of any size.
SendData ==
  /\ s_phase = "relay"
  /\ \E n \in 1..MAX_PLAINTEXT :
       /\ s_pos + n <= HEADER + MAX_DOWN
       /\ ServerSends("application_data", [i \in 1..n |-> s_pos + i - HEADER])
       /\ s_pos' = s_pos + n
  /\ s_send' = Advance(s_send)
  /\ UNCHANGED <<s_closed, s_post>>

\* A ticket right after the flight, even before the client's Finished; an empty data
\* record after the header; a key update, alone or behind a ticket.
SendPost ==
  /\ s_role = "reality" /\ s_flight = <<>> /\ s_post < MAX_POST
  /\ s_post' = s_post + 1
  /\ \/ /\ s_phase # "relay" /\ ServerSends("handshake", <<"NewSessionTicket">>)
        /\ s_send' = Advance(s_send)
     \/ /\ s_phase = "relay" /\ s_pos = HEADER /\ ServerSends("application_data", <<>>)
        /\ s_send' = Advance(s_send)
     \/ /\ s_phase = "relay"
        /\ \E m \in {<<"KeyUpdate">>, <<"NewSessionTicket", "KeyUpdate requested">>} :
             ServerSends("handshake", m)
        /\ s_send' = RecordKeys(NextApplicationTrafficSecret(s_send.secret))
  /\ UNCHANGED <<s_closed, s_pos>>

SendAlert ==
  /\ s_phase = "relay"
  /\ \E alert \in {"close_notify", "fatal"} : ServerSends("alert", <<alert>>)
  /\ s_send' = Advance(s_send) /\ s_closed' = TRUE
  /\ UNCHANGED <<s_pos, s_post>>

\* The server dies while it writes a record.
DieInRecord ==
  /\ s_phase = "relay" /\ Sending /\ relay # "done" /\ s_pos < HEADER + MAX_DOWN
  /\ s_pos' = s_pos + 1
  /\ s2c' = Append(s2c, Sealed(s_send, "application_data", <<s_pos' - HEADER>>))
  /\ s_closed' = TRUE
  /\ UNCHANGED <<hsOnly, raw, c2s, broken, s_phase, s_send, s_recv, keyvars, inbound,
                 write_pending, relay, payload, chunk, c_fin, s_post, s_eof, hist>>

ServerReceives ==
  /\ s_phase = "relay" /\ Received /\ Opens(s_recv, ClientRecord)
  /\ c2s' = C2sRest
  /\ \/ /\ ClientRecord.inner = "application_data"
        /\ up_got' = up_got \o ClientRecord.content /\ s_recv' = Advance(s_recv)
     \/ /\ ClientRecord.inner = "handshake"
        /\ s_recv' = RecordKeys(NextApplicationTrafficSecret(s_recv.secret)) /\ UNCHANGED up_got
  /\ UNCHANGED <<hsOnly, raw, s2c, s_closed, broken, s_phase, s_send, keyvars, inbound,
                 write_pending, relay, payload, chunk, c_fin, s_pos, s_post, s_eof, up_sent,
                 down_got, eof>>

ServerSeesFin ==
  /\ s_phase = "relay" /\ c_fin /\ c2s = <<>> /\ ~s_eof /\ ~s_closed /\ ~broken
  /\ s_eof' = TRUE
  /\ UNCHANGED <<hvars, keyvars, inbound, write_pending, relay, payload, chunk, c_fin, s_pos,
                 s_post, hist>>

-----------------------------------------------------------------------------
Init == HInit /\ SInit

Handshaking == HNext /\ UNCHANGED svars

Next ==
  \/ Handshaking
  \/ RelayTask \/ TakePayload \/ Leave
  \/ SendData \/ SendPost \/ SendAlert \/ DieInRecord \/ ServerReceives \/ ServerSeesFin

Spec == Init /\ [][Next]_vars

(* The relay task is scheduled, and the event loop takes what it is sent;  *)
(* the server goes on reading while its connection lasts.  Each subscript  *)
(* holds a variable that every step of its action changes.                 *)
FairSpec ==
  /\ Spec
  /\ WF_<<relay, payload, write_pending, raw, plaintext_out>>(RelayTask)
  /\ WF_<<c2s, s_phase>>(ServerReceives \/ ((ServerReads \/ ServerRelays) /\ UNCHANGED svars))

-----------------------------------------------------------------------------
TypeOK ==
  /\ relay \in {"none", "select", "reading", "writing", "sending", "shutdown", "done"}
  /\ phase \in {"connecting", "server_hello", "flight", "finished", "vless", "open", "stream", "failed"}
  /\ Len(reasm) <= 1 /\ Len(raw) <= S2C_CAPACITY + 1
  /\ stripped => staging = <<>>
  /\ Len(c2s) <= C2S_CAPACITY \/ phase # "stream" \/ s_phase # "relay"
  /\ recv_keys.secret = server_ap_secret
  /\ send_keys.secret = client_ap_secret

\* Every record opens at its receiver under the key and the sequence number the
\* receiver has reached: the dummy CCS uses no number, and a KeyUpdate changes the keys
\* between exactly the right records in both directions, with records already sealed,
\* under way or buffered.
RecordsOpen ==
  /\ (phase = "flight" /\ msgs = <<>> /\ Whole /\ Record.ct # "ccs") => Opens(recv, Record)
  /\ (phase = "stream" /\ Whole) => Opens(recv_keys, Record)
  /\ (s_phase = "relay" /\ Received) => Opens(s_recv, ClientRecord)

\* The stream implements a pair of reliable byte streams: what either side gets is
\* an unbroken beginning of what the other put in, without the response header, and
\* an end is seen only after all of it.
Bytes == INSTANCE ByteStream WITH
  up_ended <- s_eof, down_ended <- eof,
  down_sent <- IF s_pos > HEADER THEN s_pos - HEADER ELSE 0
ImplementsByteStream == Bytes!Spec

\* What write_all has accepted reaches the server while the connection lasts, in
\* "select", behind a KeyUpdate answer and through shutdown alike.
UplinkArrives ==
  (Len(up_got) < up_sent) ~> (Len(up_got) = up_sent \/ broken \/ s_closed)
=============================================================================
