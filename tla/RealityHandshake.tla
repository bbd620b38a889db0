-------------------------- MODULE RealityHandshake --------------------------
(***************************************************************************)
(* One RealityUpstream::open_tcp: establish and drive                      *)
(* (src/reality_upstream.rs, src/reality/handshake.rs) against the server  *)
(* at the configured address, over a TCP connection that may break.        *)
(*                                                                         *)
(* The server is external: a REALITY server that holds "static", opens the *)
(* session_id and answers itself when it knows the short id, and otherwise *)
(* passes the connection on to the borrowed web site, the decoy.  A decoy  *)
(* is an ordinary TLS server, and knows nothing of the AuthKey.            *)
(*                                                                         *)
(* Handshake messages are cut into two halves and packed into records      *)
(* without regard to their boundaries, and records into TCP reads without  *)
(* regard to theirs, as HandshakeReassembler and RecordReader expect.      *)
(***************************************************************************)
EXTENDS RealityKeys, FiniteSets

CONSTANTS Pbks,          \* public keys the client may be configured with
          ShortIds,      \* short ids it may be configured with
          KnownShortIds, \* the ones the server knows
          Decoys,        \* what decoys answer: <<ServerHello choices, certificate messages>>
          RECORD_HALVES, \* bound: message halves in a record that is not the flight's last
          S2C_CAPACITY   \* the TCP window towards the client, in pieces

None == "none"

\* A decoy's messages, and its ignorance: none of them is a certificate that verifies
\* under an AuthKey of the client.
ASSUME DecoyAssumption ==
  \A d \in Decoys :
    /\ d[2] \in Seq({d[2][i] : i \in DOMAIN d[2]})
    /\ \A i \in DOMAIN d[2], pk \in Pbks :
         d[2][i][1] = "Certificate" =>
           ~VerifyCert(DeriveAuthKey(SharedSecret("client", pk), "random"), d[2][i])

VARIABLES
  pbk, short_id,                   \* RealityClientConfig
  phase,                           \* where open_tcp stands
  raw,                             \* RecordReader.buf, later RealityStream.read_raw
  transcript, hs, recv,            \* locals of drive
  reasm, msgs, cert_verified,
  app,                             \* HandshakeOutput: the secrets and send_keys
  s2c, c2s,                        \* pieces of records under way
  s_closed, broken,                \* the server's FIN; the connection was reset
  s_phase, s_role, s_transcript, s_hs, s_send, s_flight, s_app, s_recv

client == <<transcript, hs, recv, reasm, msgs, cert_verified, app>>
server == <<s_phase, s_role, s_transcript, s_hs, s_send, s_flight, s_app, s_recv>>
conf   == <<pbk, short_id>>
hvars  == <<conf, phase, raw, client, s2c, c2s, s_closed, broken, server>>

NoKeys == RecordKeys(<<"", Zeros, <<>>, 0>>)
NoHs   == DeriveHandshakeKeys(Zeros, <<>>)
NoApp  == [s_ap |-> NoKeys.secret, c_ap |-> NoKeys.secret, send_keys |-> NoKeys]

HInit ==
  /\ pbk \in Pbks /\ short_id \in ShortIds
  /\ phase = "connecting" /\ raw = <<>>
  /\ transcript = <<>> /\ hs = NoHs /\ recv = NoKeys
  /\ reasm = <<>> /\ msgs = <<>> /\ cert_verified = FALSE /\ app = NoApp
  /\ s2c = <<>> /\ c2s = <<>> /\ s_closed = FALSE /\ broken = FALSE
  /\ s_phase = "client_hello" /\ s_role = None /\ s_transcript = <<>> /\ s_hs = NoHs
  /\ s_send = NoKeys /\ s_flight = <<>> /\ s_app = NoApp /\ s_recv = NoKeys

-----------------------------------------------------------------------------
(* The client *)

AuthKey == DeriveAuthKey(SharedSecret("client", pbk), "random")
Hello   == BuildAuthedClientHello("client", "random", AuthKey, short_id)

Fail ==
  /\ phase' = "failed"
  /\ UNCHANGED <<conf, raw, client, s2c, c2s, s_closed, broken, server>>

\* establish up to the first read of drive: the ClientHello record and a dummy CCS.
SendHello ==
  /\ phase = "connecting"
  /\ phase' = "server_hello"
  /\ transcript' = <<Hello>>
  /\ c2s' = c2s \o Pieces(Plain("handshake", Hello)) \o Pieces(Plain("ccs", <<>>))
  /\ UNCHANGED <<conf, raw, hs, recv, reasm, msgs, cert_verified, app, s2c, s_closed,
                 broken, server>>

\* RecordReader::next needs another read.
Reading == phase \in {"server_hello", "flight"} /\ msgs = <<>> /\ Len(raw) < 2

ReadBuf ==
  /\ Reading /\ ~broken
  /\ \E n \in 1..Len(s2c) :
       /\ raw' = raw \o SubSeq(s2c, 1, n)
       /\ s2c' = SubSeq(s2c, n + 1, Len(s2c))
  /\ UNCHANGED <<conf, phase, client, c2s, s_closed, broken, server>>

\* EOF or an error while a record is incomplete.
ReadFails == Reading /\ (broken \/ (s2c = <<>> /\ s_closed)) /\ Fail

Record == raw[1]
Rest   == SubSeq(raw, 3, Len(raw))
Whole  == Len(raw) >= 2

\* The first record: it must hold a ServerHello that parses, and a key share that
\* gives a usable ECDHE secret.
ServerHelloOk ==
  /\ Record.ct = "handshake"
  /\ ParseServerHello(Record.content, AuthedSessionId(Hello))
  /\ SharedSecret("client", KeyShare(Record.content)) # Zeros

OnServerHello ==
  /\ phase = "server_hello" /\ Whole /\ ServerHelloOk
  /\ phase' = "flight" /\ raw' = Rest
  /\ transcript' = Append(transcript, Record.content)
  /\ hs' = DeriveHandshakeKeys(SharedSecret("client", KeyShare(Record.content)), transcript')
  /\ recv' = RecordKeys(hs'.s_hs)
  /\ UNCHANGED <<conf, reasm, msgs, cert_verified, app, s2c, c2s, s_closed, broken, server>>

ServerHelloBad == phase = "server_hello" /\ Whole /\ ~ServerHelloOk /\ Fail

\* A dummy CCS in the flight: not opened, no sequence number used.
FlightCcs ==
  /\ phase = "flight" /\ msgs = <<>> /\ Whole /\ Record.ct = "ccs"
  /\ raw' = Rest
  /\ UNCHANGED <<conf, phase, client, s2c, c2s, s_closed, broken, server>>

\* HandshakeReassembler::push: the whole messages, and the half one that is left.
WholeMessages(halves) == [i \in 1..(Len(halves) \div 2) |-> halves[2 * i][1]]
HalfMessage(halves)   == SubSeq(halves, 2 * (Len(halves) \div 2) + 1, Len(halves))

FlightRecord ==
  /\ phase = "flight" /\ msgs = <<>> /\ Whole
  /\ Opens(recv, Record) /\ Record.inner = "handshake"
  /\ raw' = Rest /\ recv' = Advance(recv)
  /\ msgs' = WholeMessages(reasm \o Record.content)
  /\ reasm' = HalfMessage(reasm \o Record.content)
  /\ UNCHANGED <<conf, phase, transcript, hs, cert_verified, app, s2c, c2s, s_closed,
                 broken, server>>

Message == msgs[1]

Fold ==
  /\ msgs' = Tail(msgs) /\ transcript' = Append(transcript, Message)
  /\ UNCHANGED <<conf, raw, hs, recv, reasm, app, s2c, c2s, s_closed, broken, server>>

\* EncryptedExtensions and CertificateVerify only enter the transcript.
OnOther ==
  /\ phase = "flight" /\ msgs # <<>> /\ Message[1] \in {"EncryptedExtensions", "CertificateVerify"}
  /\ Fold /\ UNCHANGED <<phase, cert_verified>>

OnCertificate ==
  /\ phase = "flight" /\ msgs # <<>> /\ Message[1] = "Certificate"
  /\ VerifyCert(AuthKey, Message)
  /\ cert_verified' = TRUE
  /\ Fold /\ UNCHANGED phase

\* Mutant: the flight may end without a Certificate.
FinishedMacOk ==
  Message = Finished(hs.s_hs, transcript)

\* The server's Finished ends the flight when a Certificate has passed and its MAC
\* covers our transcript.
FinishedOk ==
  cert_verified /\ Message = Finished(hs.s_hs, transcript)

OnFinished ==
  /\ phase = "flight" /\ msgs # <<>> /\ Message[1] = "Finished"
  /\ FinishedOk
  /\ phase' = "finished"
  /\ Fold /\ UNCHANGED cert_verified

\* A message the flight cannot continue with: a Certificate that does not verify, a
\* Finished that comes too early or does not match, an unexpected type.
FlightBad ==
  /\ phase = "flight" /\ msgs # <<>>
  /\ \/ Message[1] = "Certificate" /\ ~VerifyCert(AuthKey, Message)
     \/ Message[1] = "Finished" /\ ~FinishedOk
     \/ Message[1] \notin {"EncryptedExtensions", "CertificateVerify", "Certificate", "Finished"}
  /\ Fail

\* Mutant: the application keys are derived with the client's own Finished.
SendFinishedFirst ==
  /\ phase = "finished"
  /\ phase' = "vless"
  /\ c2s' = c2s \o Pieces(Sealed(RecordKeys(hs.c_hs), "handshake", Finished(hs.c_hs, transcript)))
  /\ LET keys == DeriveApplicationKeys(hs.handshake_secret,
                                       Append(transcript, Finished(hs.c_hs, transcript)))
     IN  app' = [s_ap |-> keys.s_ap, c_ap |-> keys.c_ap, send_keys |-> RecordKeys(keys.c_ap)]
  /\ UNCHANGED <<conf, raw, transcript, hs, recv, reasm, msgs, cert_verified, s2c, s_closed,
                 broken, server>>

\* The client's Finished under the handshake key, then the application keys from the
\* transcript that includes the server's Finished.
SendFinished ==
  /\ phase = "finished"
  /\ phase' = "vless"
  /\ c2s' = c2s \o Pieces(Sealed(RecordKeys(hs.c_hs), "handshake", Finished(hs.c_hs, transcript)))
  /\ LET keys == DeriveApplicationKeys(hs.handshake_secret, transcript)
     IN  app' = [s_ap |-> keys.s_ap, c_ap |-> keys.c_ap, send_keys |-> RecordKeys(keys.c_ap)]
  /\ UNCHANGED <<conf, raw, transcript, hs, recv, reasm, msgs, cert_verified, s2c, s_closed,
                 broken, server>>

\* encode_vless_request: who asks, and for which target.
VlessRequest == <<"VLESS">>

\* The VLESS request is the first application record; open_tcp returns Ok.
SendVless ==
  /\ phase = "vless"
  /\ phase' = "open"
  /\ c2s' = c2s \o Pieces(Sealed(app.send_keys, "application_data", VlessRequest))
  /\ app' = [app EXCEPT !.send_keys = Advance(@)]
  /\ UNCHANGED <<conf, raw, transcript, hs, recv, reasm, msgs, cert_verified, s2c, s_closed,
                 broken, server>>

\* REALITY_HANDSHAKE_TIMEOUT_SECS at an await: the connect, a read or a write.
Timeout ==
  /\ \/ phase \in {"connecting", "finished", "vless"}
     \/ Reading /\ s2c = <<>>
  /\ Fail

Establish ==
  \/ SendHello \/ ReadBuf \/ ReadFails \/ OnServerHello \/ ServerHelloBad
  \/ FlightCcs \/ FlightRecord \/ OnOther \/ OnCertificate \/ OnFinished \/ FlightBad
  \/ SendFinished \/ SendVless \/ Timeout

-----------------------------------------------------------------------------
(* The server *)

ClientRecord == c2s[1]
Received     == Len(c2s) >= 2 /\ ~broken /\ ~s_closed /\ phase # "failed"
C2sRest      == SubSeq(c2s, 3, Len(c2s))

\* The server can write one more record: the connection and the window are open.
Sending == ~s_closed /\ ~broken /\ phase # "failed" /\ Len(s2c) + 2 <= S2C_CAPACITY

\* The short id in the ClientHello, with the AuthKey from the server's own static key.
Recognised(ch) ==
  OpenSessionId(DeriveAuthKey(SharedSecret(ch[2], "static"), ch[3]), ch, None)
    \in KnownShortIds

Halves(flight) == [i \in 1..(2 * Len(flight)) |-> <<flight[(i + 1) \div 2], 2 - (i % 2)>>]

\* Answer a ClientHello: ServerHello and CCS at once, the flight still to be sent.
Answer(role, sh, certs) ==
  LET ch     == ClientRecord.content
      keys   == DeriveHandshakeKeys(SharedSecret(ch[2], KeyShare(sh)), <<ch, sh>>)
      before == << <<"EncryptedExtensions">> >> \o certs
      flight == Append(before, Finished(keys.s_hs, <<ch, sh>> \o before))
  IN  /\ s_role' = role
      /\ s_phase' = "client_ccs"
      /\ s_hs' = keys
      /\ s_transcript' = <<ch, sh>> \o flight
      /\ s_flight' = Halves(flight)
      /\ s_send' = RecordKeys(keys.s_hs)
      /\ s2c' = s2c \o Pieces(Plain("handshake", sh)) \o Pieces(Plain("ccs", <<>>))
      /\ c2s' = C2sRest
      /\ UNCHANGED <<conf, phase, raw, client, s_closed, broken, s_app, s_recv>>

RealityAnswers ==
  /\ s_phase = "client_hello" /\ Received /\ Recognised(ClientRecord.content)
  /\ LET ch == ClientRecord.content
         sh == ServerHello("random", AuthedSessionId(ch), "TLS_AES_128_GCM_SHA256", "1.3", "server")
         auth_key == DeriveAuthKey(SharedSecret(ch[2], "static"), ch[3])
     IN  Answer("reality", sh, << Certificate("ed25519", "pubkey", CertMac(auth_key, "pubkey")),
                                  <<"CertificateVerify">> >>)

\* The decoy chooses its ServerHello; it has a certificate of its own, or sends none.
DecoyAnswers ==
  /\ s_phase = "client_hello" /\ Received /\ ~Recognised(ClientRecord.content)
  /\ \E d \in Decoys :
       LET h == d[1]
       IN  Answer("decoy",
                  ServerHello(h[1], AuthedSessionId(ClientRecord.content), h[2], h[3], h[4]),
                  d[2])

\* The next record of the flight, with any number of message halves.
SendFlight ==
  /\ s_flight # <<>> /\ Sending
  /\ \E n \in (1..RECORD_HALVES \cup {Len(s_flight)}) \cap 1..Len(s_flight) :
       /\ s2c' = s2c \o Pieces(Sealed(s_send, "handshake", SubSeq(s_flight, 1, n)))
       /\ s_flight' = SubSeq(s_flight, n + 1, Len(s_flight))
       /\ IF n < Len(s_flight)
          THEN s_send' = Advance(s_send) /\ UNCHANGED s_app
          ELSE LET keys == DeriveApplicationKeys(s_hs.handshake_secret, s_transcript)
               IN  /\ s_app' = [s_ap |-> keys.s_ap, c_ap |-> keys.c_ap, send_keys |-> NoKeys]
                   /\ s_send' = RecordKeys(keys.s_ap)
  /\ UNCHANGED <<conf, phase, raw, client, c2s, s_closed, broken, s_phase, s_role,
                 s_transcript, s_hs, s_recv>>

\* The client's CCS and Finished.
ServerReads ==
  /\ Received
  /\ \/ /\ s_phase = "client_ccs" /\ ClientRecord.ct = "ccs"
        /\ s_phase' = "client_finished" /\ UNCHANGED s_recv
     \/ /\ s_phase = "client_finished" /\ s_flight = <<>>
        /\ Opens(RecordKeys(s_hs.c_hs), ClientRecord)
        /\ ClientRecord.content = Finished(s_hs.c_hs, s_transcript)
        /\ s_phase' = "vless" /\ s_recv' = RecordKeys(s_app.c_ap)
  /\ c2s' = C2sRest
  /\ UNCHANGED <<conf, phase, raw, client, s2c, s_closed, broken, s_role, s_transcript, s_hs,
                 s_send, s_flight, s_app>>

\* The VLESS request; what the server still needs of the handshake is in s_send, s_recv.
ServerRelays ==
  /\ s_phase = "vless" /\ Received /\ Opens(s_recv, ClientRecord)
  /\ s_phase' = "relay" /\ s_recv' = Advance(s_recv)
  /\ c2s' = C2sRest
  /\ s_transcript' = <<>> /\ s_hs' = NoHs /\ s_app' = NoApp
  /\ UNCHANGED <<conf, phase, raw, client, s2c, s_closed, broken, s_role, s_send, s_flight>>

\* The server closes, or dies inside a record; the network resets the connection.
ServerDies ==
  /\ s_phase # "client_hello" /\ Sending
  /\ s_closed' = TRUE
  /\ \/ UNCHANGED s2c
     \/ /\ s_flight # <<>>
        /\ s2c' = Append(s2c, Sealed(s_send, "handshake", s_flight))
  /\ UNCHANGED <<conf, phase, raw, client, c2s, broken, server>>

Reset ==
  /\ ~broken /\ phase \notin {"connecting", "failed"}
  /\ broken' = TRUE /\ s2c' = <<>> /\ c2s' = <<>>
  /\ UNCHANGED <<conf, phase, raw, client, s_closed, server>>

Serve == RealityAnswers \/ DecoyAnswers \/ SendFlight \/ ServerReads \/ ServerRelays

HNext == Establish \/ Serve \/ ServerDies \/ Reset

HSpec == HInit /\ [][HNext]_hvars

-----------------------------------------------------------------------------
\* The server behind the stream is the REALITY server itself.
OnlyReality == phase \in {"vless", "open", "stream"} => s_role = "reality"

\* open_tcp returns a stream only to a server that proved knowledge of the AuthKey,
\* and the two then hold the same application secrets, whatever a decoy answers and
\* however its messages are packed into records.
PeerAuthenticated ==
  /\ OnlyReality
  /\ (phase \in {"vless", "open"} /\ s_phase # "relay") =>
       app.s_ap = s_app.s_ap /\ app.c_ap = s_app.c_ap
=============================================================================
