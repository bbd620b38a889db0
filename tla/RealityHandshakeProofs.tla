----------------------- MODULE RealityHandshakeProofs -----------------------
(***************************************************************************)
(* The client never talks VLESS to a decoy, for any number of decoys, any  *)
(* flight they send, and any packing of messages into records and records  *)
(* into reads.  The invariant follows the messages of the server's flight: *)
(* through the halves still to be sent, the sealed records under way, the  *)
(* buffer of RecordReader and the reassembler, up to the messages drive    *)
(* looks at.  A certificate among them that verifies comes from the        *)
(* REALITY server.                                                         *)
(***************************************************************************)
EXTENDS RealityHandshake, SequenceTheorems, TLAPS

\* Messages M of a flight of role, as the holder of auth_key sees them.
Honest(M, auth_key, role) ==
  \A m \in M : m[1] = "Certificate" /\ VerifyCert(auth_key, m) => role = "reality"

HalvesOf(M) == Seq(M \X {1, 2})

\* Records P of which the sealed ones carry halves of M.
Carry(P, M) ==
  \A x \in P : x.ct = "application_data" => x.content \in HalvesOf(M)

\* All that is under way or received is made of M and P.
MadeOf(M, P) ==
  /\ Carry(P, M) /\ s2c \in Seq(P) /\ raw \in Seq(P)
  /\ s_flight \in HalvesOf(M) /\ reasm \in HalvesOf(M) /\ msgs \in Seq(M)

IInv ==
  /\ pbk \in Pbks /\ phase # "stream"
  /\ s_phase = "client_hello" =>
       s2c = <<>> /\ raw = <<>> /\ s_flight = <<>> /\ reasm = <<>> /\ msgs = <<>>
       /\ cert_verified = FALSE
  /\ \E M, P : MadeOf(M, P) /\ Honest(M, AuthKey, s_role)
  /\ cert_verified \in BOOLEAN /\ (cert_verified => s_role = "reality")
  /\ phase \in {"finished", "vless", "open"} => cert_verified

-----------------------------------------------------------------------------
\* HandshakeReassembler::push makes whole messages of the halves, and keeps the rest.
LEMMA PushMakes ==
  ASSUME NEW M, NEW hv \in HalvesOf(M)
  PROVE  WholeMessages(hv) \in Seq(M) /\ HalfMessage(hv) \in HalvesOf(M)
<1> DEFINE k == Len(hv) \div 2
           Q == M \X {1, 2}
<1>1. hv \in Seq(Q) /\ Len(hv) \in Nat /\ k \in Nat /\ 2 * k <= Len(hv)
  BY DEF HalvesOf
<1> HIDE DEF k
<1>2. \A i \in 1..Len(hv) : hv[i] \in Q
  BY <1>1
<1>3. \A i \in 1..k : hv[2 * i][1] \in M
  <2> SUFFICES ASSUME NEW i \in 1..k PROVE hv[2 * i][1] \in M
    OBVIOUS
  <2>1. 2 * i \in 1..Len(hv)
    BY <1>1
  <2>2. hv[2 * i] \in Q
    BY <1>2, <2>1
  <2> QED
    BY <2>2
<1>4. WholeMessages(hv) \in Seq(M)
  <2>1. WholeMessages(hv) = [i \in 1..k |-> hv[2 * i][1]]
    BY DEF WholeMessages, k
  <2> QED
    BY <2>1, <1>1, <1>3
<1>5. HalfMessage(hv) \in Seq(Q)
  <2>1. HalfMessage(hv) = SubSeq(hv, 2 * k + 1, Len(hv))
    BY DEF HalfMessage, k
  <2>2. 2 * k + 1 \in Int /\ Len(hv) \in Int /\ \A i \in (2 * k + 1)..Len(hv) : hv[i] \in Q
    BY <1>1, <1>2
  <2> HIDE DEF Q
  <2> QED
    BY <2>1, <2>2, SubSeqProperties
<1> QED
  BY <1>4, <1>5 DEF HalvesOf

\* Taking from the front of a sequence and adding to its end stays over the same set.
LEMMA SubSeqOver ==
  ASSUME NEW S, NEW s \in Seq(S), NEW m \in Nat \ {0}, NEW n \in Nat, n <= Len(s)
  PROVE  SubSeq(s, m, n) \in Seq(S)
<1>1. \A i \in m..n : s[i] \in S
  OBVIOUS
<1> QED
  BY <1>1, SubSeqProperties

LEMMA Wider ==
  ASSUME NEW S, NEW T, S \subseteq T, NEW s \in Seq(S)
  PROVE  s \in Seq(T)
OBVIOUS

\* The halves of a flight of messages of M.
LEMMA HalvesAre ==
  ASSUME NEW M, NEW flight \in Seq(M)
  PROVE  Halves(flight) \in HalvesOf(M)
<1> DEFINE n == 2 * Len(flight)
<1>1. Len(flight) \in Nat /\ n \in Nat
  OBVIOUS
<1>2. \A i \in 1..n : (i + 1) \div 2 \in 1..Len(flight) /\ 2 - (i % 2) \in {1, 2}
  BY <1>1
<1>3. \A i \in 1..n : <<flight[(i + 1) \div 2], 2 - (i % 2)>> \in M \X {1, 2}
  BY <1>2
<1> QED
  BY <1>1, <1>3 DEF Halves, HalvesOf

LEMMA InitIInv == HInit => IInv
<1> SUFFICES ASSUME HInit PROVE IInv
  OBVIOUS
<1>1. MadeOf({}, {}) /\ Honest({}, AuthKey, s_role)
  BY DEF HInit, MadeOf, Carry, HalvesOf, Honest
<1> QED
  BY <1>1 DEF HInit, IInv

-----------------------------------------------------------------------------
\* Steps after the server has answered, with the sets that the data is then made of.
LEMMA Step ==
  ASSUME IInv, s_phase # "client_hello", s_phase' # "client_hello",
         UNCHANGED <<pbk, s_role>>, phase' # "stream",
         NEW M, NEW P, MadeOf(M, P)', Honest(M, AuthKey, s_role),
         cert_verified' \in BOOLEAN, cert_verified' => s_role = "reality",
         phase' \in {"finished", "vless", "open"} => cert_verified'
  PROVE  IInv'
<1>1. AuthKey' = AuthKey
  BY DEF AuthKey
<1> QED
  BY <1>1 DEF IInv

\* Steps that touch no message: the client sends or gives up, the server reads.
LEMMA OtherSteps ==
  ASSUME IInv, UNCHANGED <<pbk, s_role, s2c, raw, s_flight, reasm, msgs, cert_verified>>,
         s_phase' = "client_hello" => s_phase = "client_hello", phase' # "stream",
         phase' \in {"finished", "vless", "open"} => phase \in {"finished", "vless", "open"}
  PROVE  IInv'
<1>1. AuthKey' = AuthKey
  BY DEF AuthKey
<1>2. \E M, P : MadeOf(M, P)' /\ Honest(M, AuthKey, s_role)
  BY DEF IInv, MadeOf
<1> QED
  BY <1>1, <1>2 DEF IInv

LEMMA ReadBufIInv == ASSUME IInv, ReadBuf PROVE IInv'
<1>1. PICK M, P : MadeOf(M, P) /\ Honest(M, AuthKey, s_role)
  BY DEF IInv
<1>2. PICK n \in 1..Len(s2c) : raw' = raw \o SubSeq(s2c, 1, n)
                               /\ s2c' = SubSeq(s2c, n + 1, Len(s2c))
  BY DEF ReadBuf
<1>3. UNCHANGED <<pbk, phase, reasm, msgs, cert_verified, s_flight, s_role, s_phase>>
  BY DEF ReadBuf, conf, client, server
<1>4. s_phase # "client_hello"
  BY <1>2 DEF IInv
<1>5. s2c \in Seq(P) /\ raw \in Seq(P) /\ Len(s2c) \in Nat
  BY <1>1 DEF MadeOf
<1>6. SubSeq(s2c, 1, n) \in Seq(P) /\ s2c' \in Seq(P)
  BY <1>2, <1>5, SubSeqOver
<1>7. raw' \in Seq(P)
  BY <1>2, <1>5, <1>6, ConcatProperties
<1>8. MadeOf(M, P)'
  BY <1>1, <1>3, <1>6, <1>7 DEF MadeOf, Carry, HalvesOf
<1> QED
  BY <1>1, <1>3, <1>4, <1>8, Step DEF IInv

\* A record leaves RecordReader.
LEMMA RestOver ==
  ASSUME NEW P, raw \in Seq(P), Whole PROVE Rest \in Seq(P) /\ raw[1] \in P
<1>1. Len(raw) \in Nat /\ Len(raw) >= 2
  BY DEF Whole
<1> QED
  BY <1>1, SubSeqOver DEF Rest

LEMMA PlainRecordIInv ==
  ASSUME IInv, Whole, raw' = Rest, phase' \in {phase, "flight"},
         UNCHANGED <<pbk, s_role, s_phase, s2c, s_flight, reasm, msgs, cert_verified>>
  PROVE  IInv'
<1>1. PICK M, P : MadeOf(M, P) /\ Honest(M, AuthKey, s_role)
  BY DEF IInv
<1>2. s_phase # "client_hello"
  BY DEF IInv, Whole
<1>3. raw' \in Seq(P)
  BY <1>1, RestOver DEF MadeOf
<1>4. MadeOf(M, P)'
  BY <1>1, <1>3 DEF MadeOf, Carry, HalvesOf
<1> QED
  BY <1>1, <1>2, <1>4, Step DEF IInv

LEMMA FlightRecordIInv == ASSUME IInv, FlightRecord PROVE IInv'
<1>1. PICK M, P : MadeOf(M, P) /\ Honest(M, AuthKey, s_role)
  BY DEF IInv
<1>2. /\ Whole /\ raw' = Rest /\ Record.ct = "application_data"
      /\ msgs' = WholeMessages(reasm \o Record.content)
      /\ reasm' = HalfMessage(reasm \o Record.content)
      /\ UNCHANGED <<pbk, phase, cert_verified, s2c, s_role, s_phase, s_flight>>
  BY DEF FlightRecord, Opens, conf, server
<1>3. s_phase # "client_hello"
  BY <1>2 DEF IInv, Whole
<1>4. raw' \in Seq(P) /\ raw[1] \in P
  BY <1>1, <1>2, RestOver DEF MadeOf
<1>5. Record.content \in HalvesOf(M)
  BY <1>1, <1>2, <1>4 DEF MadeOf, Carry, Record
<1>6. reasm \o Record.content \in HalvesOf(M)
  BY <1>1, <1>5, ConcatProperties DEF MadeOf, HalvesOf
<1>7. msgs' \in Seq(M) /\ reasm' \in HalvesOf(M)
  BY <1>2, <1>6, PushMakes
<1>8. MadeOf(M, P)'
  BY <1>1, <1>2, <1>4, <1>7 DEF MadeOf
<1> QED
  BY <1>1, <1>2, <1>3, <1>8, Step DEF IInv

\* A message enters the transcript; a certificate that verifies came from the server.
LEMMA MessageIInv == ASSUME IInv, OnOther \/ OnCertificate \/ OnFinished PROVE IInv'
<1>1. PICK M, P : MadeOf(M, P) /\ Honest(M, AuthKey, s_role)
  BY DEF IInv
<1>2. /\ msgs # <<>> /\ msgs' = Tail(msgs)
      /\ UNCHANGED <<pbk, raw, s2c, reasm, s_role, s_phase, s_flight>>
  BY DEF OnOther, OnCertificate, OnFinished, Fold, conf, server
<1>3. s_phase # "client_hello"
  BY <1>2 DEF IInv
<1>4. msgs' \in Seq(M) /\ Message \in M
  <2>1. msgs \in Seq(M)
    BY <1>1 DEF MadeOf
  <2> QED
    BY <1>2, <2>1 DEF Message
<1>5. MadeOf(M, P)'
  BY <1>1, <1>2, <1>4 DEF MadeOf
<1>6. CASE OnCertificate
  <2>1. phase = "flight" /\ phase' = phase /\ cert_verified' = TRUE
        /\ Message[1] = "Certificate" /\ VerifyCert(AuthKey, Message)
    BY <1>6 DEF OnCertificate
  <2>2. s_role = "reality"
    BY <2>1, <1>1, <1>4 DEF Honest
  <2> QED
    BY <2>1, <2>2, <1>1, <1>2, <1>3, <1>5, Step
<1>7. CASE OnOther
  BY <1>7, <1>1, <1>2, <1>3, <1>5, Step DEF OnOther, IInv
<1>8. CASE OnFinished
  <2>1. phase' = "finished" /\ cert_verified' = cert_verified /\ cert_verified
    BY <1>8 DEF OnFinished, FinishedOk
  <2> QED
    BY <2>1, <1>1, <1>2, <1>3, <1>5, Step DEF IInv
<1> QED
  BY <1>6, <1>7, <1>8

\* The server answers with a flight in which only a REALITY server's certificate
\* verifies.
LEMMA AnswerIInv ==
  ASSUME IInv, s_phase = "client_hello", NEW role, NEW sh, NEW C, NEW certs \in Seq(C),
         Answer(role, sh, certs), Honest(C, AuthKey, role)
  PROVE  IInv'
<1> DEFINE ch     == ClientRecord.content
           keys   == DeriveHandshakeKeys(SharedSecret(ch[2], KeyShare(sh)), <<ch, sh>>)
           before == << <<"EncryptedExtensions">> >> \o certs
           fin    == Finished(keys.s_hs, <<ch, sh>> \o before)
           flight == Append(before, fin)
           M == C \cup {<<"EncryptedExtensions">>, fin}
           r1 == Plain("handshake", sh)
           r2 == Plain("ccs", <<>>)
           P == {r1, r2}
<1>1. /\ s_role' = role /\ s_phase' = "client_ccs" /\ s_flight' = Halves(flight)
      /\ s2c' = s2c \o Pieces(r1) \o Pieces(r2)
      /\ UNCHANGED <<pbk, phase, raw, reasm, msgs, cert_verified>>
  BY DEF Answer, conf, client
<1>2. s2c = <<>> /\ raw = <<>> /\ reasm = <<>> /\ msgs = <<>> /\ cert_verified = FALSE
  BY DEF IInv
<1>3. flight \in Seq(M)
  <2> DEFINE ee == <<"EncryptedExtensions">>
             f == fin
             m == C \cup {ee, f}
  <2>1. certs \in Seq(m) /\ <<ee>> \in Seq(m) /\ f \in m
    <3> HIDE DEF ee, f
    <3> QED
      OBVIOUS
  <2>2. <<ee>> \o certs \in Seq(m)
    <3> HIDE DEF ee, f, m
    <3> QED
      BY <2>1, ConcatProperties
  <2>3. Append(<<ee>> \o certs, f) \in Seq(m)
    <3> DEFINE b == <<ee>> \o certs
    <3> HIDE DEF b, f, m
    <3> QED
      BY <2>1, <2>2
  <2> QED
    BY <2>3
<1>4. s_flight' \in HalvesOf(M)
  <2> HIDE DEF flight, M
  <2> QED
    BY <1>1, <1>3, HalvesAre
<1>5. Honest(M, AuthKey, role)
  <2>1. fin[1] = "Finished"
    BY DEF Finished
  <2> HIDE DEF fin
  <2> QED
    BY <2>1 DEF Honest
<1>6. r1.ct = "handshake" /\ r2.ct = "ccs"
  BY DEF Plain
<1>7. s2c' \in Seq(P)
  <2> HIDE DEF r1, r2
  <2>1. Pieces(r1) \in Seq(P) /\ Pieces(r2) \in Seq(P)
    BY DEF Pieces
  <2>2. s2c \in Seq(P)
    BY <1>2
  <2> HIDE DEF P
  <2> QED
    BY <1>1, <2>1, <2>2, ConcatProperties
<1> HIDE DEF M
<1>8. Carry(P, M)
  <2> HIDE DEF r1, r2
  <2> QED
    BY <1>6 DEF Carry
<1> HIDE DEF P
\* The sets as they are in this state, not re-evaluated in the next.
<1>9. PICK N, Q : N = M /\ Q = P
  OBVIOUS
<1>10. MadeOf(N, Q)' /\ Honest(N, AuthKey, role)
  <2>1. /\ Carry(Q, N) /\ s2c' \in Seq(Q) /\ s_flight' \in HalvesOf(N)
        /\ Honest(N, AuthKey, role)
    BY <1>9, <1>4, <1>5, <1>7, <1>8, Zenon
  <2> QED
    BY <2>1, <1>1, <1>2 DEF MadeOf, HalvesOf
<1>11. AuthKey' = AuthKey
  BY <1>1 DEF AuthKey
<1>12. \E X, Y : MadeOf(X, Y)' /\ Honest(X, AuthKey', s_role')
  BY <1>1, <1>10, <1>11
<1> QED
  BY <1>1, <1>2, <1>12 DEF IInv

LEMMA RealityAnswersIInv == ASSUME IInv, RealityAnswers PROVE IInv'
<1> DEFINE ch == ClientRecord.content
           sh == ServerHello("random", AuthedSessionId(ch), "TLS_AES_128_GCM_SHA256", "1.3", "server")
           auth_key == DeriveAuthKey(SharedSecret(ch[2], "static"), ch[3])
           c1 == Certificate("ed25519", "pubkey", CertMac(auth_key, "pubkey"))
           c2 == <<"CertificateVerify">>
<1>1. s_phase = "client_hello" /\ Answer("reality", sh, <<c1, c2>>)
  BY DEF RealityAnswers
<1> HIDE DEF c1, c2, sh
<1>2. <<c1, c2>> \in Seq({c1, c2}) /\ Honest({c1, c2}, AuthKey, "reality")
  BY DEF Honest
<1> QED
  BY <1>1, <1>2, AnswerIInv

LEMMA DecoyAnswersIInv == ASSUME IInv, DecoyAnswers PROVE IInv'
<1>1. PICK d \in Decoys :
        Answer("decoy", ServerHello(d[1][1], AuthedSessionId(ClientRecord.content),
                                    d[1][2], d[1][3], d[1][4]), d[2])
  BY DEF DecoyAnswers
<1> DEFINE C == {d[2][i] : i \in DOMAIN d[2]}
<1>2. d[2] \in Seq(C)
  BY DecoyAssumption
<1>3. Honest(C, AuthKey, "decoy")
  <2> SUFFICES ASSUME NEW i \in DOMAIN d[2], d[2][i][1] = "Certificate",
                      VerifyCert(AuthKey, d[2][i])
               PROVE  FALSE
    BY DEF Honest
  <2>1. pbk \in Pbks
    BY DEF IInv
  <2> QED
    BY <2>1, DecoyAssumption DEF AuthKey
<1>4. s_phase = "client_hello"
  BY DEF DecoyAnswers
<1> HIDE DEF C
<1> QED
  BY <1>1, <1>2, <1>3, <1>4, AnswerIInv

\* A record of the flight, whole or cut off, carries halves of the flight.
LEMMA FlightSent ==
  ASSUME NEW M, NEW P, Carry(P, M), NEW hv \in HalvesOf(M), NEW keys
  PROVE  Carry(P \cup {Sealed(keys, "handshake", hv)}, M)
<1>1. Sealed(keys, "handshake", hv).content = hv
  BY DEF Sealed
<1> QED
  BY <1>1 DEF Carry

LEMMA SendFlightIInv == ASSUME IInv, SendFlight PROVE IInv'
<1>1. PICK M, P : MadeOf(M, P) /\ Honest(M, AuthKey, s_role)
  BY DEF IInv
<1>2. PICK n \in 1..Len(s_flight) :
        /\ s2c' = s2c \o Pieces(Sealed(s_send, "handshake", SubSeq(s_flight, 1, n)))
        /\ s_flight' = SubSeq(s_flight, n + 1, Len(s_flight))
  BY DEF SendFlight
<1>3. s_flight # <<>> /\ UNCHANGED <<pbk, phase, raw, reasm, msgs, cert_verified, s_role, s_phase>>
  BY DEF SendFlight, conf, client
<1>4. s_phase # "client_hello"
  BY <1>3 DEF IInv
<1>5. SubSeq(s_flight, 1, n) \in HalvesOf(M) /\ s_flight' \in HalvesOf(M)
  <2>1. s_flight \in Seq(M \X {1, 2}) /\ Len(s_flight) \in Nat
    BY <1>1 DEF MadeOf, HalvesOf
  <2> QED
    BY <1>2, <2>1, SubSeqOver DEF HalvesOf
<1> DEFINE r == Sealed(s_send, "handshake", SubSeq(s_flight, 1, n))
<1>q. PICK Q : Q = P \cup {r}
  OBVIOUS
<1>6. Carry(Q, M)
  BY <1>q, <1>1, <1>5, FlightSent DEF MadeOf
<1> HIDE DEF r
<1>7. s2c' \in Seq(Q) /\ raw' \in Seq(Q)
  <2>1. s2c \in Seq(Q) /\ raw \in Seq(Q) /\ Pieces(r) \in Seq(Q)
    BY <1>q, <1>1, Wider DEF MadeOf, Pieces
  <2> QED
    BY <1>2, <1>3, <2>1, ConcatProperties DEF r
<1>8. MadeOf(M, Q)'
  BY <1>1, <1>3, <1>5, <1>6, <1>7 DEF MadeOf
<1> QED
  BY <1>1, <1>3, <1>4, <1>8, Step DEF IInv

LEMMA ServerDiesIInv == ASSUME IInv, ServerDies PROVE IInv'
<1>1. PICK M, P : MadeOf(M, P) /\ Honest(M, AuthKey, s_role)
  BY DEF IInv
<1> DEFINE r == Sealed(s_send, "handshake", s_flight)
<1>q. PICK Q : Q = P \cup {r}
  OBVIOUS
<1>2. /\ s2c' = s2c \/ s2c' = Append(s2c, r)
      /\ s_phase # "client_hello"
      /\ UNCHANGED <<pbk, phase, raw, reasm, msgs, cert_verified, s_role, s_phase, s_flight>>
  BY DEF ServerDies, conf, client, server
<1>3. Carry(Q, M)
  BY <1>q, <1>1, FlightSent DEF MadeOf
<1> HIDE DEF r
<1>4. s2c' \in Seq(Q) /\ raw' \in Seq(Q)
  <2>1. s2c \in Seq(Q) /\ raw \in Seq(Q) /\ r \in Q
    BY <1>q, <1>1, Wider DEF MadeOf
  <2> QED
    BY <1>2, <2>1
<1>5. MadeOf(M, Q)'
  BY <1>1, <1>2, <1>3, <1>4 DEF MadeOf
<1> QED
  BY <1>1, <1>2, <1>5, Step DEF IInv

LEMMA ResetIInv == ASSUME IInv, Reset PROVE IInv'
<1>1. PICK M, P : MadeOf(M, P) /\ Honest(M, AuthKey, s_role)
  BY DEF IInv
<1>2. /\ s2c' = <<>>
      /\ UNCHANGED <<pbk, phase, raw, reasm, msgs, cert_verified, s_role, s_phase, s_flight>>
  BY DEF Reset, conf, client, server
<1>3. MadeOf(M, P)' /\ AuthKey' = AuthKey
  BY <1>1, <1>2 DEF MadeOf, AuthKey
<1>4. \E N, Q : MadeOf(N, Q)' /\ Honest(N, AuthKey', s_role')
  BY <1>1, <1>2, <1>3
<1> QED
  BY <1>2, <1>4 DEF IInv

LEMMA NextIInv == ASSUME IInv, [HNext]_hvars PROVE IInv'
<1>1. ASSUME Fail PROVE IInv'
  <2>1. phase' = "failed"
        /\ UNCHANGED <<pbk, s_role, s_phase, s2c, raw, s_flight, reasm, msgs, cert_verified>>
    BY <1>1 DEF Fail, conf, client, server
  <2> QED
    BY <2>1, OtherSteps
<1>2. CASE ReadFails \/ ServerHelloBad \/ FlightBad \/ Timeout
  BY <1>1, <1>2 DEF ReadFails, ServerHelloBad, FlightBad, Timeout
<1>3. CASE SendHello \/ SendFinished \/ SendVless
  <2>1. UNCHANGED <<pbk, s_role, s_phase, s2c, raw, s_flight, reasm, msgs, cert_verified>>
    BY <1>3 DEF SendHello, SendFinished, SendVless, conf, server
  <2>2. phase' # "stream" /\ (phase' \in {"finished", "vless", "open"} =>
                                phase \in {"finished", "vless", "open"})
    BY <1>3 DEF SendHello, SendFinished, SendVless
  <2> QED
    BY <2>1, <2>2, OtherSteps
<1>4. CASE OnServerHello \/ FlightCcs
  <2>1. /\ Whole /\ raw' = Rest /\ phase' \in {phase, "flight"}
        /\ UNCHANGED <<pbk, s_role, s_phase, s2c, s_flight, reasm, msgs, cert_verified>>
    BY <1>4 DEF OnServerHello, FlightCcs, conf, client, server
  <2> QED
    BY <2>1, PlainRecordIInv
<1>5. CASE ServerReads \/ ServerRelays
  <2>1. s_phase' # "client_hello" /\ phase' = phase
        /\ UNCHANGED <<pbk, s_role, s2c, raw, s_flight, reasm, msgs, cert_verified>>
    BY <1>5 DEF ServerReads, ServerRelays, conf, client
  <2> QED
    BY <2>1, OtherSteps DEF IInv
<1>6. CASE UNCHANGED hvars
  <2>1. UNCHANGED <<phase, pbk, s_role, s_phase, s2c, raw, s_flight, reasm, msgs, cert_verified>>
    BY <1>6 DEF hvars, conf, client, server
  <2> QED
    BY <2>1, OtherSteps DEF IInv
<1>7. CASE Establish
  BY <1>2, <1>3, <1>4, <1>7, ReadBufIInv, FlightRecordIInv, MessageIInv DEF Establish
<1>8. CASE Serve \/ ServerDies \/ Reset
  BY <1>5, <1>8, RealityAnswersIInv, DecoyAnswersIInv, SendFlightIInv, ServerDiesIInv, ResetIInv
     DEF Serve
<1> QED
  BY <1>6, <1>7, <1>8 DEF HNext

\* drive reaches the VLESS request only with a server whose certificate carries the HMAC
\* under the AuthKey (handshake.rs:247): never with a decoy.
THEOREM OnlyRealityHolds == HSpec => []OnlyReality
<1>1. IInv => OnlyReality
  BY DEF IInv, OnlyReality
<1> QED
  BY <1>1, InitIInv, NextIInv, PTL DEF HSpec
=============================================================================
