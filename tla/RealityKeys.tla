---------------------------- MODULE RealityKeys ----------------------------
(***************************************************************************)
(* The cryptography of the REALITY upstream (src/reality/: auth.rs,        *)
(* key_schedule.rs, record.rs, client_hello.rs, server_hello.rs, cert.rs)  *)
(* as terms.  A key, a MAC or a ciphertext is the tuple of what the code   *)
(* feeds into it, so two of them are equal exactly when all their inputs   *)
(* are; that the primitives have no collisions is assumed.                 *)
(*                                                                         *)
(* A key pair and its public half share one name.                          *)
(***************************************************************************)
EXTENDS Integers, Sequences

LowOrder == "low order"   \* a public key for which X25519 gives all zeros
Zeros    == {}

\* x25519_shared_secret
SharedSecret(sk, pk) == IF pk = LowOrder THEN Zeros ELSE {sk, pk}

\* derive_auth_key: HKDF over the shared secret, salted by ClientHello.random
DeriveAuthKey(shared, random) == <<"REALITY", shared, random>>

\* build_client_hello with a session_id
BuildClientHello(key_share, random, session_id) ==
  <<"ClientHello", key_share, random, session_id>>

\* seal_session_id: key, nonce from the random, ClientHello with a zeroed session_id
\* as additional data, and the plaintext, of which the short id is kept
SealSessionId(auth_key, random, aad, short_id) == <<auth_key, random, aad, short_id>>

BuildAuthedClientHello(key_share, random, auth_key, short_id) ==
  LET zeroed == BuildClientHello(key_share, random, <<>>)
  IN  BuildClientHello(key_share, random,
                       SealSessionId(auth_key, random, zeroed, short_id))

AuthedSessionId(ch) == ch[4]

\* open_session_id, which the server runs: the short id, or None when the tag is wrong
OpenSessionId(auth_key, ch, None) ==
  LET sealed == AuthedSessionId(ch)
  IN  IF sealed = SealSessionId(auth_key, ch[3], BuildClientHello(ch[2], ch[3], <<>>), sealed[4])
      THEN sealed[4] ELSE None

-----------------------------------------------------------------------------
\* The fields of a ServerHello that parse_server_hello looks at.
ServerHello(random, echo, cipher, version, key_share) ==
  <<"ServerHello", random, echo, cipher, version, key_share>>

KeyShare(sh) == sh[6]

\* parse_server_hello accepts: no HelloRetryRequest and no downgrade mark in the
\* random, our session_id echoed, the one cipher suite, TLS 1.3, an X25519 share.
ParseServerHello(sh, expected_session_id) ==
  /\ sh[2] \notin {"HelloRetryRequest", "downgrade"}
  /\ sh[3] = expected_session_id
  /\ sh[4] = "TLS_AES_128_GCM_SHA256"
  /\ sh[5] = "1.3"
  /\ KeyShare(sh) # "none"

\* A Certificate message: an ed25519 certificate carries a public key and a signature.
Certificate(algorithm, pubkey, sig) == <<"Certificate", algorithm, pubkey, sig>>

\* verify_server_cert: the signature field is HMAC(auth_key, public key)
CertMac(auth_key, pubkey) == <<"HMAC", auth_key, pubkey>>

\* The closure establish gives to drive: extract_ed25519_pubkey_and_sig, then
\* verify_server_cert.
VerifyCert(auth_key, cert) ==
  cert[2] = "ed25519" /\ cert[4] = CertMac(auth_key, cert[3])

-----------------------------------------------------------------------------
\* derive_handshake_keys: the secret of each direction depends on the ECDHE result
\* and on the transcript ClientHello, ServerHello.
DeriveHandshakeKeys(ecdhe, transcript) ==
  [c_hs |-> <<"c hs traffic", ecdhe, transcript, 0>>,
   s_hs |-> <<"s hs traffic", ecdhe, transcript, 0>>,
   handshake_secret |-> ecdhe]

\* derive_application_keys, from the transcript up to the server's Finished
DeriveApplicationKeys(handshake_secret, transcript) ==
  [c_ap |-> <<"c ap traffic", handshake_secret, transcript, 0>>,
   s_ap |-> <<"s ap traffic", handshake_secret, transcript, 0>>]

\* next_application_traffic_secret: generation N + 1 of the same direction
NextApplicationTrafficSecret(secret) == [secret EXCEPT ![4] = secret[4] + 1]

\* compute_finished_verify_data, in a Finished message
Finished(secret, transcript) == <<"Finished", secret, transcript>>

\* RecordKeys::new: key and IV of a traffic secret (record_keys_from_secret), seq 0
RecordKeys(secret) == [secret |-> secret, seq |-> 0]

\* The sealed record: key, nonce from seq, inner type and content.
Sealed(keys, inner, content) ==
  [ct |-> "application_data", keys |-> keys, inner |-> inner, content |-> content]

\* A record in the clear.
Plain(ct, content) ==
  [ct |-> ct, keys |-> <<>>, inner |-> ct, content |-> content]

\* seal and open take the next sequence number; open fails, and leaves seq alone,
\* unless the record was sealed under this key with this number.
Advance(keys) == [keys EXCEPT !.seq = @ + 1]
Opens(keys, record) == record.ct = "application_data" /\ record.keys = keys

\* A record is two pieces on the wire, so a read may end inside it.
Pieces(record) == <<record, record>>
=============================================================================
