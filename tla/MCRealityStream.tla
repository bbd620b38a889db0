-------------------------- MODULE MCRealityStream --------------------------
(***************************************************************************)
(* RealityStream for TLC: the right and a wrong public key and short id; a *)
(* decoy for every check of parse_server_hello that can fail, and decoys   *)
(* with an acceptable ServerHello and each kind of flight.                 *)
(***************************************************************************)
EXTENDS RealityStream

Good == <<"random", "TLS_AES_128_GCM_SHA256", "1.3", "server">>

MCDecoys ==
  {<<Good, certs>> : certs \in {<<>>, << <<"CertificateRequest">> >>} \cup
     {<< Certificate(a, "pubkey", <<"signature">>), <<"CertificateVerify">> >> :
        a \in {"ed25519", "rsa"}}}
  \cup
  {<<h, <<>> >> : h \in {[Good EXCEPT ![1] = "HelloRetryRequest"], [Good EXCEPT ![1] = "downgrade"],
                         [Good EXCEPT ![2] = "TLS_AES_256_GCM_SHA384"], [Good EXCEPT ![3] = "1.2"],
                         [Good EXCEPT ![4] = "none"], [Good EXCEPT ![4] = LowOrder]}}
=============================================================================
