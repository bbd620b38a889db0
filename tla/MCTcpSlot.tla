----------------------------- MODULE MCTcpSlot -----------------------------
(***************************************************************************)
(* TcpSlot for TLC: the properties about whole byte streams, which need    *)
(* the sequence operators of the community modules.                        *)
(***************************************************************************)
EXTENDS TcpSlot, SequencesExt

\* Everything a stream was given or will be given came from its own connection, in
\* the order the application sent it, nothing twice: across the handshake buffer,
\* the relay channel, back-pressure and teardown with data still queued.
UplinkInOrder ==
  \A r \in Streams :
    LET s == written[r] \o FlattenSeq(channel[r])
                \o (IF r = conn THEN uplink_buffer \o rx_buffer ELSE <<>>) IN
    /\ \A i \in 1..Len(s) : s[i][1] = r
    /\ \A i \in 1..(Len(s) - 1) : s[i][2] < s[i + 1][2]

(***************************************************************************)
(* What the repository says of the slot, where the code does otherwise.    *)
(***************************************************************************)

\* "... late return data of the previous upstream connection, dropped"
\* (client_tun.rs:1833, anti-crosstalk): the bytes on their way to an application
\* come from the stream opened for its own connection.
NoCrosstalk ==
  LET s == tx_buffer \o downlink_pending IN \A i \in 1..Len(s) : s[i][1] = conn

\* "overflow is dropped (the application's TCP, un-ACKed, backs off and
\* retransmits: self-healing)" (client_tun.rs:259): what a stream has been given is
\* an initial part of what the application sent, without a hole.
UplinkGapFree ==
  \A r \in Streams : \A i \in 1..Len(written[r]) : written[r][i] = <<r, i>>

\* "... until the return bytes left over from the last round are all delivered, no
\* byte is ever dropped" (client_tun.rs:1490): the end of the slot's own stream
\* reaches a still open connection after every byte before it.
EofAfterDelivery ==
  [][ (RemoteEof /\ Head(global_rx).stream = conn /\ tcp_state = "Established")
        => downlink_pending = <<>> ]_vars

\* "reclaim listener slots closed by a local FIN or RST ... otherwise the slot stays
\* out of Listen and ensure_spare_listeners keeps building new ones"
\* (client_tun.rs:1201): a slot whose connection was reset listens again.
ResetSlotReturns == (tcp_state = "Closed") ~> (tcp_state = "Listen")
=============================================================================
