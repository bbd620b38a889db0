---------------------------- MODULE ByteStream -----------------------------
(***************************************************************************)
(* What a RelayStream (src/upstream.rs) promises its relay task: two       *)
(* reliable byte streams.  Each byte is named by its position, so a stream *)
(* is the number of bytes put in and the sequence of bytes that came out.  *)
(* An end of stream is seen only after everything that was put in.         *)
(***************************************************************************)
EXTENDS Integers, Sequences

VARIABLES up_sent, up_got, up_ended, down_sent, down_got, down_ended

up   == <<up_sent, up_got, up_ended>>
down == <<down_sent, down_got, down_ended>>

First(n) == [i \in 1..n |-> i]

Init ==
  /\ up_sent = 0 /\ up_got = <<>> /\ up_ended = FALSE
  /\ down_sent = 0 /\ down_got = <<>> /\ down_ended = FALSE

Send(sent, sent_next, ended) == ~ended /\ sent_next > sent

Get(sent, got, got_next, ended) ==
  ~ended /\ \E n \in (Len(got) + 1)..sent : got_next = First(n)

End(sent, got, ended, ended_next) == ~ended /\ ended_next /\ got = First(sent)

Next ==
  \/ Send(up_sent, up_sent', up_ended) /\ UNCHANGED <<up_got, up_ended, down>>
  \/ Get(up_sent, up_got, up_got', up_ended) /\ UNCHANGED <<up_sent, up_ended, down>>
  \/ End(up_sent, up_got, up_ended, up_ended') /\ UNCHANGED <<up_sent, up_got, down>>
  \/ Send(down_sent, down_sent', down_ended) /\ UNCHANGED <<down_got, down_ended, up>>
  \/ Get(down_sent, down_got, down_got', down_ended) /\ UNCHANGED <<down_sent, down_ended, up>>
  \/ End(down_sent, down_got, down_ended, down_ended') /\ UNCHANGED <<down_sent, down_got, up>>

Spec == Init /\ [][Next]_<<up, down>>
=============================================================================
