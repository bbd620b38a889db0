----------------------------- MODULE MCUdpFlows -----------------------------
(***************************************************************************)
(* UdpFlows for TLC: two flows to one fake address, one to another, one to *)
(* a real address; one of them is blocked when its address stands for d2.  *)
(***************************************************************************)
EXTENDS UdpFlows

CONSTANTS a, b, c, e, ip1, ip2, d1, d2

MCDstIp == [t \in Tuples |-> IF t \in {a, b} THEN ip1 ELSE IF t = c THEN ip2 ELSE None]
MCBlocked == {<<b, d2>>}
=============================================================================
