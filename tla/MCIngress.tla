------------------------------ MODULE MCIngress ------------------------------
(***************************************************************************)
(* Ingress with as many handles as its registry can build, and more names  *)
(* than addresses.                                                         *)
(***************************************************************************)
EXTENDS Ingress, TLC

CONSTANTS d1, d2, d3

MCFlows == 1..(MAX_TOTAL_LISTENERS + pool_size)

\* Only the DoH domain is treated differently.
Plain == Permutations({d2, d3})

Busy == {h \in DOMAIN registry.sockets : registry.sockets[h].state # "Listen"}

\* Bound: two connections at a time, those that were reset early included, and one
\* after the pool has overflowed or the listeners have passed their limit.
Followed ==
  Cardinality(Busy) <= (IF exhausted \/ registry.total > MAX_TOTAL_LISTENERS THEN 1 ELSE 2)
=============================================================================
