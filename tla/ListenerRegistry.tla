-------------------------- MODULE ListenerRegistry --------------------------
(***************************************************************************)
(* ListenerRegistry (src/client_tun.rs): pools of smoltcp listeners, one   *)
(* per destination port, which a clean SYN creates and extends before      *)
(* iface.poll sees it.  Handles are numbered in the order the sockets are  *)
(* added; a socket is never removed, only re-armed.                        *)
(*                                                                         *)
(* A socket is "Listen", "Accepted" (the handshake began, no payload yet:  *)
(* its SocketCtx still says Listening), "Relaying" (SocketCtx has left     *)
(* Listening) or "Closed" (reset before the first payload, out of          *)
(* reap_dead_slots' reach).  TcpSlot has the detail behind "Relaying".     *)
(***************************************************************************)
EXTENDS Integers, Sequences, FiniteSets

CONSTANTS Ports, pool_size,
          MAX_INTERCEPTED_PORTS, MAX_TOTAL_LISTENERS, MIN_SPARE_LISTENERS

ASSUME RegistryAssumption ==
  /\ pool_size \in Nat /\ MAX_INTERCEPTED_PORTS \in Nat
  /\ MAX_TOTAL_LISTENERS \in Nat /\ MIN_SPARE_LISTENERS \in Nat \ {0}

VARIABLES registry,  \* ports, total; and the sockets of the SocketSet, in handle order
          dropped    \* history: a clean SYN once found no listener

RegistryInit ==
  registry = [ports |-> {}, total |-> 0, sockets |-> <<>>] /\ dropped = FALSE

\* build_listener_socket n times.
Listeners(p, n) == [i \in 1..n |-> [port |-> p, state |-> "Listen"]]

\* ensure_port: the limit is on ports, the total is counted and not looked at.
EnsurePort(r, p) ==
  IF p \in r.ports \/ Cardinality(r.ports) >= MAX_INTERCEPTED_PORTS THEN r
  ELSE [ports |-> r.ports \cup {p}, total |-> r.total + pool_size,
        sockets |-> r.sockets \o Listeners(p, pool_size)]

\* Mutant: spare listeners are counted by SocketCtx.state.
SpareByCtx(r, p) ==
  {h \in DOMAIN r.sockets : r.sockets[h].port = p /\ r.sockets[h].state \in {"Listen", "Accepted"}}

\* The listeners of p by the state of the socket itself.
Spare(r, p) ==
  {h \in DOMAIN r.sockets : r.sockets[h].port = p /\ r.sockets[h].state = "Listen"}

\* What the loop of ensure_spare_listeners builds before min_spare or the limit.
Missing(r, p) ==
  LET want == MIN_SPARE_LISTENERS - Cardinality(Spare(r, p))
      room == MAX_TOTAL_LISTENERS - r.total
  IN  IF p \notin r.ports \/ want <= 0 \/ room <= 0 THEN 0
      ELSE IF want <= room THEN want ELSE room

\* Mutant: the new sockets are not counted.
EnsureSpareUncounted(r, p) ==
  [r EXCEPT !.sockets = @ \o Listeners(p, Missing(r, p))]

EnsureSpareListeners(r, p) ==
  [r EXCEPT !.total = @ + Missing(r, p), !.sockets = @ \o Listeners(p, Missing(r, p))]

\* What a clean SYN to p finds when iface.poll runs.
Prepared(p) == EnsureSpareListeners(EnsurePort(registry, p), p)

Listening(p) ==
  LET sockets == Prepared(p).sockets
  IN  {h \in DOMAIN sockets : sockets[h] = [port |-> p, state |-> "Listen"]}

\* smoltcp takes the first listener of the port.
Accepts(h, p) == h \in Listening(p) /\ \A g \in Listening(p) : h <= g

AcceptSyn(h, p) ==
  /\ Accepts(h, p)
  /\ registry' = [Prepared(p) EXCEPT !.sockets[h].state = "Accepted"]
  /\ UNCHANGED dropped

\* No listener: smoltcp answers the SYN with a reset.
DropSyn(p) ==
  /\ Listening(p) = {}
  /\ registry' = Prepared(p) /\ dropped' = TRUE

Socket(h, state) == h \in DOMAIN registry.sockets /\ registry.sockets[h].state = state

Becomes(h, state) ==
  registry' = [registry EXCEPT !.sockets[h].state = state] /\ UNCHANGED dropped

-----------------------------------------------------------------------------
\* MAX_TOTAL_LISTENERS is "the global cap on listener sockets" (client_tun.rs:348), but
\* ensure_port does not look at it: connections that stay open take the number of
\* sockets past it, by at most one pool for every intercepted port.
ListenersBounded ==
  /\ registry.total = Len(registry.sockets)
  /\ registry.total <= MAX_TOTAL_LISTENERS + pool_size * MAX_INTERCEPTED_PORTS

\* A clean SYN is turned away only at one of the two limits, however many connections
\* of its port are open, half open or waiting to be reaped.
SynDroppedOnlyAtLimit ==
  dropped => \/ Cardinality(registry.ports) >= MAX_INTERCEPTED_PORTS
             \/ registry.total >= MAX_TOTAL_LISTENERS
=============================================================================
