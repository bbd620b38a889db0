------------------------------- MODULE Ingress -------------------------------
(***************************************************************************)
(* What the event loop does with a packet from the TUN device              *)
(* (src/client_tun.rs): classify_inbound sends plain DNS to the fake-IP    *)
(* forger, other UDP to the TUIC uplink and the rest through the listener  *)
(* registry to smoltcp; resolve_target turns a fake address back into the  *)
(* domain.  UdpFlows has the UDP uplink; here are the DNS and TCP paths,   *)
(* and an application that asks for a domain and connects to the forged    *)
(* answer, at once or long after.                                          *)
(*                                                                         *)
(* A flow of the fake-IP pool is a listener's handle.  A time that is only *)
(* compared with FAKE_IP_TTL saturates above it.                           *)
(***************************************************************************)
EXTENDS FakeIpPool, ListenerRegistry

CONSTANT DohDomains    \* the names DOH_DOMAINS covers, subdomains included

ASSUME IngressAssumption == Flows \subseteq Nat /\ Ports \subseteq Nat

VARIABLES cache,   \* the answer the application holds: the domain it asked for, address, age
          asked,   \* history: the domain and the age of the answer a flow came with
          dst      \* the address and port an accepted TCP connection is to

ingress == <<registry, dropped, cache, asked, dst>>
ivars == <<vars, ingress>>

NoAnswer == [domain |-> None, ip |-> None, age |-> 0]
NoDst    == [ip |-> None, port |-> None]
Unasked  == [domain |-> None, age |-> 0]

IInit ==
  /\ Init /\ RegistryInit
  /\ cache = NoAnswer
  /\ asked = [f \in Flows |-> Unasked] /\ dst = [f \in Flows |-> NoDst]

Older(age) == IF age > FAKE_IP_TTL THEN age ELSE age + 1

-----------------------------------------------------------------------------
\* A packet from the TUN device: IPv4 with a UDP header, as parse_inbound_udp finds it,
\* or a clean SYN.
Packets == [proto : {"udp", "syn"}, port : Ports]

ClassifyInbound(pkt) ==
  CASE pkt.proto # "udp" -> "Other"
    [] pkt.proto = "udp" /\ pkt.port = 53 -> "Dns"
    [] OTHER -> "UdpRelay"

\* What parse_query makes of a payload: None unless it is one uncompressed question.
Queries == [qname : Domains, qtype : {"A", "AAAA"}] \cup {None}

-----------------------------------------------------------------------------
\* resolve_target for an address of the fake range.
IsDnsRelayPort(port) == port \in {53, 853}

IsDohDomain(d) == d \in DohDomains

Resolve(ip) == domain[ip]

Blocked(ip, port) == IsDnsRelayPort(port) \/ (port = 443 /\ IsDohDomain(Resolve(ip)))

Direct(ip, port) == Resolve(ip) # None /\ ~Blocked(ip, port)

-----------------------------------------------------------------------------
\* The reply echoes the question and carries the address.
BuildResponse(d, ip) == [domain |-> d, ip |-> ip, age |-> 0]

\* An A query allocates; the reply is written to the TUN device, or flush_tx fails and
\* it is lost.
ForgeDnsReply(d) ==
  /\ AllocKnown(d) \/ AllocFree(d) \/ AllocOverwrite(d)
  /\ \/ cache' = BuildResponse(d, domain_to_ip'[d])
     \/ UNCHANGED cache
  /\ UNCHANGED <<registry, dropped, asked, dst>>

\* Another type is answered NODATA, and what does not parse gets no reply: neither
\* allocates.
DnsHijack(q) ==
  \/ q # None /\ q.qtype = "A" /\ ForgeDnsReply(q.qname)
  \/ (q # None => q.qtype # "A") /\ UNCHANGED ivars

\* A clean SYN to the answer: ensure_port, then smoltcp.
Syn(port) ==
  /\ cache # NoAnswer
  /\ \/ \E h \in Flows :
          /\ AcceptSyn(h, port)
          /\ asked' = [asked EXCEPT ![h] = [domain |-> cache.domain, age |-> cache.age]]
          /\ dst' = [dst EXCEPT ![h] = [ip |-> cache.ip, port |-> port]]
     \/ DropSyn(port) /\ UNCHANGED <<asked, dst>>
  /\ UNCHANGED <<vars, cache>>

Forget(h) ==
  asked' = [asked EXCEPT ![h] = Unasked] /\ dst' = [dst EXCEPT ![h] = NoDst]

\* The first payload of a connection: Direct opens the remote and acquires,
\* Refuse and Block re-arm the listener.
FirstPayload(h) ==
  /\ Socket(h, "Accepted") /\ Direct(dst[h].ip, dst[h].port)
  /\ Acquire(h, dst[h].ip)
  /\ Becomes(h, "Relaying")
  /\ UNCHANGED <<cache, asked, dst>>

RefusePayload(h) ==
  /\ Socket(h, "Accepted") /\ ~Direct(dst[h].ip, dst[h].port)
  /\ Becomes(h, "Listen") /\ Forget(h)
  /\ UNCHANGED <<vars, cache>>

\* rearm_socket, after a remote EOF, a failed open or reap_dead_slots.
Rearm(h) ==
  /\ Socket(h, "Relaying") /\ Release(h)
  /\ Becomes(h, "Listen") /\ Forget(h)
  /\ UNCHANGED cache

\* The application resets a connection that has sent nothing.
ResetEarly(h) ==
  /\ Socket(h, "Accepted")
  /\ Becomes(h, "Closed") /\ Forget(h)
  /\ UNCHANGED <<vars, cache>>

PoolSweep == Sweep /\ UNCHANGED ingress

Waiting(f) == Socket(f, "Accepted")

Clock ==
  /\ Tick
  /\ cache' = IF cache = NoAnswer THEN cache ELSE [cache EXCEPT !.age = Older(@)]
  /\ asked' = [f \in Flows |->
                 IF Waiting(f) THEN [asked[f] EXCEPT !.age = Older(@)] ELSE asked[f]]
  /\ UNCHANGED <<registry, dropped, dst>>

\* The receive branch of the event loop.  UdpFlows has what class UdpRelay does.
Receive(pkt) ==
  \/ ClassifyInbound(pkt) = "Dns" /\ \E q \in Queries : DnsHijack(q)
  \/ ClassifyInbound(pkt) = "Other" /\ Syn(pkt.port)

INext ==
  \/ \E pkt \in Packets : Receive(pkt)
  \/ \E h \in Flows : FirstPayload(h) \/ RefusePayload(h) \/ Rearm(h) \/ ResetEarly(h)
  \/ PoolSweep \/ Clock

ISpec == IInit /\ [][INext]_ivars

-----------------------------------------------------------------------------
\* A flow goes to the domain the application asked for: with an answer that was at
\* most FAKE_IP_TTL old when the flow began, resolve_target never finds the address
\* in the hands of another domain, although nothing holds a reference to the address
\* between the answer and the first payload.
TargetIsAsked ==
  ~exhausted => \A f \in Flows :
    fake_ip[f] # None /\ asked[f].age <= FAKE_IP_TTL => opened_as[f] = asked[f].domain
=============================================================================
