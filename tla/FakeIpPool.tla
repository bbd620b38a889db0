----------------------------- MODULE FakeIpPool -----------------------------
(***************************************************************************)
(* The fake-IP pool (src/fake_ip.rs) with the flows that hold references   *)
(* into it.  The event loop owns the pool, so every operation is atomic.   *)
(* A flow is a TCP slot between opening its remote and rearm_socket, or a  *)
(* UDP association between its first datagram and its eviction: both       *)
(* resolve and acquire when they start and release once when they end      *)
(* (client_tun.rs; TcpSlot!FakeIpBalanced shows it for the TCP slot).      *)
(*                                                                         *)
(* The map ip -> Mapping is kept as one function per field; an address     *)
(* with no mapping has domain None.  last_used is kept as the time since,  *)
(* saturated just above FAKE_IP_TTL, the only value it is compared with.   *)
(***************************************************************************)
EXTENDS Integers, FiniteSets

CONSTANTS Domains, Flows,
          POOL_SIZE,     \* addresses from range_start + 2 to range_end
          FAKE_IP_TTL,
          None           \* no address, no domain

ASSUME FakeIpAssumption ==
  /\ POOL_SIZE \in Nat \ {0} /\ FAKE_IP_TTL \in Nat
  /\ IsFiniteSet(Flows)
  /\ None \notin 1..POOL_SIZE /\ None \notin Domains

Ips == 1..POOL_SIZE

VARIABLES next, domain_to_ip,
          domain, refcount, idle,  \* ip_to_mapping
          fake_ip,    \* SocketCtx::fake_ip or AssocTable::id_to_fake_ip of each flow
          opened_as,  \* history: what a flow's address resolved to when it began
          exhausted   \* history: next_free_ip has once found no free address

mapping == <<domain, refcount, idle>>
vars    == <<next, domain_to_ip, mapping, fake_ip, opened_as, exhausted>>

Init ==
  /\ next = 1 /\ exhausted = FALSE
  /\ domain_to_ip = [d \in Domains |-> None]
  /\ domain = [i \in Ips |-> None]
  /\ refcount = [i \in Ips |-> 0] /\ idle = [i \in Ips |-> 0]
  /\ fake_ip = [f \in Flows |-> None] /\ opened_as = [f \in Flows |-> None]

-----------------------------------------------------------------------------
\* Mutant: the end of the range is off by one.
AdvanceNextPast(ip) == IF ip > POOL_SIZE THEN 1 ELSE ip + 1

\* advance_next, and the address the cursor reaches after k steps.
AdvanceNext(ip) == IF ip = POOL_SIZE THEN 1 ELSE ip + 1

RingIp(k) == ((next - 1 + k) % POOL_SIZE) + 1

\* The probe of next_free_ip stops at the first free address from the cursor.
FirstFree(ip) ==
  \E k \in 0..(POOL_SIZE - 1) :
    /\ ip = RingIp(k) /\ domain[ip] = None
    /\ \A j \in 0..(k - 1) : domain[RingIp(j)] # None

\* Mutant: last_used stays.
AllocKnownUntouched(d) ==
  /\ domain_to_ip[d] # None
  /\ UNCHANGED <<next, domain_to_ip, mapping, fake_ip, opened_as, exhausted>>

\* alloc of a domain that has an address: touch last_used.
AllocKnown(d) ==
  /\ domain_to_ip[d] # None
  /\ idle' = [idle EXCEPT ![domain_to_ip[d]] = 0]
  /\ UNCHANGED <<next, domain_to_ip, domain, refcount, fake_ip, opened_as, exhausted>>

\* Mutant: the victim's domain_to_ip entry is left behind.
InstallOverAlias(d, ip) ==
  /\ domain_to_ip' = [domain_to_ip EXCEPT ![d] = ip]
  /\ domain'   = [domain EXCEPT ![ip] = d]
  /\ refcount' = [refcount EXCEPT ![ip] = 0]
  /\ idle'     = [idle EXCEPT ![ip] = 0]
  /\ next' = AdvanceNext(ip)

\* A fresh mapping for d at ip; the domain that had ip, if any, loses it.
Install(d, ip) ==
  /\ domain_to_ip' = [e \in Domains |-> IF e = d THEN ip
                                       ELSE IF e = domain[ip] THEN None
                                       ELSE domain_to_ip[e]]
  /\ domain'   = [domain EXCEPT ![ip] = d]
  /\ refcount' = [refcount EXCEPT ![ip] = 0]
  /\ idle'     = [idle EXCEPT ![ip] = 0]
  /\ next' = AdvanceNext(ip)

AllocFree(d) ==
  /\ domain_to_ip[d] = None
  /\ \E ip \in Ips : FirstFree(ip) /\ Install(d, ip)
  /\ UNCHANGED <<fake_ip, opened_as, exhausted>>

\* Every address is taken: the probe has come full circle and next is overwritten.
AllocOverwrite(d) ==
  /\ domain_to_ip[d] = None /\ \A ip \in Ips : domain[ip] # None
  /\ Install(d, next)
  /\ exhausted' = TRUE
  /\ UNCHANGED <<fake_ip, opened_as>>

\* A flow to a fake address begins: resolve_target, then acquire.  An address
\* without a mapping is refused and nothing changes.
Acquire(f, ip) ==
  /\ fake_ip[f] = None /\ domain[ip] # None
  /\ fake_ip' = [fake_ip EXCEPT ![f] = ip]
  /\ opened_as' = [opened_as EXCEPT ![f] = domain[ip]]
  /\ refcount' = [refcount EXCEPT ![ip] = @ + 1]
  /\ idle' = [idle EXCEPT ![ip] = 0]
  /\ UNCHANGED <<next, domain_to_ip, domain, exhausted>>

\* Mutant: the flow keeps its fake-IP (get instead of take) and releases it again.
ReleaseKeeps(f) ==
  /\ fake_ip[f] # None /\ domain[fake_ip[f]] # None
  /\ refcount' = [refcount EXCEPT ![fake_ip[f]] = IF @ > 0 THEN @ - 1 ELSE 0]
  /\ idle' = [idle EXCEPT ![fake_ip[f]] = 0]
  /\ UNCHANGED <<next, domain_to_ip, domain, fake_ip, opened_as, exhausted>>

\* A flow ends: release, a saturating decrement of whatever mapping is there.
Release(f) ==
  /\ fake_ip[f] # None
  /\ fake_ip' = [fake_ip EXCEPT ![f] = None]
  /\ opened_as' = [opened_as EXCEPT ![f] = None]
  /\ IF domain[fake_ip[f]] # None
     THEN /\ refcount' = [refcount EXCEPT ![fake_ip[f]] = IF @ > 0 THEN @ - 1 ELSE 0]
          /\ idle' = [idle EXCEPT ![fake_ip[f]] = 0]
     ELSE UNCHANGED <<refcount, idle>>
  /\ UNCHANGED <<next, domain_to_ip, domain, exhausted>>

\* Mutant: sweep looks at the age alone.
ReclaimableByAge(ip) == domain[ip] # None /\ idle[ip] > FAKE_IP_TTL

\* sweep, on its own 60 s tick.
Reclaimable(ip) == domain[ip] # None /\ refcount[ip] = 0 /\ idle[ip] > FAKE_IP_TTL

Sweep ==
  /\ \E ip \in Ips : Reclaimable(ip)
  /\ domain_to_ip' = [d \in Domains |->
                        IF \E ip \in Ips : Reclaimable(ip) /\ domain[ip] = d
                        THEN None ELSE domain_to_ip[d]]
  /\ domain' = [ip \in Ips |-> IF Reclaimable(ip) THEN None ELSE domain[ip]]
  /\ UNCHANGED <<next, refcount, idle, fake_ip, opened_as, exhausted>>

\* Time passes.
Tick ==
  /\ idle' = [ip \in Ips |-> IF idle[ip] > FAKE_IP_TTL THEN idle[ip] ELSE idle[ip] + 1]
  /\ UNCHANGED <<next, domain_to_ip, domain, refcount, fake_ip, opened_as, exhausted>>

Next ==
  \/ \E d \in Domains : AllocKnown(d) \/ AllocFree(d) \/ AllocOverwrite(d)
  \/ \E f \in Flows : Release(f) \/ \E ip \in Ips : Acquire(f, ip)
  \/ Sweep \/ Tick

Spec == Init /\ [][Next]_vars

-----------------------------------------------------------------------------
TypeOK ==
  /\ next \in Ips /\ exhausted \in BOOLEAN
  /\ domain_to_ip \in [Domains -> Ips \cup {None}]
  /\ domain \in [Ips -> Domains \cup {None}]
  /\ refcount \in [Ips -> Nat] /\ idle \in [Ips -> 0..(FAKE_IP_TTL + 1)]
  /\ fake_ip \in [Flows -> Ips \cup {None}]
  /\ opened_as \in [Flows -> Domains \cup {None}]

\* The two maps are inverse to each other, also after overwrites and sweeps: an
\* address given out for a domain resolves to that domain and to no other.
MapsAgree ==
  \A d \in Domains, ip \in Ips : domain_to_ip[d] = ip <=> domain[ip] = d

Holders(ip) == {f \in Flows : fake_ip[f] = ip}

\* Until the pool has been exhausted, a mapping's reference count is the number of
\* flows that hold its address: nothing leaks and nothing is released twice.
RefcountExact ==
  ~exhausted => \A ip \in Ips : refcount[ip] = Cardinality(Holders(ip))

\* Until the pool has been exhausted, the address of a live flow keeps resolving to
\* the domain the flow was opened for: its mapping is neither reclaimed nor re-used.
FlowKeepsDomain ==
  ~exhausted => \A f \in Flows : fake_ip[f] # None => domain[fake_ip[f]] = opened_as[f]
=============================================================================
