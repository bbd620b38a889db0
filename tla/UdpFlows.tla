------------------------------ MODULE UdpFlows ------------------------------
(***************************************************************************)
(* UDP associations: AssocTable (src/tuic.rs) as handle_tuic_udp_uplink,   *)
(* the TUIC downlink arm and the 1 s sweep arm of run_event_loop           *)
(* (src/client_tun.rs) use it, with the references it holds in the fake-IP *)
(* pool.  The event loop owns the table and the pool and finishes every    *)
(* update of them before its next await, so a handler is one step.         *)
(*                                                                         *)
(* Of the pool only what an association can notice is kept: the name and   *)
(* the reference count of each address.  A mapping without references may  *)
(* expire and its address be given to another name; overwriting in a full  *)
(* pool is FakeIpPool's subject.                                           *)
(*                                                                         *)
(* last_activity is kept as the seconds since, saturated just above        *)
(* UDP_FLOW_IDLE, where the order of two associations is lost and evict    *)
(* may take either.                                                        *)
(***************************************************************************)
EXTENDS Integers, FiniteSets

CONSTANTS Tuples,         \* four-tuples of the intercepted UDP packets
          FakeIps, Domains,
          DstIp,          \* the fake address a tuple is sent to, None for a real one
          Blocked,        \* <<tuple, domain>>: encrypted DNS, dropped (dns_block)
          MAX_ID,         \* u16::MAX
          MAX_UDP_FLOWS,  \* cap
          UDP_FLOW_IDLE,
          None            \* no tuple, no address, no domain

ASSUME UdpFlowsAssumption ==
  /\ MAX_ID \in Nat /\ MAX_UDP_FLOWS \in 1..MAX_ID /\ UDP_FLOW_IDLE \in Nat
  /\ DstIp \in [Tuples -> FakeIps \cup {None}]
  /\ Blocked \subseteq Tuples \X (Domains \cup {None})
  /\ None \notin Tuples /\ None \notin FakeIps /\ None \notin Domains

Ids == 1..MAX_ID   \* assoc-id 0 is never given out
NoId == 0

VARIABLES tuple_to_id,
          tuple, idle,        \* id_to_entry; an unregistered id has tuple None
          id_to_fake_ip, next_id,
          domain, refcount,   \* the pool's mapping of each address
          target              \* history: the name an association's first packet went to

pool == <<domain, refcount>>
vars == <<tuple_to_id, tuple, idle, id_to_fake_ip, next_id, pool, target>>

Init ==
  /\ tuple_to_id = [t \in Tuples |-> NoId]
  /\ tuple = [i \in Ids |-> None] /\ idle = [i \in Ids |-> 0]
  /\ id_to_fake_ip = [i \in Ids |-> None] /\ next_id = 1
  /\ domain = [ip \in FakeIps |-> None] /\ refcount = [ip \in FakeIps |-> 0]
  /\ target = [i \in Ids |-> None]

Registered == {i \in Ids : tuple[i] # None}

TargetOf(t) == IF DstIp[t] = None THEN None ELSE domain[DstIp[t]]

\* resolve_target gives a target: neither a fake address without a mapping (Refuse)
\* nor an encrypted DNS service (Block).
Resolves(t) ==
  /\ DstIp[t] # None => domain[DstIp[t]] # None
  /\ <<t, TargetOf(t)>> \notin Blocked

-----------------------------------------------------------------------------
\* Mutant: the most recently used association is evicted.
EvictMru(v) ==
  v \in Registered /\ \A i \in Registered \ {v} : idle[v] < idle[i] \/ (idle[i] = idle[v] /\ v < i)

\* evict_lru: the longest idle association, the smaller id among equals.
EvictLru(v) ==
  /\ v \in Registered
  /\ \A i \in Registered \ {v} :
       idle[i] < idle[v] \/ (idle[i] = idle[v] /\ (v < i \/ idle[v] > UDP_FLOW_IDLE))

\* Mutant: the table is allowed one association too many.
EvictedLate(gone) ==
  IF Cardinality(Registered) > MAX_UDP_FLOWS
  THEN \E v \in Registered : EvictLru(v) /\ gone = {v}
  ELSE gone = {}

\* What intern evicts before it gives out a new id.
Evicted(gone) ==
  IF Cardinality(Registered) >= MAX_UDP_FLOWS
  THEN \E v \in Registered : EvictLru(v) /\ gone = {v}
  ELSE gone = {}

RingId(k) == ((next_id - 1 + k) % MAX_ID) + 1

\* Mutant: a registered id is not skipped.
AllocIdBlind(id, gone) ==
  id = next_id /\ next_id' = IF id = MAX_ID THEN 1 ELSE id + 1

\* Mutant: next_id wraps to 0.
AllocIdZero(id, gone) ==
  /\ \E k \in 0..(MAX_ID - 1) :
       /\ id = RingId(k) /\ id \notin Registered \ gone
       /\ \A j \in 0..(k - 1) : RingId(j) \in Registered \ gone
  /\ next_id' = IF id = MAX_ID THEN 0 ELSE id + 1

\* alloc_id: the first id from next_id on that is not registered, never 0.
AllocId(id, gone) ==
  /\ \E k \in 0..(MAX_ID - 1) :
       /\ id = RingId(k) /\ id \notin Registered \ gone
       /\ \A j \in 0..(k - 1) : RingId(j) \in Registered \ gone
  /\ next_id' = IF id = MAX_ID THEN 1 ELSE id + 1

\* note_reclaimed: how often the associations in "gone" give ip back.
Reclaimed(gone, ip) == Cardinality({i \in gone : id_to_fake_ip[i] = ip})

\* Mutant: an address that several associations give back is released once.
ReleaseOnce(new, gone) ==
  refcount' = [ip \in FakeIps |->
                 LET n == refcount[ip] + (IF ip = new THEN 1 ELSE 0)
                     m == IF Reclaimed(gone, ip) > 0 THEN 1 ELSE 0
                 IN  IF n > m THEN n - m ELSE 0]

\* Mutant: the new association takes no reference.
ReleaseOnly(new, gone) ==
  refcount' = [ip \in FakeIps |->
                 LET m == Reclaimed(gone, ip)
                 IN  IF refcount[ip] > m THEN refcount[ip] - m ELSE 0]

\* acquire for the new association (None: its address is real), then a saturating
\* release for each one in "gone".
AcquireRelease(new, gone) ==
  refcount' = [ip \in FakeIps |->
                 LET n == refcount[ip] + (IF ip = new THEN 1 ELSE 0)
                     m == Reclaimed(gone, ip)
                 IN  IF n > m THEN n - m ELSE 0]

\* Drop the associations in "gone" and register t under id.
Replace(gone, id, t) ==
  /\ tuple_to_id' = [u \in Tuples |-> IF u = t THEN id
                                     ELSE IF tuple_to_id[u] \in gone THEN NoId
                                     ELSE tuple_to_id[u]]
  /\ tuple' = [i \in Ids |-> IF i = id THEN t ELSE IF i \in gone THEN None ELSE tuple[i]]
  /\ id_to_fake_ip' = [i \in Ids |-> IF i = id THEN DstIp[t]
                                    ELSE IF i \in gone THEN None ELSE id_to_fake_ip[i]]
  /\ target' = [i \in Ids |-> IF i = id THEN TargetOf(t)
                             ELSE IF i \in gone THEN None ELSE target[i]]

Touch(id) == idle' = [idle EXCEPT ![id] = 0]

\* handle_tuic_udp_uplink on the first packet of a flow.
UplinkNew(t) ==
  /\ Resolves(t) /\ tuple_to_id[t] = NoId
  /\ \E gone \in {{}} \cup {{v} : v \in Registered}, id \in Ids :
       /\ Evicted(gone) /\ AllocId(id, gone)
       /\ Replace(gone, id, t)
       /\ AcquireRelease(DstIp[t], gone)
       /\ Touch(id)
  /\ UNCHANGED domain

\* handle_tuic_udp_uplink on a later packet: touch.
UplinkKnown(t) ==
  /\ Resolves(t) /\ tuple_to_id[t] # NoId
  /\ Touch(tuple_to_id[t])
  /\ UNCHANGED <<tuple_to_id, tuple, id_to_fake_ip, next_id, pool, target>>

\* A whole downlink packet for a registered id: injected, and touch.
Downlink(id) ==
  /\ id \in Registered
  /\ Touch(id)
  /\ UNCHANGED <<tuple_to_id, tuple, id_to_fake_ip, next_id, pool, target>>

\* Mutant: only associations without a fake address expire.
ExpiredReal == {i \in Registered : idle[i] > UDP_FLOW_IDLE /\ id_to_fake_ip[i] = None}

\* AssocTable::sweep and the releases after it.
Expired == {i \in Registered : idle[i] > UDP_FLOW_IDLE}

Sweep ==
  /\ Expired # {}
  /\ tuple_to_id' = [t \in Tuples |-> IF tuple_to_id[t] \in Expired THEN NoId
                                     ELSE tuple_to_id[t]]
  /\ tuple' = [i \in Ids |-> IF i \in Expired THEN None ELSE tuple[i]]
  /\ id_to_fake_ip' = [i \in Ids |-> IF i \in Expired THEN None ELSE id_to_fake_ip[i]]
  /\ target' = [i \in Ids |-> IF i \in Expired THEN None ELSE target[i]]
  /\ AcquireRelease(None, Expired)
  /\ UNCHANGED <<idle, next_id, domain>>

\* The pool gives a free address to a name, and forgets one nobody refers to.
PoolAlloc(ip, d) ==
  /\ domain[ip] = None /\ \A other \in FakeIps : domain[other] # d
  /\ domain' = [domain EXCEPT ![ip] = d] /\ refcount' = [refcount EXCEPT ![ip] = 0]
  /\ UNCHANGED <<tuple_to_id, tuple, idle, id_to_fake_ip, next_id, target>>

PoolSweep(ip) ==
  /\ domain[ip] # None /\ refcount[ip] = 0
  /\ domain' = [domain EXCEPT ![ip] = None]
  /\ UNCHANGED <<tuple_to_id, tuple, idle, id_to_fake_ip, next_id, refcount, target>>

\* A second passes.
Tick ==
  /\ idle' = [i \in Ids |-> IF tuple[i] = None \/ idle[i] > UDP_FLOW_IDLE
                           THEN idle[i] ELSE idle[i] + 1]
  /\ UNCHANGED <<tuple_to_id, tuple, id_to_fake_ip, next_id, pool, target>>

Next ==
  \/ \E t \in Tuples : UplinkNew(t) \/ UplinkKnown(t)
  \/ \E i \in Ids : Downlink(i)
  \/ \E ip \in FakeIps : PoolSweep(ip) \/ \E d \in Domains : PoolAlloc(ip, d)
  \/ Sweep \/ Tick

Spec == Init /\ [][Next]_vars

(* The clock runs and the sweep arm is taken; no flow is obliged to send.  *)
FairSpec == Spec /\ WF_vars(Tick) /\ WF_vars(Sweep)

-----------------------------------------------------------------------------
TypeOK ==
  /\ tuple_to_id \in [Tuples -> Ids \cup {NoId}]
  /\ tuple \in [Ids -> Tuples \cup {None}]
  /\ idle \in [Ids -> 0..(UDP_FLOW_IDLE + 1)]
  /\ id_to_fake_ip \in [Ids -> FakeIps \cup {None}] /\ next_id \in Ids
  /\ domain \in [FakeIps -> Domains \cup {None}] /\ refcount \in [FakeIps -> Nat]
  /\ target \in [Ids -> Domains \cup {None}]

\* The two maps of the table are inverse to each other, through wrap-around of the
\* id, eviction and expiry: a downlink packet for a registered id goes to the one
\* flow that was given the id (alloc_id's skip of registered ids).
TablesAgree ==
  \A t \in Tuples, i \in Ids : tuple_to_id[t] = i <=> tuple[i] = t

\* The table never holds more than its capacity (intern evicts before it inserts).
WithinCap == Cardinality(Registered) <= MAX_UDP_FLOWS

\* Every reference on a fake address belongs to exactly one registered association
\* sent to it: nothing leaks when the table evicts or expires associations, several
\* of them on one address included.
RefsExact ==
  /\ \A ip \in FakeIps : refcount[ip] = Cardinality({i \in Ids : id_to_fake_ip[i] = ip})
  /\ \A i \in Ids : id_to_fake_ip[i] = IF tuple[i] = None THEN None ELSE DstIp[tuple[i]]

\* All packets of one association go to the name its first packet went to, however
\* long it lives and whatever the pool reclaims meanwhile.
TargetStable == \A i \in Registered : target[i] = TargetOf(tuple[i])

\* An association is dropped only when it has been idle too long, or when the table
\* is full and no other association has been idle longer.
DropsOldest ==
  [][ \A i \in Registered : tuple'[i] # tuple[i] =>
        \/ idle[i] > UDP_FLOW_IDLE
        \/ /\ Cardinality(Registered) = MAX_UDP_FLOWS
           /\ \A j \in Registered : idle[j] <= idle[i] ]_vars

\* An association without traffic goes away, and its reference with it.
AssocExpires ==
  \A i \in Ids : (tuple[i] # None /\ idle[i] > 0) ~> (tuple[i] = None \/ idle[i] = 0)
=============================================================================
