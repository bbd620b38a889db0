-------------------------- MODULE FakeIpPoolProofs --------------------------
(***************************************************************************)
(* FakeIpPool's invariants for any number of domains, flows and addresses. *)
(* RefcountExact and FlowKeepsDomain need each other: a mapping is         *)
(* reclaimed when its count is 0, which frees no held address only if the  *)
(* count is exact; and a new mapping starts at count 0, which is exact     *)
(* only if no flow holds an address without a mapping.                     *)
(***************************************************************************)
EXTENDS FakeIpPool, FiniteSetTheorems, TLAPS

\* A flow that holds an address was opened for some domain.
OpenedKnown == \A f \in Flows : fake_ip[f] # None => opened_as[f] # None

IInv == TypeOK /\ MapsAgree /\ OpenedKnown /\ RefcountExact /\ FlowKeepsDomain

\* advance_next stays inside the address range.
LEMMA AdvanceNextInRange ==
  ASSUME NEW ip \in Ips PROVE AdvanceNext(ip) \in Ips
BY FakeIpAssumption DEF AdvanceNext, Ips

\* The holders of an address are a finite set, and none of them is None.
LEMMA HoldersFinite ==
  ASSUME NEW ip \in Ips
  PROVE  IsFiniteSet(Holders(ip)) /\ Cardinality(Holders(ip)) \in Nat
<1>1. Holders(ip) \subseteq Flows
  BY DEF Holders
<1>2. IsFiniteSet(Holders(ip))
  BY <1>1, FakeIpAssumption, FS_Subset
<1> QED
  BY <1>2, FS_CardinalityType

\* The initial state: no mapping, no flow.
LEMMA InitIInv == Init => IInv
<1> SUFFICES ASSUME Init PROVE IInv
  OBVIOUS
<1>1. TypeOK
  <2>1. 1 \in Ips /\ 0 \in 0..(FAKE_IP_TTL + 1)
    BY FakeIpAssumption DEF Ips
  <2> QED
    BY <2>1 DEF Init, TypeOK
<1>2. MapsAgree /\ OpenedKnown /\ FlowKeepsDomain
  BY FakeIpAssumption DEF Init, MapsAgree, OpenedKnown, FlowKeepsDomain, Ips
<1>3. RefcountExact
  <2> SUFFICES ASSUME NEW ip \in Ips PROVE refcount[ip] = Cardinality(Holders(ip))
    BY DEF RefcountExact
  <2>1. Holders(ip) = {}
    BY FakeIpAssumption DEF Init, Holders, Ips
  <2> QED
    BY <2>1, FS_EmptySet DEF Init
<1> QED
  BY <1>1, <1>2, <1>3 DEF IInv

\* Until the pool is exhausted nobody holds an address without a mapping, and
\* nobody holds one whose count is 0: neither alloc nor sweep can hit a live flow.
LEMMA UnheldIsFree ==
  ASSUME IInv, ~exhausted, NEW ip \in Ips, domain[ip] = None \/ refcount[ip] = 0
  PROVE  Holders(ip) = {}
<1>1. CASE domain[ip] = None
  BY <1>1, FakeIpAssumption
     DEF IInv, TypeOK, FlowKeepsDomain, OpenedKnown, Holders, Ips
<1>2. CASE refcount[ip] = 0
  <2>1. Cardinality(Holders(ip)) = 0
    BY <1>2 DEF IInv, RefcountExact
  <2> QED
    BY <2>1, HoldersFinite, FS_EmptySet
<1> QED
  BY <1>1, <1>2

\* Installing a mapping keeps the types and the two maps inverse.
LEMMA InstallAgrees ==
  ASSUME TypeOK, MapsAgree, NEW d \in Domains, NEW ip \in Ips,
         domain_to_ip[d] = None, Install(d, ip)
  PROVE  /\ MapsAgree'
         /\ next' \in Ips
         /\ domain_to_ip' \in [Domains -> Ips \cup {None}]
         /\ domain' \in [Ips -> Domains \cup {None}]
         /\ refcount' \in [Ips -> Nat] /\ idle' \in [Ips -> 0..(FAKE_IP_TTL + 1)]
<1>1. MapsAgree'
  BY FakeIpAssumption DEF TypeOK, MapsAgree, Install, Ips
<1>2. next' \in Ips
  BY AdvanceNextInRange DEF Install
<1>3. /\ domain_to_ip' \in [Domains -> Ips \cup {None}]
      /\ domain' \in [Ips -> Domains \cup {None}]
  BY DEF Install, TypeOK
<1>4. refcount' \in [Ips -> Nat] /\ idle' \in [Ips -> 0..(FAKE_IP_TTL + 1)]
  BY FakeIpAssumption DEF Install, TypeOK
<1> QED
  BY <1>1, <1>2, <1>3, <1>4

\* Every operation of the pool preserves the invariant.
LEMMA NextIInv == IInv /\ [Next]_vars => IInv'
<1> SUFFICES ASSUME IInv, [Next]_vars PROVE IInv'
  OBVIOUS
<1> USE DEF IInv
<1>1. ASSUME NEW d \in Domains, AllocKnown(d) PROVE IInv'
  <2>1. TypeOK'
    BY <1>1, FakeIpAssumption DEF AllocKnown, TypeOK
  <2>2. (MapsAgree /\ OpenedKnown /\ FlowKeepsDomain)'
    BY <1>1 DEF AllocKnown, MapsAgree, OpenedKnown, FlowKeepsDomain
  <2>3. RefcountExact'
    BY <1>1 DEF AllocKnown, RefcountExact, Holders
  <2> QED
    BY <2>1, <2>2, <2>3
<1>2. ASSUME NEW d \in Domains, AllocFree(d) PROVE IInv'
  <2>1. PICK ip \in Ips : FirstFree(ip) /\ Install(d, ip)
    BY <1>2 DEF AllocFree
  <2>2. domain_to_ip[d] = None /\ domain[ip] = None
        /\ UNCHANGED <<fake_ip, opened_as, exhausted>>
    BY <1>2, <2>1 DEF AllocFree, FirstFree
  <2>3. TypeOK' /\ MapsAgree'
    BY <2>1, <2>2, InstallAgrees DEF TypeOK
  <2>4. OpenedKnown'
    BY <2>2 DEF OpenedKnown
  <2>5. ASSUME ~exhausted' PROVE Holders(ip) = {}
    BY <2>2, <2>5, UnheldIsFree
  <2>6. RefcountExact'
    <3> SUFFICES ASSUME ~exhausted', NEW j \in Ips
                 PROVE  refcount'[j] = Cardinality(Holders(j)')
      BY DEF RefcountExact
    <3>1. Holders(j)' = Holders(j)
      BY <2>2 DEF Holders
    <3>2. CASE j = ip
      BY <2>1, <2>5, <3>1, <3>2, FS_EmptySet DEF Install, TypeOK
    <3>3. CASE j # ip
      BY <2>1, <2>2, <3>1, <3>3 DEF Install, TypeOK, RefcountExact
    <3> QED
      BY <3>2, <3>3
  <2>7. FlowKeepsDomain'
    <3> SUFFICES ASSUME ~exhausted', NEW f \in Flows, fake_ip[f] # None
                 PROVE  domain'[fake_ip[f]] = opened_as[f]
      BY <2>2 DEF FlowKeepsDomain
    <3>1. fake_ip[f] # ip
      BY <2>5 DEF Holders
    <3> QED
      BY <2>1, <2>2, <3>1 DEF Install, TypeOK, FlowKeepsDomain
  <2> QED
    BY <2>3, <2>4, <2>6, <2>7
<1>3. ASSUME NEW d \in Domains, AllocOverwrite(d) PROVE IInv'
  <2>1. next \in Ips /\ Install(d, next) /\ domain_to_ip[d] = None
        /\ exhausted' /\ exhausted' \in BOOLEAN /\ UNCHANGED <<fake_ip, opened_as>>
    BY <1>3 DEF AllocOverwrite, TypeOK
  <2>2. TypeOK' /\ MapsAgree'
    BY <2>1, InstallAgrees DEF TypeOK
  <2> QED
    BY <2>1, <2>2 DEF OpenedKnown, RefcountExact, FlowKeepsDomain
<1>4. ASSUME NEW f \in Flows, NEW ip \in Ips, Acquire(f, ip) PROVE IInv'
  <2>1. TypeOK'
    BY <1>4, FakeIpAssumption DEF Acquire, TypeOK, Ips
  <2>2. (MapsAgree /\ OpenedKnown /\ FlowKeepsDomain)'
    BY <1>4, FakeIpAssumption
       DEF Acquire, TypeOK, MapsAgree, OpenedKnown, FlowKeepsDomain
  <2>3. RefcountExact'
    <3> SUFFICES ASSUME ~exhausted, NEW j \in Ips
                 PROVE  refcount'[j] = Cardinality(Holders(j)')
      BY <1>4 DEF RefcountExact, Acquire
    <3>1. CASE j = ip
      <4>1. Holders(j)' = Holders(j) \cup {f} /\ f \notin Holders(j)
        BY <1>4, <3>1, FakeIpAssumption DEF Acquire, TypeOK, Holders, Ips
      <4>2. Cardinality(Holders(j)') = Cardinality(Holders(j)) + 1
        BY <4>1, HoldersFinite, FS_AddElement
      <4> QED
        BY <1>4, <3>1, <4>2 DEF Acquire, TypeOK, RefcountExact
    <3>2. CASE j # ip
      <4>1. Holders(j)' = Holders(j)
        BY <1>4, <3>2, FakeIpAssumption DEF Acquire, TypeOK, Holders, Ips
      <4> QED
        BY <1>4, <3>2, <4>1 DEF Acquire, TypeOK, RefcountExact
    <3> QED
      BY <3>1, <3>2
  <2> QED
    BY <2>1, <2>2, <2>3
<1>5. ASSUME NEW f \in Flows, Release(f) PROVE IInv'
  <2> DEFINE ip == fake_ip[f]
  <2>1. ip \in Ips
    BY <1>5 DEF Release, TypeOK
  <2>2. TypeOK'
    BY <1>5, <2>1, FakeIpAssumption DEF Release, TypeOK
  <2>3. (MapsAgree /\ OpenedKnown /\ FlowKeepsDomain)'
    BY <1>5, FakeIpAssumption
       DEF Release, TypeOK, MapsAgree, OpenedKnown, FlowKeepsDomain
  <2>4. RefcountExact'
    <3> SUFFICES ASSUME ~exhausted, NEW j \in Ips
                 PROVE  refcount'[j] = Cardinality(Holders(j)')
      BY <1>5 DEF RefcountExact, Release
    <3>1. CASE j = ip
      <4>1. Holders(j)' = Holders(j) \ {f} /\ f \in Holders(j)
        BY <1>5, <2>1, <3>1, FakeIpAssumption DEF Release, TypeOK, Holders, Ips
      <4>2. Cardinality(Holders(j)') = Cardinality(Holders(j)) - 1
        BY <4>1, HoldersFinite, FS_RemoveElement
      <4>3. domain[ip] # None /\ refcount[ip] # 0
        BY <3>1, <4>1, UnheldIsFree
      <4> QED
        BY <1>5, <2>1, <3>1, <4>2, <4>3 DEF Release, TypeOK, RefcountExact
    <3>2. CASE j # ip
      <4>1. Holders(j)' = Holders(j)
        BY <1>5, <2>1, <3>2, FakeIpAssumption DEF Release, TypeOK, Holders, Ips
      <4> QED
        BY <1>5, <3>2, <4>1 DEF Release, TypeOK, RefcountExact
    <3> QED
      BY <3>1, <3>2
  <2> QED
    BY <2>2, <2>3, <2>4
<1>6. CASE Sweep
  <2>1. TypeOK'
    BY <1>6 DEF Sweep, TypeOK
  <2>2. MapsAgree'
    <3> SUFFICES ASSUME NEW d \in Domains, NEW ip \in Ips
                 PROVE  domain_to_ip'[d] = ip <=> domain'[ip] = d
      BY DEF MapsAgree
    <3>1. domain_to_ip[d] = ip <=> domain[ip] = d
      BY DEF MapsAgree
    <3>2. None # ip /\ None # d
      BY FakeIpAssumption DEF Ips
    <3>3. CASE Reclaimable(ip)
      BY <1>6, <3>1, <3>2, <3>3 DEF Sweep
    <3>4. CASE ~Reclaimable(ip)
      <4>1. ASSUME domain[ip] = d, NEW j \in Ips, Reclaimable(j), domain[j] = d
            PROVE  FALSE
        BY <3>1, <3>4, <4>1 DEF MapsAgree
      <4> QED
        BY <1>6, <3>1, <3>2, <3>4, <4>1 DEF Sweep
    <3> QED
      BY <3>3, <3>4
  <2>3. OpenedKnown'
    BY <1>6 DEF Sweep, OpenedKnown
  <2>4. RefcountExact'
    BY <1>6 DEF Sweep, RefcountExact, Holders
  <2>5. FlowKeepsDomain'
    <3> SUFFICES ASSUME ~exhausted, NEW f \in Flows, fake_ip[f] # None
                 PROVE  domain'[fake_ip[f]] = opened_as[f]
      BY <1>6 DEF FlowKeepsDomain, Sweep
    <3>1. fake_ip[f] \in Ips /\ f \in Holders(fake_ip[f])
      BY DEF TypeOK, Holders
    <3>2. ~Reclaimable(fake_ip[f])
      BY <3>1, UnheldIsFree DEF Reclaimable
    <3> QED
      BY <1>6, <3>1, <3>2 DEF Sweep, FlowKeepsDomain
  <2> QED
    BY <2>1, <2>2, <2>3, <2>4, <2>5
<1>7. CASE Tick
  <2>1. TypeOK'
    BY <1>7, FakeIpAssumption DEF Tick, TypeOK
  <2>2. (MapsAgree /\ OpenedKnown /\ FlowKeepsDomain)'
    BY <1>7 DEF Tick, MapsAgree, OpenedKnown, FlowKeepsDomain
  <2>3. RefcountExact'
    BY <1>7 DEF Tick, RefcountExact, Holders
  <2> QED
    BY <2>1, <2>2, <2>3
<1>8. CASE UNCHANGED vars
  BY <1>8 DEF vars, mapping, TypeOK, MapsAgree, OpenedKnown, RefcountExact,
              FlowKeepsDomain, Holders
<1> QED
  BY <1>1, <1>2, <1>3, <1>4, <1>5, <1>6, <1>7, <1>8 DEF Next

\* The pool is well-typed in every reachable state; in particular the cursor never
\* leaves the range (next_free_ip, advance_next).
THEOREM TypeCorrect == Spec => []TypeOK
<1>1. IInv => TypeOK
  BY DEF IInv
<1> QED
  BY <1>1, InitIInv, NextIInv, PTL DEF Spec

\* domain_to_ip and ip_to_mapping are inverse to each other after any sequence of
\* alloc, overwrite and sweep.
THEOREM MapsAlwaysAgree == Spec => []MapsAgree
<1>1. IInv => MapsAgree
  BY DEF IInv
<1> QED
  BY <1>1, InitIInv, NextIInv, PTL DEF Spec

\* Until next_free_ip has once found no free address, every count is exact: acquire
\* and release lose nothing and count nothing twice.
THEOREM RefcountAlwaysExact == Spec => []RefcountExact
<1>1. IInv => RefcountExact
  BY DEF IInv
<1> QED
  BY <1>1, InitIInv, NextIInv, PTL DEF Spec

\* Until then, neither sweep nor alloc ever takes the mapping of a live flow.
THEOREM FlowsKeepDomain == Spec => []FlowKeepsDomain
<1>1. IInv => FlowKeepsDomain
  BY DEF IInv
<1> QED
  BY <1>1, InitIInv, NextIInv, PTL DEF Spec
=============================================================================
