--------------------------- MODULE UdpFlowsProofs ---------------------------
(***************************************************************************)
(* UdpFlows' invariants for any tuples, addresses, id space and capacity.  *)
(* TargetStable rests on RefsExact: the pool forgets only an address whose *)
(* count is 0, which no association uses only if the count is exact; and   *)
(* RefsExact rests on every held address having a mapping, because a new   *)
(* mapping starts at count 0.                                              *)
(***************************************************************************)
EXTENDS UdpFlows, FiniteSetTheorems, TLAPS

\* The ids that hold a reference on ip.
Holders(ip) == {i \in Ids : id_to_fake_ip[i] = ip}

\* An address that an association holds has a mapping.
HeldMapped == \A i \in Ids : id_to_fake_ip[i] # None => domain[id_to_fake_ip[i]] # None

IInv == TypeOK /\ TablesAgree /\ RefsExact /\ HeldMapped /\ TargetStable

-----------------------------------------------------------------------------
\* Ids are finitely many positive numbers.
LEMMA IdsFinite == IsFiniteSet(Ids) /\ NoId \notin Ids /\ 1 \in Ids
<1>1. MAX_ID \in Nat /\ MAX_ID >= 1
  BY UdpFlowsAssumption
<1>2. IsFiniteSet(1..MAX_ID)
  BY <1>1, FS_Interval
<1> QED
  BY <1>1, <1>2 DEF Ids, NoId

\* Any set of ids is finite and has a cardinality.
LEMMA SomeIds ==
  ASSUME NEW S \in SUBSET Ids
  PROVE  IsFiniteSet(S) /\ Cardinality(S) \in Nat
<1>1. IsFiniteSet(S)
  BY IdsFinite, FS_Subset
<1> QED
  BY <1>1, FS_CardinalityType

\* What dropping the associations in "gone" leaves of an address' references: the
\* saturating release never saturates.
LEMMA ReleaseExact ==
  ASSUME RefsExact, NEW ip \in FakeIps, NEW gone \in SUBSET Ids
  PROVE  /\ Reclaimed(gone, ip) \in Nat /\ refcount[ip] \in Nat
         /\ Reclaimed(gone, ip) <= refcount[ip]
         /\ Cardinality(Holders(ip) \ gone) = refcount[ip] - Reclaimed(gone, ip)
<1>1. Holders(ip) \in SUBSET Ids /\ Holders(ip) \cap gone \in SUBSET Ids
  BY DEF Holders
<1>2. refcount[ip] = Cardinality(Holders(ip))
  BY DEF RefsExact, Holders
<1>3. {i \in gone : id_to_fake_ip[i] = ip} = Holders(ip) \cap gone
  BY DEF Holders
<1>4. Reclaimed(gone, ip) = Cardinality(Holders(ip) \cap gone)
  BY <1>3 DEF Reclaimed
<1>5. IsFiniteSet(Holders(ip)) /\ Cardinality(Holders(ip)) \in Nat
  BY <1>1, SomeIds
<1>6. Cardinality(Holders(ip) \cap gone) \in Nat
  BY <1>1, SomeIds
<1>7. Cardinality(Holders(ip) \cap gone) <= Cardinality(Holders(ip))
  <2>1. Holders(ip) \cap gone \in SUBSET Holders(ip)
    OBVIOUS
  <2> QED
    BY <1>5, <2>1, FS_Subset
<1>8. Cardinality(Holders(ip) \ gone)
        = Cardinality(Holders(ip)) - Cardinality(Holders(ip) \cap gone)
  BY <1>5, FS_Difference
<1> QED
  BY <1>2, <1>4, <1>5, <1>6, <1>7, <1>8

\* An address without a mapping, or without references, is held by nobody.
LEMMA UnheldIsFree ==
  ASSUME IInv, NEW ip \in FakeIps, domain[ip] = None \/ refcount[ip] = 0
  PROVE  Holders(ip) = {}
<1>1. CASE domain[ip] = None
  BY <1>1, UdpFlowsAssumption DEF IInv, HeldMapped, Holders
<1>2. CASE refcount[ip] = 0
  <2>1. Holders(ip) \in SUBSET Ids
    BY DEF Holders
  <2>2. IsFiniteSet(Holders(ip))
    BY <2>1, SomeIds
  <2>3. Cardinality(Holders(ip)) = 0
    BY <1>2 DEF IInv, RefsExact, Holders
  <2> QED
    BY <2>2, <2>3, FS_EmptySet
<1> QED
  BY <1>1, <1>2

-----------------------------------------------------------------------------
\* The empty table.
LEMMA InitIInv == Init => IInv
<1> SUFFICES ASSUME Init PROVE IInv
  OBVIOUS
<1>1. TypeOK
  <2>1. 0 \in 0..(UDP_FLOW_IDLE + 1)
    BY UdpFlowsAssumption
  <2> QED
    BY <2>1, IdsFinite DEF Init, TypeOK
<1>2. TablesAgree /\ HeldMapped /\ TargetStable
  BY IdsFinite, UdpFlowsAssumption
     DEF Init, TablesAgree, HeldMapped, TargetStable, Registered
<1>3. RefsExact
  <2>1. ASSUME NEW ip \in FakeIps
        PROVE  refcount[ip] = Cardinality({i \in Ids : id_to_fake_ip[i] = ip})
    <3>1. {i \in Ids : id_to_fake_ip[i] = ip} = {}
      BY UdpFlowsAssumption DEF Init
    <3> QED
      BY <3>1, FS_EmptySet DEF Init
  <2>2. \A i \in Ids : id_to_fake_ip[i] = IF tuple[i] = None THEN None ELSE DstIp[tuple[i]]
    BY DEF Init
  <2> QED
    BY <2>1, <2>2 DEF RefsExact
<1> QED
  BY <1>1, <1>2, <1>3 DEF IInv

\* A step that only touches associations, or lets time pass.
LEMMA TouchIInv ==
  ASSUME IInv, UNCHANGED <<tuple_to_id, tuple, id_to_fake_ip, next_id, pool, target>>,
         idle' \in [Ids -> 0..(UDP_FLOW_IDLE + 1)]
  PROVE  IInv'
<1>1. TypeOK'
  BY DEF IInv, TypeOK, pool
<1>2. TablesAgree' /\ HeldMapped'
  BY DEF IInv, TablesAgree, HeldMapped, pool
<1>3. RefsExact'
  BY DEF IInv, RefsExact, pool
<1>4. TargetStable'
  BY DEF IInv, TargetStable, TargetOf, Registered, pool
<1> QED
  BY <1>1, <1>2, <1>3, <1>4 DEF IInv

\* The first packet of a flow.
LEMMA UplinkNewIInv ==
  ASSUME IInv, NEW t \in Tuples, UplinkNew(t)
  PROVE  IInv'
<1>1. PICK gone \in {{}} \cup {{v} : v \in Registered}, id \in Ids :
        /\ AllocId(id, gone) /\ Replace(gone, id, t)
        /\ AcquireRelease(DstIp[t], gone) /\ idle' = [idle EXCEPT ![id] = 0]
  BY DEF UplinkNew, Touch
<1>2. gone \in SUBSET Ids /\ gone \subseteq Registered
  BY DEF Registered
<1>3. tuple_to_id[t] = NoId /\ Resolves(t) /\ domain' = domain
  BY DEF UplinkNew, Touch
<1>4. id \notin Registered \ gone
  BY <1>1 DEF AllocId
<1>5. t # None /\ DstIp[t] \in FakeIps \cup {None} /\ None \notin FakeIps
  BY UdpFlowsAssumption
<1>6. \A i \in Ids : /\ tuple'[i] = IF i = id THEN t ELSE IF i \in gone THEN None ELSE tuple[i]
                     /\ id_to_fake_ip'[i] = IF i = id THEN DstIp[t]
                                            ELSE IF i \in gone THEN None ELSE id_to_fake_ip[i]
                     /\ target'[i] = IF i = id THEN TargetOf(t)
                                     ELSE IF i \in gone THEN None ELSE target[i]
  BY <1>1 DEF Replace
<1>7. \A u \in Tuples : tuple_to_id'[u] = IF u = t THEN id
                                          ELSE IF tuple_to_id[u] \in gone THEN NoId
                                          ELSE tuple_to_id[u]
  BY <1>1 DEF Replace
<1>8. \A ip \in FakeIps :
        refcount'[ip] = refcount[ip] + (IF ip = DstIp[t] THEN 1 ELSE 0) - Reclaimed(gone, ip)
  <2> TAKE ip \in FakeIps
  <2>1. /\ Reclaimed(gone, ip) \in Nat /\ refcount[ip] \in Nat
        /\ Reclaimed(gone, ip) <= refcount[ip]
    BY <1>2, ReleaseExact DEF IInv
  <2>2. refcount'[ip] = LET n == refcount[ip] + (IF ip = DstIp[t] THEN 1 ELSE 0)
                            m == Reclaimed(gone, ip)
                        IN  IF n > m THEN n - m ELSE 0
    BY <1>1 DEF AcquireRelease
  <2> QED
    BY <2>1, <2>2
<1>9. TypeOK'
  <2>1. next_id' \in Ids
    <3>1. next_id' = IF id = MAX_ID THEN 1 ELSE id + 1
      BY <1>1 DEF AllocId
    <3> QED
      BY <3>1, UdpFlowsAssumption DEF Ids
  <2>2. refcount' \in [FakeIps -> Nat]
    <3>1. refcount' = [ip \in FakeIps |-> refcount'[ip]]
      BY <1>1 DEF AcquireRelease
    <3>2. \A ip \in FakeIps : refcount'[ip] \in Nat
      <4> TAKE ip \in FakeIps
      <4>1. /\ Reclaimed(gone, ip) \in Nat /\ refcount[ip] \in Nat
            /\ Reclaimed(gone, ip) <= refcount[ip]
        BY <1>2, ReleaseExact DEF IInv
      <4> QED
        BY <1>8, <4>1
    <3> QED
      BY <3>1, <3>2
  <2>3. TargetOf(t) \in Domains \cup {None}
    BY <1>5 DEF TargetOf, IInv, TypeOK
  <2>4. idle' \in [Ids -> 0..(UDP_FLOW_IDLE + 1)]
    BY <1>1, UdpFlowsAssumption DEF IInv, TypeOK
  <2>5. tuple_to_id' \in [Tuples -> Ids \cup {NoId}] /\ tuple' \in [Ids -> Tuples \cup {None}]
    BY <1>1 DEF Replace, IInv, TypeOK
  <2>6. id_to_fake_ip' \in [Ids -> FakeIps \cup {None}]
    BY <1>1, <1>5 DEF Replace, IInv, TypeOK
  <2>7. target' \in [Ids -> Domains \cup {None}]
    BY <1>1, <2>3 DEF Replace, IInv, TypeOK
  <2> QED
    BY <1>3, <2>1, <2>2, <2>4, <2>5, <2>6, <2>7 DEF TypeOK, IInv
<1>10. TablesAgree'
  <2> SUFFICES ASSUME NEW u \in Tuples, NEW i \in Ids
               PROVE  tuple_to_id'[u] = i <=> tuple'[i] = u
    BY DEF TablesAgree
  <2>1. tuple_to_id[u] = i <=> tuple[i] = u
    BY DEF IInv, TablesAgree
  <2>2. tuple_to_id[u] = id => tuple[id] = u
    BY DEF IInv, TablesAgree
  <2>3. tuple[i] # t
    BY <1>3, IdsFinite DEF IInv, TablesAgree
  <2>4. u # None /\ i # NoId /\ id # NoId
    BY IdsFinite, UdpFlowsAssumption
  <2>5. tuple_to_id[u] = id => id \in gone
    BY <1>4, <2>2, <2>4 DEF Registered
  <2> QED
    BY <1>6, <1>7, <2>1, <2>3, <2>4, <2>5
<1>11. RefsExact'
  <2>1. ASSUME NEW ip \in FakeIps
        PROVE  refcount'[ip] = Cardinality({i \in Ids : id_to_fake_ip'[i] = ip})
    <3>1. Cardinality(Holders(ip) \ gone) = refcount[ip] - Reclaimed(gone, ip)
      BY <1>2, ReleaseExact DEF IInv
    <3>2. id \notin Holders(ip) \ gone
      BY <1>4, <1>5 DEF Holders, Registered, IInv, RefsExact
    <3>3. ip # None
      BY <1>5
    <3>4. Holders(ip) \ gone \in SUBSET Ids
      BY DEF Holders
    <3>5. IsFiniteSet(Holders(ip) \ gone)
      BY <3>4, SomeIds
    <3>6. refcount[ip] \in Nat /\ Reclaimed(gone, ip) \in Nat
      BY <1>2, ReleaseExact DEF IInv
    <3>7. CASE ip = DstIp[t]
      <4>1. {i \in Ids : id_to_fake_ip'[i] = ip} = (Holders(ip) \ gone) \cup {id}
        BY <1>6, <3>3, <3>7 DEF Holders
      <4>2. Cardinality((Holders(ip) \ gone) \cup {id}) = Cardinality(Holders(ip) \ gone) + 1
        BY <3>2, <3>5, FS_AddElement
      <4>3. refcount'[ip] = refcount[ip] + 1 - Reclaimed(gone, ip)
        BY <1>8, <3>7
      <4>4. refcount[ip] + 1 - Reclaimed(gone, ip) = (refcount[ip] - Reclaimed(gone, ip)) + 1
        BY <3>6
      <4>5. refcount'[ip] = Cardinality(Holders(ip) \ gone) + 1
        BY <3>1, <4>3, <4>4, Zenon
      <4> QED
        BY <4>1, <4>2, <4>5, Zenon
    <3>8. CASE ip # DstIp[t]
      <4>1. {i \in Ids : id_to_fake_ip'[i] = ip} = Holders(ip) \ gone
        BY <1>6, <3>2, <3>3, <3>8 DEF Holders
      <4>2. refcount'[ip] = refcount[ip] + 0 - Reclaimed(gone, ip)
        BY <1>8, <3>8
      <4>3. refcount[ip] + 0 - Reclaimed(gone, ip) = refcount[ip] - Reclaimed(gone, ip)
        BY <3>6
      <4> QED
        BY <3>1, <4>1, <4>2, <4>3, Zenon
    <3> QED
      BY <3>7, <3>8
  <2>2. \A i \in Ids : id_to_fake_ip'[i] = IF tuple'[i] = None THEN None ELSE DstIp[tuple'[i]]
    BY <1>5, <1>6 DEF IInv, RefsExact
  <2> QED
    BY <2>1, <2>2 DEF RefsExact
<1>12. HeldMapped'
  BY <1>3, <1>6 DEF IInv, HeldMapped, Resolves
<1>13. TargetStable'
  BY <1>3, <1>5, <1>6 DEF IInv, TargetStable, Registered, TargetOf
<1> QED
  BY <1>9, <1>10, <1>11, <1>12, <1>13 DEF IInv

\* The sweep drops any number of associations at once.
LEMMA SweepIInv ==
  ASSUME IInv, Sweep
  PROVE  IInv'
<1>1. Expired \in SUBSET Ids
  BY DEF Expired, Registered
<1>2. /\ domain' = domain /\ idle' = idle /\ next_id' = next_id
      /\ None \notin FakeIps
  BY UdpFlowsAssumption DEF Sweep
<1>3. \A i \in Ids : /\ tuple'[i] = IF i \in Expired THEN None ELSE tuple[i]
                     /\ id_to_fake_ip'[i] = IF i \in Expired THEN None ELSE id_to_fake_ip[i]
                     /\ target'[i] = IF i \in Expired THEN None ELSE target[i]
  BY DEF Sweep
<1>4. \A t \in Tuples :
        tuple_to_id'[t] = IF tuple_to_id[t] \in Expired THEN NoId ELSE tuple_to_id[t]
  BY DEF Sweep
<1>5. \A ip \in FakeIps : /\ refcount'[ip] = refcount[ip] - Reclaimed(Expired, ip)
                          /\ refcount'[ip] \in Nat
  <2> TAKE ip \in FakeIps
  <2>1. /\ Reclaimed(Expired, ip) \in Nat /\ refcount[ip] \in Nat
        /\ Reclaimed(Expired, ip) <= refcount[ip]
    BY <1>1, ReleaseExact DEF IInv
  <2>2. refcount'[ip] = LET n == refcount[ip] + (IF ip = None THEN 1 ELSE 0)
                            m == Reclaimed(Expired, ip)
                        IN  IF n > m THEN n - m ELSE 0
    BY DEF Sweep, AcquireRelease
  <2> QED
    BY <1>2, <2>1, <2>2
<1>6. TypeOK'
  <2>1. refcount' = [ip \in FakeIps |-> refcount'[ip]]
    BY DEF Sweep, AcquireRelease
  <2>2. refcount' \in [FakeIps -> Nat]
    BY <1>5, <2>1
  <2>3. tuple_to_id' \in [Tuples -> Ids \cup {NoId}] /\ tuple' \in [Ids -> Tuples \cup {None}]
    BY DEF Sweep, IInv, TypeOK
  <2>4. /\ id_to_fake_ip' \in [Ids -> FakeIps \cup {None}]
        /\ target' \in [Ids -> Domains \cup {None}]
    BY DEF Sweep, IInv, TypeOK
  <2> QED
    BY <1>2, <2>2, <2>3, <2>4 DEF IInv, TypeOK
<1>7. TablesAgree'
  <2> SUFFICES ASSUME NEW t \in Tuples, NEW i \in Ids
               PROVE  tuple_to_id'[t] = i <=> tuple'[i] = t
    BY DEF TablesAgree
  <2>1. tuple_to_id[t] = i <=> tuple[i] = t
    BY DEF IInv, TablesAgree
  <2>2. t # None /\ i # NoId
    BY IdsFinite, UdpFlowsAssumption
  <2> QED
    BY <1>3, <1>4, <2>1, <2>2
<1>8. RefsExact'
  <2>1. ASSUME NEW ip \in FakeIps
        PROVE  refcount'[ip] = Cardinality({i \in Ids : id_to_fake_ip'[i] = ip})
    <3>1. {i \in Ids : id_to_fake_ip'[i] = ip} = Holders(ip) \ Expired
      BY <1>2, <1>3 DEF Holders
    <3>2. Cardinality(Holders(ip) \ Expired) = refcount[ip] - Reclaimed(Expired, ip)
      BY <1>1, ReleaseExact DEF IInv
    <3> QED
      BY <1>5, <3>1, <3>2
  <2>2. \A i \in Ids : id_to_fake_ip'[i] = IF tuple'[i] = None THEN None ELSE DstIp[tuple'[i]]
    BY <1>3 DEF IInv, RefsExact
  <2> QED
    BY <2>1, <2>2 DEF RefsExact
<1>9. HeldMapped'
  BY <1>2, <1>3 DEF IInv, HeldMapped
<1>10. TargetStable'
  BY <1>2, <1>3 DEF IInv, TargetStable, Registered, TargetOf
<1> QED
  BY <1>6, <1>7, <1>8, <1>9, <1>10 DEF IInv

\* The pool changes the mapping of an address nobody holds.
LEMMA PoolIInv ==
  ASSUME IInv, NEW ip \in FakeIps, NEW d \in Domains \cup {None},
         Holders(ip) = {}, domain' = [domain EXCEPT ![ip] = d],
         refcount' = refcount \/ refcount' = [refcount EXCEPT ![ip] = 0],
         UNCHANGED <<tuple_to_id, tuple, idle, id_to_fake_ip, next_id, target>>
  PROVE  IInv'
<1>1. refcount[ip] = 0
  <2>1. refcount[ip] = Cardinality(Holders(ip))
    BY DEF IInv, RefsExact, Holders
  <2> QED
    BY <2>1, FS_EmptySet
<1>2. refcount' = refcount
  BY <1>1 DEF IInv, TypeOK
<1>3. TypeOK'
  BY <1>2 DEF IInv, TypeOK
<1>4. TablesAgree' /\ RefsExact'
  BY <1>2 DEF IInv, TablesAgree, RefsExact
<1>5. \A i \in Ids : id_to_fake_ip[i] # ip
  BY DEF Holders
<1>6. HeldMapped'
  BY <1>5 DEF IInv, HeldMapped, TypeOK
<1>7. TargetStable'
  <2> SUFFICES ASSUME NEW i \in Registered PROVE target[i] = TargetOf(tuple[i])'
    BY DEF TargetStable, Registered
  <2>1. DstIp[tuple[i]] # ip
    BY <1>5 DEF Registered, IInv, RefsExact
  <2>2. tuple[i] \in Tuples /\ DstIp[tuple[i]] \in FakeIps \cup {None}
    BY UdpFlowsAssumption DEF Registered, IInv, TypeOK
  <2>3. target[i] = TargetOf(tuple[i])
    BY DEF IInv, TargetStable
  <2> QED
    BY <2>1, <2>2, <2>3 DEF TargetOf, IInv, TypeOK
<1> QED
  BY <1>3, <1>4, <1>6, <1>7 DEF IInv

\* Every step keeps the invariant.
LEMMA NextIInv == IInv /\ [Next]_vars => IInv'
<1> SUFFICES ASSUME IInv, [Next]_vars PROVE IInv'
  OBVIOUS
<1>0. \A i \in Ids : [idle EXCEPT ![i] = 0] \in [Ids -> 0..(UDP_FLOW_IDLE + 1)]
  BY UdpFlowsAssumption DEF IInv, TypeOK
<1>1. ASSUME NEW t \in Tuples, UplinkNew(t) PROVE IInv'
  BY <1>1, UplinkNewIInv
<1>2. ASSUME NEW t \in Tuples, UplinkKnown(t) PROVE IInv'
  <2>1. tuple_to_id[t] \in Ids
    BY <1>2 DEF UplinkKnown, IInv, TypeOK
  <2> QED
    BY <1>0, <1>2, <2>1, TouchIInv DEF UplinkKnown, Touch
<1>3. ASSUME NEW i \in Ids, Downlink(i) PROVE IInv'
  BY <1>0, <1>3, TouchIInv DEF Downlink, Touch
<1>4. ASSUME NEW ip \in FakeIps, PoolSweep(ip) PROVE IInv'
  <2>1. Holders(ip) = {}
    BY <1>4, UnheldIsFree DEF PoolSweep
  <2> QED
    BY <1>4, <2>1, PoolIInv DEF PoolSweep
<1>5. ASSUME NEW ip \in FakeIps, NEW d \in Domains, PoolAlloc(ip, d) PROVE IInv'
  <2>1. Holders(ip) = {}
    BY <1>5, UnheldIsFree DEF PoolAlloc
  <2> QED
    BY <1>5, <2>1, PoolIInv DEF PoolAlloc
<1>6. CASE Sweep
  BY <1>6, SweepIInv
<1>7. CASE Tick
  <2>1. idle' \in [Ids -> 0..(UDP_FLOW_IDLE + 1)]
    BY <1>7, UdpFlowsAssumption DEF Tick, IInv, TypeOK
  <2> QED
    BY <1>7, <2>1, TouchIInv DEF Tick
<1>8. CASE UNCHANGED vars
  BY <1>8, TouchIInv DEF vars, IInv, TypeOK
<1> QED
  BY <1>1, <1>2, <1>3, <1>4, <1>5, <1>6, <1>7, <1>8 DEF Next

\* The inductive invariant holds in every reachable state.
THEOREM Invariance == Spec => []IInv
<1>1. Init => IInv
  BY InitIInv
<1>2. IInv /\ [Next]_vars => IInv'
  BY NextIInv
<1> QED
  BY <1>1, <1>2, PTL DEF Spec

-----------------------------------------------------------------------------
\* Every id, age, address and count of the table stays in its range.
THEOREM TypeCorrect == Spec => []TypeOK
<1>1. IInv => TypeOK
  BY DEF IInv
<1> QED
  BY <1>1, Invariance, PTL

\* An id and a tuple determine each other, for any id space, however often the id
\* wraps (intern, alloc_id, evict_lru, sweep).
THEOREM TablesAlwaysAgree == Spec => []TablesAgree
<1>1. IInv => TablesAgree
  BY DEF IInv
<1> QED
  BY <1>1, Invariance, PTL

\* The references of the table on the fake-IP pool are counted exactly.
THEOREM RefsAlwaysExact == Spec => []RefsExact
<1>1. IInv => RefsExact
  BY DEF IInv
<1> QED
  BY <1>1, Invariance, PTL

\* An association keeps the name it was opened for.
THEOREM TargetAlwaysStable == Spec => []TargetStable
<1>1. IInv => TargetStable
  BY DEF IInv
<1> QED
  BY <1>1, Invariance, PTL

-----------------------------------------------------------------------------
\* Registered ids before and after the first packet of a flow.
LEMMA UplinkNewCap ==
  ASSUME IInv, WithinCap, NEW t \in Tuples, UplinkNew(t)
  PROVE  WithinCap'
<1>1. PICK gone \in {{}} \cup {{v} : v \in Registered}, id \in Ids :
        Evicted(gone) /\ Replace(gone, id, t)
  BY DEF UplinkNew, Touch
<1>2. Registered' \subseteq (Registered \ gone) \cup {id}
  BY <1>1 DEF Registered, Replace
<1>3. Registered \in SUBSET Ids /\ Registered \ gone \in SUBSET Ids
  BY DEF Registered
<1>4. /\ IsFiniteSet(Registered) /\ Cardinality(Registered) \in Nat
      /\ IsFiniteSet(Registered \ gone) /\ Cardinality(Registered \ gone) \in Nat
  BY <1>3, SomeIds
<1>5. MAX_UDP_FLOWS \in Nat /\ Cardinality(Registered) <= MAX_UDP_FLOWS
  BY UdpFlowsAssumption DEF WithinCap
<1>6. Cardinality(Registered \ gone) + 1 <= MAX_UDP_FLOWS
  <2>1. CASE Cardinality(Registered) >= MAX_UDP_FLOWS
    <3>1. PICK v \in Registered : gone = {v}
      BY <1>1, <2>1 DEF Evicted
    <3>2. Cardinality(Registered \ {v}) = Cardinality(Registered) - 1
      BY <1>4, FS_RemoveElement
    <3> QED
      BY <1>4, <1>5, <3>1, <3>2
  <2>2. CASE ~(Cardinality(Registered) >= MAX_UDP_FLOWS)
    <3>1. gone = {}
      BY <1>1, <2>2 DEF Evicted
    <3>2. Registered \ gone = Registered
      BY <3>1
    <3> QED
      BY <1>4, <1>5, <2>2, <3>2
  <2> QED
    BY <2>1, <2>2
<1>7. /\ IsFiniteSet((Registered \ gone) \cup {id})
      /\ Cardinality((Registered \ gone) \cup {id}) <= Cardinality(Registered \ gone) + 1
  <2>1. CASE id \in Registered \ gone
    <3>1. (Registered \ gone) \cup {id} = Registered \ gone
      BY <2>1
    <3> QED
      BY <1>4, <3>1
  <2>2. CASE id \notin Registered \ gone
    <3>1. /\ IsFiniteSet((Registered \ gone) \cup {id})
          /\ Cardinality((Registered \ gone) \cup {id}) = Cardinality(Registered \ gone) + 1
      <4> DEFINE R == Registered \ gone
      <4>1. IsFiniteSet(R) /\ id \notin R
        BY <1>4, <2>2
      <4> HIDE DEF R
      <4>2. IsFiniteSet(R \cup {id}) /\ Cardinality(R \cup {id}) = Cardinality(R) + 1
        BY <4>1, FS_AddElement
      <4> QED
        BY <4>2 DEF R
    <3> QED
      BY <1>4, <3>1
  <2> QED
    BY <2>1, <2>2
<1>8. Cardinality(Registered') <= Cardinality((Registered \ gone) \cup {id})
  BY <1>2, <1>7, FS_Subset
<1>9. Cardinality(Registered') \in Nat /\ Cardinality((Registered \ gone) \cup {id}) \in Nat
  BY <1>2, <1>7, FS_Subset, FS_CardinalityType
<1> QED
  BY <1>4, <1>5, <1>6, <1>7, <1>8, <1>9 DEF WithinCap

\* No other step registers an id.
LEMMA NextCap == IInv /\ WithinCap /\ [Next]_vars => WithinCap'
<1> SUFFICES ASSUME IInv, WithinCap, [Next]_vars PROVE WithinCap'
  OBVIOUS
<1>1. ASSUME NEW t \in Tuples, UplinkNew(t) PROVE WithinCap'
  BY <1>1, UplinkNewCap
<1>2. CASE UNCHANGED tuple
  BY <1>2 DEF WithinCap, Registered
<1>3. CASE Sweep
  <2>1. Registered' \in SUBSET Registered
    BY <1>3 DEF Sweep, Registered
  <2>2. IsFiniteSet(Registered) /\ Cardinality(Registered) \in Nat
    BY SomeIds DEF Registered
  <2>3. Cardinality(Registered') <= Cardinality(Registered) /\ Cardinality(Registered') \in Nat
    BY <2>1, <2>2, FS_Subset, FS_CardinalityType
  <2> QED
    BY <2>2, <2>3, UdpFlowsAssumption DEF WithinCap
<1>4. (\E t \in Tuples : UplinkNew(t)) \/ UNCHANGED tuple \/ Sweep
  BY DEF Next, UplinkKnown, Downlink, PoolAlloc, PoolSweep, Tick, vars
<1> QED
  BY <1>1, <1>2, <1>3, <1>4

\* The table never outgrows its capacity, for any capacity below the id space.
THEOREM CapAlwaysRespected == Spec => []WithinCap
<1>1. Init => WithinCap
  <2>1. Init => Registered = {}
    BY DEF Init, Registered
  <2> QED
    BY <2>1, FS_EmptySet, UdpFlowsAssumption DEF WithinCap
<1>2. IInv /\ WithinCap /\ [Next]_vars => WithinCap'
  BY NextCap
<1> QED
  BY <1>1, <1>2, Invariance, PTL DEF Spec

\* evict_lru and sweep drop nothing but an expired association, or the longest idle
\* one of a full table.
THEOREM OldestIsDropped == Spec => DropsOldest
<1> DEFINE Drop == \A i \in Registered : tuple'[i] # tuple[i] =>
                     \/ idle[i] > UDP_FLOW_IDLE
                     \/ /\ Cardinality(Registered) = MAX_UDP_FLOWS
                        /\ \A j \in Registered : idle[j] <= idle[i]
<1>1. ASSUME IInv, WithinCap, Next, NEW i \in Registered, tuple'[i] # tuple[i]
      PROVE  \/ idle[i] > UDP_FLOW_IDLE
             \/ /\ Cardinality(Registered) = MAX_UDP_FLOWS
                /\ \A j \in Registered : idle[j] <= idle[i]
  <2>1. (\E t \in Tuples : UplinkNew(t)) \/ Sweep
    BY <1>1 DEF Next, UplinkKnown, Downlink, PoolAlloc, PoolSweep, Tick
  <2>2. i \in Ids
    BY DEF Registered
  <2>3. CASE Sweep
    BY <1>1, <2>2, <2>3 DEF Sweep, Expired
  <2>4. ASSUME NEW t \in Tuples, UplinkNew(t)
        PROVE  /\ Cardinality(Registered) = MAX_UDP_FLOWS
               /\ \A j \in Registered : idle[j] <= idle[i]
    <3>1. PICK gone \in {{}} \cup {{v} : v \in Registered}, id \in Ids :
            Evicted(gone) /\ AllocId(id, gone) /\ Replace(gone, id, t)
      BY <2>4 DEF UplinkNew, Touch
    <3>2. id \notin Registered \ gone
      BY <3>1 DEF AllocId
    <3>3. i \in gone
      BY <1>1, <2>2, <3>1, <3>2 DEF Replace
    <3>4. Cardinality(Registered) >= MAX_UDP_FLOWS /\ EvictLru(i)
      BY <3>1, <3>3 DEF Evicted
    <3>5. Cardinality(Registered) \in Nat
      BY SomeIds DEF Registered
    <3>6. Cardinality(Registered) = MAX_UDP_FLOWS
      BY <1>1, <3>4, <3>5, UdpFlowsAssumption DEF WithinCap
    <3>7. \A j \in Registered : idle[j] \in Nat
      BY <1>1, UdpFlowsAssumption DEF IInv, TypeOK, Registered
    <3>8. \A j \in Registered : idle[j] <= idle[i]
      BY <3>4, <3>7 DEF EvictLru
    <3> QED
      BY <3>6, <3>8
  <2> QED
    BY <2>1, <2>3, <2>4
<1>2. IInv /\ WithinCap /\ [Next]_vars => [Drop]_vars
  BY <1>1
<1> QED
  BY <1>2, Invariance, CapAlwaysRespected, PTL DEF Spec, DropsOldest
=============================================================================
