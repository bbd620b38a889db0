---------------------------- MODULE IngressProofs ----------------------------
(***************************************************************************)
(* The pool's invariants again, now for the pool driven by the packet      *)
(* dispatch, and the properties of the composition, for any number of      *)
(* domains, addresses, ports and listeners.                                *)
(*                                                                         *)
(* TargetIsAsked rests on the age of an answer bounding the idle time of   *)
(* its address from above: a sweep needs an idle time above FAKE_IP_TTL,   *)
(* so it cannot reclaim the address of an answer that is younger.          *)
(***************************************************************************)
EXTENDS Ingress, FakeIpPoolProofs

States == {"Listen", "Accepted", "Relaying", "Closed"}
Sockets == [port : Ports, state : States]

\* A registry r: its count of sockets and the two limits.
RegistryOK(r) ==
  /\ r \in [ports : SUBSET Ports, total : Nat, sockets : Seq(Sockets)]
  /\ IsFiniteSet(r.ports) /\ Cardinality(r.ports) <= MAX_INTERCEPTED_PORTS
  /\ r.total = Len(r.sockets)
  /\ r.total <= MAX_TOTAL_LISTENERS + pool_size * Cardinality(r.ports)

\* q is r with listeners of port p added at the end.
Extends(r, q, p) ==
  /\ r.ports \subseteq q.ports /\ Len(r.sockets) <= Len(q.sockets)
  /\ \A h \in 1..Len(q.sockets) :
       q.sockets[h] = IF h <= Len(r.sockets) THEN r.sockets[h]
                      ELSE [port |-> p, state |-> "Listen"]

\* A fresh answer d = ip holds in the maps dm and id: ip is d's, and idle no longer than
\* the answer is old.
Holds(ip, d, age, dm, id) == age <= FAKE_IP_TTL => dm[ip] = d /\ id[ip] <= age

FlowsOK ==
  /\ cache = NoAnswer \/ cache \in [domain : Domains, ip : Ips, age : Nat]
  /\ asked \in [Flows -> [domain : Domains \cup {None}, age : Nat]]
  /\ dst \in [Flows -> [ip : Ips \cup {None}, port : Ports \cup {None}]]
  /\ \A f \in Flows : Waiting(f) => dst[f].ip \in Ips /\ asked[f].domain \in Domains
  /\ \A f \in Flows : fake_ip[f] # None => Socket(f, "Relaying")

AnswersHold ==
  ~exhausted =>
    /\ cache # NoAnswer => Holds(cache.ip, cache.domain, cache.age, domain, idle)
    /\ \A f \in Flows :
         Waiting(f) => Holds(dst[f].ip, asked[f].domain, asked[f].age, domain, idle)

CInv ==
  /\ IInv /\ RegistryOK(registry) /\ dropped \in BOOLEAN /\ SynDroppedOnlyAtLimit
  /\ FlowsOK /\ AnswersHold /\ TargetIsAsked

-----------------------------------------------------------------------------
\* build_listener_socket n times, at the end of the socket set.
LEMMA ListenersAppended ==
  ASSUME NEW s \in Seq(Sockets), NEW p \in Ports, NEW n \in Nat
  PROVE  /\ s \o Listeners(p, n) \in Seq(Sockets)
         /\ Len(s \o Listeners(p, n)) = Len(s) + n
         /\ \A h \in 1..(Len(s) + n) :
              (s \o Listeners(p, n))[h] = IF h <= Len(s) THEN s[h]
                                          ELSE [port |-> p, state |-> "Listen"]
<1> DEFINE t == Listeners(p, n)
<1>1. t \in Seq(Sockets) /\ Len(t) = n
  BY DEF Listeners, Sockets, States
<1>2. \A i \in 1..n : t[i] = [port |-> p, state |-> "Listen"]
  BY DEF Listeners
<1> HIDE DEF t
<1>3. s \o t \in Seq(Sockets) /\ Len(s \o t) = Len(s) + n
  BY <1>1
<1>4. ASSUME NEW h \in 1..(Len(s) + n)
      PROVE  (s \o t)[h] = IF h <= Len(s) THEN s[h] ELSE [port |-> p, state |-> "Listen"]
  <2>1. (s \o t)[h] = IF h <= Len(s) THEN s[h] ELSE t[h - Len(s)]
    BY <1>1
  <2>2. ~(h <= Len(s)) => h - Len(s) \in 1..n
    OBVIOUS
  <2> QED
    BY <2>1, <2>2, <1>2
<1> QED
  BY <1>3, <1>4 DEF t

LEMMA EnsurePortOK ==
  ASSUME NEW r, RegistryOK(r), NEW p \in Ports
  PROVE  /\ RegistryOK(EnsurePort(r, p)) /\ Extends(r, EnsurePort(r, p), p)
         /\ p \in EnsurePort(r, p).ports
              \/ Cardinality(EnsurePort(r, p).ports) >= MAX_INTERCEPTED_PORTS
<1>1. CASE p \in r.ports \/ Cardinality(r.ports) >= MAX_INTERCEPTED_PORTS
  <2>1. EnsurePort(r, p) = r
    BY <1>1 DEF EnsurePort
  <2>2. r.sockets \in Seq(Sockets) /\ Len(r.sockets) \in Nat
    BY DEF RegistryOK
  <2>3. Extends(r, r, p)
    BY <2>2 DEF Extends
  <2> QED
    BY <2>1, <2>3, <1>1
<1>2. CASE p \notin r.ports /\ ~(Cardinality(r.ports) >= MAX_INTERCEPTED_PORTS)
  <2> DEFINE q == EnsurePort(r, p)
             c == Cardinality(r.ports)
  <2>1. q = [ports |-> r.ports \cup {p}, total |-> r.total + pool_size,
             sockets |-> r.sockets \o Listeners(p, pool_size)]
    BY <1>2 DEF EnsurePort
  <2>2. r.sockets \in Seq(Sockets) /\ Len(r.sockets) \in Nat /\ r.total \in Nat
        /\ r.total = Len(r.sockets) /\ r.ports \subseteq Ports
    BY DEF RegistryOK
  <2>3. /\ q.sockets \in Seq(Sockets) /\ Len(q.sockets) = Len(r.sockets) + pool_size
        /\ \A h \in 1..Len(q.sockets) :
             q.sockets[h] = IF h <= Len(r.sockets) THEN r.sockets[h]
                            ELSE [port |-> p, state |-> "Listen"]
    <3> DEFINE t == r.sockets \o Listeners(p, pool_size)
    <3>1. /\ t \in Seq(Sockets) /\ Len(t) = Len(r.sockets) + pool_size
          /\ \A h \in 1..(Len(r.sockets) + pool_size) :
               t[h] = IF h <= Len(r.sockets) THEN r.sockets[h]
                      ELSE [port |-> p, state |-> "Listen"]
      BY <2>2, ListenersAppended, RegistryAssumption
    <3>2. q.sockets = t
      BY <2>1
    <3> HIDE DEF t, q
    <3> QED
      BY <3>1, <3>2
  <2>4. c \in Nat /\ IsFiniteSet(q.ports) /\ Cardinality(q.ports) = c + 1
    <3>1. IsFiniteSet(r.ports) /\ p \notin r.ports
      BY <1>2 DEF RegistryOK
    <3>2. IsFiniteSet(r.ports \cup {p}) /\ Cardinality(r.ports \cup {p}) = c + 1 /\ c \in Nat
      BY <3>1, FS_AddElement, FS_CardinalityType
    <3> QED
      BY <3>2, <2>1
  <2> HIDE DEF c
  <2>5. c + 1 <= MAX_INTERCEPTED_PORTS
    BY <2>4, <1>2, RegistryAssumption DEF c
  <2>6. r.total + pool_size <= MAX_TOTAL_LISTENERS + pool_size * (c + 1)
    <3>1. r.total <= MAX_TOTAL_LISTENERS + pool_size * c
      BY DEF RegistryOK, c
    <3>2. pool_size * (c + 1) = pool_size * c + pool_size /\ pool_size * c \in Nat
      BY <2>4, RegistryAssumption
    <3> QED
      BY <3>1, <3>2, <2>2, RegistryAssumption
  <2>7. RegistryOK(q)
    <3>1. q \in [ports : SUBSET Ports, total : Nat, sockets : Seq(Sockets)]
      BY <2>1, <2>2, <2>3, RegistryAssumption
    <3> QED
      BY <3>1, <2>1, <2>2, <2>3, <2>4, <2>5, <2>6 DEF RegistryOK
  <2>8. Extends(r, q, p)
    BY <2>1, <2>2, <2>3, RegistryAssumption DEF Extends
  <2> QED
    BY <2>1, <2>7, <2>8
<1> QED
  BY <1>1, <1>2

\* The listeners missing fit under the global cap.
LEMMA MissingFits ==
  ASSUME NEW r, RegistryOK(r), NEW p \in Ports
  PROVE  /\ Missing(r, p) \in Nat
         /\ Missing(r, p) > 0 => r.total + Missing(r, p) <= MAX_TOTAL_LISTENERS
         /\ Missing(r, p) = 0 => \/ p \notin r.ports
                                 \/ Cardinality(Spare(r, p)) >= MIN_SPARE_LISTENERS
                                 \/ r.total >= MAX_TOTAL_LISTENERS
<1>1. Cardinality(Spare(r, p)) \in Nat
  <2>1. IsFiniteSet(DOMAIN r.sockets)
    <3>1. DOMAIN r.sockets = 1..Len(r.sockets) /\ Len(r.sockets) \in Nat
      BY DEF RegistryOK
    <3> QED
      BY <3>1, FS_Interval
  <2>2. IsFiniteSet(Spare(r, p))
    BY <2>1, FS_Subset DEF Spare
  <2> QED
    BY <2>2, FS_CardinalityType
<1>2. r.total \in Nat
  BY DEF RegistryOK
<1> DEFINE want == MIN_SPARE_LISTENERS - Cardinality(Spare(r, p))
           room == MAX_TOTAL_LISTENERS - r.total
<1>3. want \in Int /\ room \in Int
  BY <1>1, <1>2, RegistryAssumption
<1>4. Missing(r, p) = IF p \notin r.ports \/ want <= 0 \/ room <= 0 THEN 0
                      ELSE IF want <= room THEN want ELSE room
  BY DEF Missing
<1>5. /\ Missing(r, p) \in Nat
      /\ Missing(r, p) > 0 => Missing(r, p) <= room
      /\ Missing(r, p) = 0 => p \notin r.ports \/ want <= 0 \/ room <= 0
  <2> HIDE DEF want, room
  <2> QED
    BY <1>3, <1>4
<1> QED
  BY <1>1, <1>2, <1>5, RegistryAssumption

LEMMA EnsureSpareOK ==
  ASSUME NEW r, RegistryOK(r), NEW p \in Ports
  PROVE  /\ RegistryOK(EnsureSpareListeners(r, p))
         /\ Extends(r, EnsureSpareListeners(r, p), p)
         /\ EnsureSpareListeners(r, p).ports = r.ports
         /\ Len(EnsureSpareListeners(r, p).sockets) = Len(r.sockets) + Missing(r, p)
<1> DEFINE q == EnsureSpareListeners(r, p)
           n == Missing(r, p)
<1>1. n \in Nat /\ (n > 0 => r.total + n <= MAX_TOTAL_LISTENERS)
  BY MissingFits
<1>2. r \in [ports : SUBSET Ports, total : Nat, sockets : Seq(Sockets)]
  BY DEF RegistryOK
<1>3. q = [ports |-> r.ports, total |-> r.total + n, sockets |-> r.sockets \o Listeners(p, n)]
  <2> DEFINE t == Listeners(p, n)
  <2>1. q = [r EXCEPT !.total = @ + n, !.sockets = @ \o t]
    BY DEF EnsureSpareListeners
  <2> HIDE DEF n, t, q
  <2> QED
    BY <2>1, <1>2 DEF t
<1> HIDE DEF n
<1>4. /\ q.sockets \in Seq(Sockets) /\ Len(q.sockets) = Len(r.sockets) + n
      /\ \A h \in 1..Len(q.sockets) :
           q.sockets[h] = IF h <= Len(r.sockets) THEN r.sockets[h]
                          ELSE [port |-> p, state |-> "Listen"]
  <2> DEFINE t == r.sockets \o Listeners(p, n)
  <2>1. /\ t \in Seq(Sockets) /\ Len(t) = Len(r.sockets) + n
        /\ \A h \in 1..(Len(r.sockets) + n) :
             t[h] = IF h <= Len(r.sockets) THEN r.sockets[h]
                    ELSE [port |-> p, state |-> "Listen"]
    BY <1>1, <1>2, ListenersAppended
  <2>2. q.sockets = t
    BY <1>3
  <2> HIDE DEF t, q
  <2> QED
    BY <2>1, <2>2
<1>5. r.total + n <= MAX_TOTAL_LISTENERS + pool_size * Cardinality(r.ports)
  <2>1. r.total <= MAX_TOTAL_LISTENERS + pool_size * Cardinality(r.ports)
    BY DEF RegistryOK
  <2>2. Cardinality(r.ports) \in Nat
    BY FS_CardinalityType DEF RegistryOK
  <2>3. pool_size * Cardinality(r.ports) \in Nat
    BY <2>2, RegistryAssumption
  <2> QED
    BY <2>1, <2>3, <1>1, <1>2, RegistryAssumption
<1>6. q \in [ports : SUBSET Ports, total : Nat, sockets : Seq(Sockets)]
  BY <1>1, <1>2, <1>3, <1>4
<1>7. RegistryOK(q)
  BY <1>3, <1>4, <1>5, <1>6 DEF RegistryOK
<1>8. Extends(r, q, p)
  BY <1>1, <1>2, <1>3, <1>4 DEF Extends
<1> QED
  BY <1>3, <1>4, <1>7, <1>8 DEF n

LEMMA PreparedOK ==
  ASSUME RegistryOK(registry), NEW p \in Ports
  PROVE  RegistryOK(Prepared(p)) /\ Extends(registry, Prepared(p), p)
<1> DEFINE r == registry
           q == EnsurePort(r, p)
           t == EnsureSpareListeners(q, p)
<1>1. RegistryOK(q) /\ Extends(r, q, p)
  BY EnsurePortOK
<1>2. RegistryOK(t) /\ Extends(q, t, p)
  <2> HIDE DEF q
  <2> QED
    BY <1>1, EnsureSpareOK
<1>3. Len(r.sockets) \in Nat /\ Len(q.sockets) \in Nat /\ Len(t.sockets) \in Nat
  BY <1>1, <1>2 DEF RegistryOK
<1> HIDE DEF r, q, t
<1>4. r.ports \subseteq t.ports /\ Len(r.sockets) <= Len(t.sockets)
  BY <1>1, <1>2, <1>3 DEF Extends
<1>5. ASSUME NEW h \in 1..Len(t.sockets)
      PROVE  t.sockets[h] = IF h <= Len(r.sockets) THEN r.sockets[h]
                            ELSE [port |-> p, state |-> "Listen"]
  <2>1. h \in Nat
    BY <1>3
  <2>2. h <= Len(q.sockets) => q.sockets[h] = IF h <= Len(r.sockets) THEN r.sockets[h]
                                              ELSE [port |-> p, state |-> "Listen"]
    BY <1>1, <1>3 DEF Extends
  <2>3. t.sockets[h] = IF h <= Len(q.sockets) THEN q.sockets[h]
                       ELSE [port |-> p, state |-> "Listen"]
    BY <1>2 DEF Extends
  <2>4. Len(r.sockets) <= Len(q.sockets)
    BY <1>1 DEF Extends
  <2> QED
    BY <2>1, <2>2, <2>3, <2>4, <1>3
<1>6. Extends(r, t, p)
  BY <1>4, <1>5 DEF Extends
<1> QED
  BY <1>2, <1>6 DEF Prepared, r, q, t

\* With no listener left after both ensure calls, one of the limits is reached.
LEMMA NoListenerAtLimit ==
  ASSUME RegistryOK(registry), NEW p \in Ports, Listening(p) = {}
  PROVE  \/ Cardinality(Prepared(p).ports) >= MAX_INTERCEPTED_PORTS
         \/ Prepared(p).total >= MAX_TOTAL_LISTENERS
<1> DEFINE q == EnsurePort(registry, p)
           t == EnsureSpareListeners(q, p)
           n == Missing(q, p)
           l == [port |-> p, state |-> "Listen"]
<1>1. RegistryOK(q) /\ (p \in q.ports \/ Cardinality(q.ports) >= MAX_INTERCEPTED_PORTS)
  BY EnsurePortOK
<1>2. /\ n \in Nat
      /\ n = 0 => \/ p \notin q.ports
                  \/ Cardinality(Spare(q, p)) >= MIN_SPARE_LISTENERS
                  \/ q.total >= MAX_TOTAL_LISTENERS
  <2> HIDE DEF q
  <2> QED
    BY <1>1, MissingFits
<1>3. RegistryOK(t) /\ Extends(q, t, p) /\ t.ports = q.ports
      /\ Len(t.sockets) = Len(q.sockets) + n
  <2> HIDE DEF q
  <2> QED
    BY <1>1, EnsureSpareOK
<1>4. \A h \in DOMAIN t.sockets : t.sockets[h] # l
  BY DEF Listening, Prepared
<1> HIDE DEF q, t, n
<1>5. q.sockets \in Seq(Sockets) /\ t.sockets \in Seq(Sockets)
      /\ q.total = Len(q.sockets) /\ t.total = Len(t.sockets)
  BY <1>1, <1>3 DEF RegistryOK
<1>6. Len(q.sockets) \in Nat /\ DOMAIN q.sockets = 1..Len(q.sockets)
      /\ Len(t.sockets) \in Nat /\ DOMAIN t.sockets = 1..Len(t.sockets)
  BY <1>5
<1>7. n = 0
  <2> SUFFICES ASSUME n > 0 PROVE FALSE
    BY <1>2
  <2>1. Len(t.sockets) \in 1..Len(t.sockets) /\ ~(Len(t.sockets) <= Len(q.sockets))
    BY <1>2, <1>3, <1>6
  <2>2. t.sockets[Len(t.sockets)] = l
    BY <2>1, <1>3 DEF Extends
  <2> QED
    BY <2>1, <2>2, <1>4, <1>6
<1>8. Spare(q, p) = {}
  <2> SUFFICES ASSUME NEW h \in DOMAIN q.sockets, q.sockets[h].port = p,
                      q.sockets[h].state = "Listen"
               PROVE  FALSE
    BY DEF Spare
  <2>1. q.sockets[h] \in Sockets
    BY <1>5
  <2>2. q.sockets[h] = l
    BY <2>1 DEF Sockets
  <2>3. h \in 1..Len(t.sockets) /\ h <= Len(q.sockets)
    BY <1>3, <1>6, <1>7
  <2>4. t.sockets[h] = l
    BY <2>2, <2>3, <1>3 DEF Extends
  <2> QED
    BY <2>3, <2>4, <1>4, <1>6
<1>9. Cardinality(Spare(q, p)) = 0
  BY <1>8, FS_EmptySet
<1>10. Cardinality(q.ports) >= MAX_INTERCEPTED_PORTS \/ q.total >= MAX_TOTAL_LISTENERS
  BY <1>1, <1>2, <1>7, <1>9, RegistryAssumption
<1>11. t.total = q.total
  BY <1>3, <1>5, <1>6, <1>7
<1> QED
  BY <1>3, <1>10, <1>11 DEF Prepared, t, q

\* A socket of a registry changes its state.
LEMMA SetStateOK ==
  ASSUME NEW r, RegistryOK(r), NEW h \in DOMAIN r.sockets, NEW st \in States
  PROVE  LET q == [r EXCEPT !.sockets[h].state = st]
         IN  /\ RegistryOK(q) /\ q.ports = r.ports /\ q.total = r.total
             /\ DOMAIN q.sockets = DOMAIN r.sockets /\ q.sockets[h].state = st
             /\ \A g \in DOMAIN r.sockets : g # h => q.sockets[g] = r.sockets[g]
<1> DEFINE q == [r EXCEPT !.sockets[h].state = st]
           s == [r.sockets EXCEPT ![h].state = st]
<1>1. r \in [ports : SUBSET Ports, total : Nat, sockets : Seq(Sockets)]
  BY DEF RegistryOK
<1>2. r.sockets \in Seq(Sockets) /\ DOMAIN r.sockets = 1..Len(r.sockets) /\ Len(r.sockets) \in Nat
  BY <1>1
<1>3. r.sockets[h] \in Sockets
  BY <1>2
<1>4. [r.sockets[h] EXCEPT !.state = st] \in Sockets
      /\ [r.sockets[h] EXCEPT !.state = st].state = st
  BY <1>3 DEF Sockets
<1>5. s = [r.sockets EXCEPT ![h] = [r.sockets[h] EXCEPT !.state = st]]
  OBVIOUS
<1>6. s \in Seq(Sockets) /\ Len(s) = Len(r.sockets) /\ DOMAIN s = DOMAIN r.sockets
      /\ s[h].state = st /\ \A g \in DOMAIN r.sockets : g # h => s[g] = r.sockets[g]
  <2> DEFINE x == [r.sockets[h] EXCEPT !.state = st]
  <2> HIDE DEF x
  <2>1. x \in Sockets /\ x.state = st /\ s = [r.sockets EXCEPT ![h] = x]
    BY <1>4, <1>5 DEF x
  <2> HIDE DEF s
  <2> QED
    BY <2>1, <1>2
<1>7. q = [ports |-> r.ports, total |-> r.total, sockets |-> s]
  <2>1. q = [r EXCEPT !.sockets = s]
    BY <1>1
  <2> HIDE DEF q, s
  <2> QED
    BY <2>1, <1>1
<1> HIDE DEF s, q
<1>8. RegistryOK(q)
  BY <1>1, <1>6, <1>7 DEF RegistryOK
<1>9. q.ports = r.ports /\ q.total = r.total /\ q.sockets = s
  BY <1>7
<1> QED
  BY <1>6, <1>8, <1>9 DEF q

-----------------------------------------------------------------------------
\* What becomes of the sockets: one changes its state, or a SYN is accepted by one that
\* was listening, or a SYN is dropped.
LEMMA BecomesSockets ==
  ASSUME RegistryOK(registry), NEW h \in DOMAIN registry.sockets, NEW st \in States,
         Becomes(h, st)
  PROVE  /\ RegistryOK(registry') /\ UNCHANGED dropped
         /\ registry'.ports = registry.ports /\ registry'.total = registry.total
         /\ \A g, x : Socket(g, x)' <=> IF g = h THEN x = st ELSE Socket(g, x)
<1> DEFINE q == [registry EXCEPT !.sockets[h].state = st]
<1>1. registry' = q /\ UNCHANGED dropped
  BY DEF Becomes
<1>2. /\ RegistryOK(q) /\ q.ports = registry.ports /\ q.total = registry.total
      /\ DOMAIN q.sockets = DOMAIN registry.sockets /\ q.sockets[h].state = st
      /\ \A g \in DOMAIN registry.sockets : g # h => q.sockets[g] = registry.sockets[g]
  BY SetStateOK
<1> HIDE DEF q
<1> QED
  BY <1>1, <1>2 DEF Socket

LEMMA AcceptSynSockets ==
  ASSUME RegistryOK(registry), NEW p \in Ports, NEW h, AcceptSyn(h, p)
  PROVE  /\ RegistryOK(registry') /\ UNCHANGED dropped
         /\ registry.ports \subseteq registry'.ports /\ registry.total <= registry'.total
         /\ \A x : x # "Listen" => ~Socket(h, x)
         /\ \A g, x : x # "Listen" =>
              (Socket(g, x)' <=> IF g = h THEN x = "Accepted" ELSE Socket(g, x))
<1> DEFINE t == Prepared(p)
           q == [t EXCEPT !.sockets[h].state = "Accepted"]
<1>1. RegistryOK(t) /\ Extends(registry, t, p)
  BY PreparedOK
<1>2. registry' = q /\ UNCHANGED dropped /\ h \in DOMAIN t.sockets
      /\ t.sockets[h] = [port |-> p, state |-> "Listen"]
  BY DEF AcceptSyn, Accepts, Listening
<1> HIDE DEF t
<1>3. /\ RegistryOK(q) /\ q.ports = t.ports /\ q.total = t.total
      /\ DOMAIN q.sockets = DOMAIN t.sockets /\ q.sockets[h].state = "Accepted"
      /\ \A g \in DOMAIN t.sockets : g # h => q.sockets[g] = t.sockets[g]
  <2>1. "Accepted" \in States
    BY DEF States
  <2> QED
    BY <1>1, <1>2, <2>1, SetStateOK
<1> HIDE DEF q
<1>4. /\ DOMAIN t.sockets = 1..Len(t.sockets) /\ Len(t.sockets) \in Nat
      /\ DOMAIN registry.sockets = 1..Len(registry.sockets) /\ Len(registry.sockets) \in Nat
      /\ t.total = Len(t.sockets) /\ registry.total = Len(registry.sockets)
      /\ Len(registry.sockets) <= Len(t.sockets)
  BY <1>1 DEF RegistryOK, Extends
<1>5. \A g \in DOMAIN registry.sockets : g \in DOMAIN t.sockets /\ t.sockets[g] = registry.sockets[g]
  BY <1>1, <1>4 DEF Extends
<1>6. \A g \in DOMAIN t.sockets : g \notin DOMAIN registry.sockets => t.sockets[g].state = "Listen"
  BY <1>1, <1>4 DEF Extends
<1>7. \A x : x # "Listen" => ~Socket(h, x)
  BY <1>2, <1>5 DEF Socket
<1>8. ASSUME NEW g, NEW x, x # "Listen"
      PROVE  Socket(g, x)' <=> IF g = h THEN x = "Accepted" ELSE Socket(g, x)
  BY <1>2, <1>3, <1>5, <1>6, <1>8 DEF Socket
<1>9. registry.ports \subseteq registry'.ports
  BY <1>1, <1>2, <1>3 DEF Extends
<1> QED
  BY <1>2, <1>3, <1>4, <1>7, <1>8, <1>9

LEMMA DropSynSockets ==
  ASSUME RegistryOK(registry), NEW p \in Ports, DropSyn(p)
  PROVE  /\ RegistryOK(registry')
         /\ \A g, x : x # "Listen" => (Socket(g, x)' <=> Socket(g, x))
<1> DEFINE t == Prepared(p)
<1>1. RegistryOK(t) /\ Extends(registry, t, p) /\ registry' = t
  BY PreparedOK DEF DropSyn
<1> HIDE DEF t
<1>2. /\ DOMAIN t.sockets = 1..Len(t.sockets) /\ Len(t.sockets) \in Nat
      /\ DOMAIN registry.sockets = 1..Len(registry.sockets) /\ Len(registry.sockets) \in Nat
      /\ Len(registry.sockets) <= Len(t.sockets)
  BY <1>1 DEF RegistryOK, Extends
<1>3. \A g \in DOMAIN registry.sockets : g \in DOMAIN t.sockets /\ t.sockets[g] = registry.sockets[g]
  BY <1>1, <1>2 DEF Extends
<1>4. \A g \in DOMAIN t.sockets : g \notin DOMAIN registry.sockets => t.sockets[g].state = "Listen"
  BY <1>1, <1>2 DEF Extends
<1> QED
  BY <1>1, <1>3, <1>4 DEF Socket

\* Both limits, once reached, stay reached.
LEMMA LimitsStay ==
  ASSUME RegistryOK(registry), RegistryOK(registry'), SynDroppedOnlyAtLimit, UNCHANGED dropped,
         registry.ports \subseteq registry'.ports, registry.total <= registry'.total
  PROVE  SynDroppedOnlyAtLimit'
<1>1. IsFiniteSet(registry'.ports) /\ IsFiniteSet(registry.ports)
      /\ registry.total \in Nat /\ registry'.total \in Nat
  BY DEF RegistryOK
<1>2. Cardinality(registry.ports) <= Cardinality(registry'.ports)
  BY <1>1, FS_Subset
<1>3. Cardinality(registry.ports) \in Nat /\ Cardinality(registry'.ports) \in Nat
  BY <1>1, FS_CardinalityType
<1> QED
  BY <1>1, <1>2, <1>3, RegistryAssumption DEF SynDroppedOnlyAtLimit

\* A received packet forges an answer, is a SYN, or changes nothing.
LEMMA ReceiveCases ==
  ASSUME NEW pkt \in Packets, Receive(pkt)
  PROVE  \/ \E d \in Domains : ForgeDnsReply(d)
         \/ \E p \in Ports : Syn(p)
         \/ UNCHANGED ivars
<1>1. CASE \E q \in Queries : DnsHijack(q)
  <2>1. PICK q \in Queries : DnsHijack(q)
    BY <1>1
  <2>2. CASE q # None /\ q.qtype = "A" /\ ForgeDnsReply(q.qname)
    <3>1. q.qname \in Domains
      BY <2>2 DEF Queries
    <3> QED
      BY <2>2, <3>1
  <2> QED
    BY <2>1, <2>2 DEF DnsHijack
<1>2. CASE Syn(pkt.port)
  <2>1. pkt.port \in Ports
    BY DEF Packets
  <2> QED
    BY <1>2, <2>1
<1> QED
  BY <1>1, <1>2 DEF Receive

LEMMA RegistrySteps ==
  ASSUME CInv, [INext]_ivars
  PROVE  RegistryOK(registry') /\ dropped' \in BOOLEAN /\ SynDroppedOnlyAtLimit'
<1> DEFINE Goal == RegistryOK(registry') /\ dropped' \in BOOLEAN /\ SynDroppedOnlyAtLimit'
<1> SUFFICES Goal
  OBVIOUS
<1>1. RegistryOK(registry) /\ dropped \in BOOLEAN /\ SynDroppedOnlyAtLimit
  BY DEF CInv
<1>2. CASE UNCHANGED <<registry, dropped>>
  BY <1>1, <1>2 DEF SynDroppedOnlyAtLimit
<1>3. ASSUME NEW h \in DOMAIN registry.sockets, NEW st \in States, Becomes(h, st) PROVE Goal
  <2>1. RegistryOK(registry') /\ UNCHANGED dropped
        /\ registry'.ports = registry.ports /\ registry'.total = registry.total
    BY <1>1, <1>3, BecomesSockets
  <2> QED
    BY <1>1, <2>1 DEF SynDroppedOnlyAtLimit
<1>4. ASSUME NEW p \in Ports, NEW h \in Flows, AcceptSyn(h, p) PROVE Goal
  <2>1. RegistryOK(registry') /\ UNCHANGED dropped
        /\ registry.ports \subseteq registry'.ports /\ registry.total <= registry'.total
    BY <1>1, <1>4, AcceptSynSockets
  <2> QED
    BY <1>1, <2>1, LimitsStay
<1>5. ASSUME NEW p \in Ports, DropSyn(p) PROVE Goal
  <2>1. RegistryOK(registry') /\ dropped' = TRUE
    BY <1>1, <1>5, DropSynSockets DEF DropSyn
  <2>2. SynDroppedOnlyAtLimit'
    BY <1>1, <1>5, NoListenerAtLimit DEF DropSyn, SynDroppedOnlyAtLimit
  <2> QED
    BY <2>1, <2>2
<1>6. ASSUME NEW h \in Flows, FirstPayload(h) \/ RefusePayload(h) \/ Rearm(h) \/ ResetEarly(h)
      PROVE  \E st \in States : h \in DOMAIN registry.sockets /\ Becomes(h, st)
  BY <1>6 DEF FirstPayload, RefusePayload, Rearm, ResetEarly, Socket, States
<1>7. CASE UNCHANGED ivars
  BY <1>2, <1>7 DEF ivars, ingress
<1>8. ASSUME NEW d \in Domains, ForgeDnsReply(d) PROVE Goal
  BY <1>2, <1>8 DEF ForgeDnsReply
<1>9. ASSUME NEW p \in Ports, Syn(p) PROVE Goal
  BY <1>4, <1>5, <1>9 DEF Syn
<1>10. CASE PoolSweep \/ Clock
  BY <1>2, <1>10 DEF PoolSweep, Clock, ingress
<1> HIDE DEF Goal
<1>11. ASSUME NEW h \in Flows, FirstPayload(h) \/ RefusePayload(h) \/ Rearm(h) \/ ResetEarly(h)
       PROVE  Goal
  BY <1>3, <1>6, <1>11
<1>12. CASE INext
  BY <1>7, <1>8, <1>9, <1>10, <1>11, <1>12, ReceiveCases DEF INext
<1> QED
  BY <1>7, <1>12

-----------------------------------------------------------------------------
\* Every step of the composition is a step of the pool, or leaves it alone.
LEMMA PoolSteps == ASSUME CInv, [INext]_ivars PROVE [Next]_vars /\ IInv'
<1>1. [Next]_vars
  <2>1. ASSUME NEW d \in Domains, ForgeDnsReply(d) PROVE Next
    BY <2>1 DEF ForgeDnsReply, Next
  <2>2. ASSUME NEW p \in Ports, Syn(p) PROVE UNCHANGED vars
    BY <2>2 DEF Syn
  <2>3. ASSUME NEW h \in Flows, FirstPayload(h) PROVE Next
    <3>1. dst[h].ip \in Ips /\ Acquire(h, dst[h].ip)
      BY <2>3 DEF FirstPayload, CInv, FlowsOK, Waiting
    <3> QED
      BY <3>1 DEF Next
  <2>4. ASSUME NEW h \in Flows, RefusePayload(h) \/ ResetEarly(h) PROVE UNCHANGED vars
    BY <2>4 DEF RefusePayload, ResetEarly
  <2>5. ASSUME NEW h \in Flows, Rearm(h) PROVE Next
    BY <2>5 DEF Rearm, Next
  <2>6. CASE PoolSweep \/ Clock
    BY <2>6 DEF PoolSweep, Clock, Next
  <2>7. CASE UNCHANGED ivars
    BY <2>7 DEF ivars
  <2> QED
    BY <2>1, <2>2, <2>3, <2>4, <2>5, <2>6, <2>7, ReceiveCases DEF INext
<1> QED
  BY <1>1, NextIInv DEF CInv

\* alloc answers with an address that is the domain's, touched just now.
LEMMA AllocAnswers ==
  ASSUME IInv, NEW d \in Domains, AllocKnown(d) \/ AllocFree(d) \/ AllocOverwrite(d)
  PROVE  /\ domain_to_ip'[d] \in Ips
         /\ domain'[domain_to_ip'[d]] = d /\ idle'[domain_to_ip'[d]] = 0
<1>1. TypeOK /\ MapsAgree
  BY DEF IInv
<1>2. CASE AllocKnown(d)
  <2>1. domain_to_ip[d] \in Ips /\ domain_to_ip' = domain_to_ip /\ domain' = domain
        /\ idle' = [idle EXCEPT ![domain_to_ip[d]] = 0]
    BY <1>1, <1>2 DEF AllocKnown, TypeOK
  <2>2. domain[domain_to_ip[d]] = d
    BY <1>1, <2>1 DEF MapsAgree
  <2> QED
    BY <2>1, <2>2, <1>1 DEF TypeOK
<1>3. ASSUME NEW ip \in Ips, Install(d, ip)
      PROVE  /\ domain_to_ip'[d] \in Ips
             /\ domain'[domain_to_ip'[d]] = d /\ idle'[domain_to_ip'[d]] = 0
  BY <1>1, <1>3 DEF Install, TypeOK
<1>4. CASE AllocFree(d)
  BY <1>3, <1>4 DEF AllocFree
<1>5. CASE AllocOverwrite(d)
  BY <1>1, <1>3, <1>5 DEF AllocOverwrite, TypeOK
<1> QED
  BY <1>2, <1>4, <1>5

\* No operation of the pool but an overwrite takes the address of a fresh answer.
LEMMA HoldsKept ==
  ASSUME IInv, ~exhausted', NEW ip \in Ips, NEW d \in Domains, NEW age \in Nat,
         Holds(ip, d, age, domain, idle),
         \/ \E e \in Domains : AllocKnown(e) \/ AllocFree(e) \/ AllocOverwrite(e)
         \/ \E f \in Flows : Release(f) \/ \E j \in Ips : Acquire(f, j)
         \/ Sweep \/ UNCHANGED vars
  PROVE  Holds(ip, d, age, domain', idle')
<1> SUFFICES ASSUME age <= FAKE_IP_TTL PROVE domain'[ip] = d /\ idle'[ip] <= age
  BY DEF Holds
<1>1. TypeOK /\ domain[ip] = d /\ idle[ip] <= age /\ d # None
  BY FakeIpAssumption DEF Holds, IInv
<1>2. idle[ip] \in Nat /\ 0 <= age
  BY <1>1, FakeIpAssumption DEF TypeOK
<1>3. ASSUME NEW e \in Domains, AllocKnown(e) PROVE domain'[ip] = d /\ idle'[ip] <= age
  <2>1. domain' = domain /\ idle'[ip] \in {0, idle[ip]}
    BY <1>1, <1>3 DEF AllocKnown, TypeOK
  <2> QED
    BY <2>1, <1>1, <1>2
<1>4. ASSUME NEW e \in Domains, AllocFree(e) PROVE domain'[ip] = d /\ idle'[ip] <= age
  <2>1. PICK j \in Ips : domain[j] = None /\ Install(e, j)
    BY <1>4 DEF AllocFree, FirstFree
  <2>2. j # ip
    BY <2>1, <1>1
  <2>3. domain'[ip] = domain[ip] /\ idle'[ip] = idle[ip]
    BY <2>1, <2>2, <1>1 DEF Install, TypeOK
  <2> QED
    BY <2>3, <1>1
<1>5. ASSUME NEW e \in Domains, AllocOverwrite(e) PROVE FALSE
  BY <1>5 DEF AllocOverwrite
<1>6. ASSUME NEW f \in Flows, Release(f) PROVE domain'[ip] = d /\ idle'[ip] <= age
  <2>1. domain' = domain /\ idle'[ip] \in {0, idle[ip]}
    BY <1>1, <1>6 DEF Release, TypeOK
  <2> QED
    BY <2>1, <1>1, <1>2
<1>7. ASSUME NEW f \in Flows, NEW j \in Ips, Acquire(f, j)
      PROVE  domain'[ip] = d /\ idle'[ip] <= age
  <2>1. domain' = domain /\ idle'[ip] \in {0, idle[ip]}
    BY <1>1, <1>7 DEF Acquire, TypeOK
  <2> QED
    BY <2>1, <1>1, <1>2
<1>8. CASE Sweep
  <2>1. ~Reclaimable(ip)
    BY <1>1, <1>2, FakeIpAssumption DEF Reclaimable
  <2> QED
    BY <2>1, <1>1, <1>8 DEF Sweep
<1>9. CASE UNCHANGED vars
  BY <1>9, <1>1 DEF vars, mapping
<1> QED
  BY <1>3, <1>4, <1>5, <1>6, <1>7, <1>8, <1>9

\* Time makes an answer older at least as fast as its address idles.
LEMMA HoldsAges ==
  ASSUME IInv, Tick, NEW ip \in Ips, NEW d, NEW age \in Nat, Holds(ip, d, age, domain, idle)
  PROVE  Older(age) \in Nat /\ Holds(ip, d, Older(age), domain', idle')
<1>1. Older(age) \in Nat /\ (Older(age) <= FAKE_IP_TTL => age <= FAKE_IP_TTL /\ Older(age) = age + 1)
  BY FakeIpAssumption DEF Older
<1>2. domain' = domain /\ idle[ip] \in Nat /\ idle'[ip] \in {idle[ip], idle[ip] + 1}
  BY FakeIpAssumption DEF Tick, IInv, TypeOK
<1> QED
  BY <1>1, <1>2, FakeIpAssumption DEF Holds

\* An exhausted pool stays exhausted.
LEMMA ExhaustedStays == ASSUME CInv, [INext]_ivars, exhausted PROVE exhausted'
<1>1. [Next]_vars
  BY PoolSteps
<1> QED
  BY <1>1 DEF Next, vars, AllocKnown, AllocFree, AllocOverwrite, Release, Acquire, Sweep, Tick

-----------------------------------------------------------------------------
\* The three conjuncts about flows, action by action.
Flow == FlowsOK /\ AnswersHold /\ TargetIsAsked

\* The answer in the cache and those the waiting flows came with survive a pool step.
LEMMA AnswersSurvive ==
  ASSUME CInv, [INext]_ivars, ~exhausted',
         \/ \E e \in Domains : AllocKnown(e) \/ AllocFree(e) \/ AllocOverwrite(e)
         \/ \E f \in Flows : Release(f) \/ \E j \in Ips : Acquire(f, j)
         \/ Sweep \/ UNCHANGED vars
  PROVE  /\ cache # NoAnswer => Holds(cache.ip, cache.domain, cache.age, domain', idle')
         /\ \A f \in Flows :
              Waiting(f) => Holds(dst[f].ip, asked[f].domain, asked[f].age, domain', idle')
<1>1. ~exhausted
  BY ExhaustedStays
<1>2. IInv /\ FlowsOK /\ AnswersHold
  BY DEF CInv
<1>3. ASSUME cache # NoAnswer PROVE Holds(cache.ip, cache.domain, cache.age, domain', idle')
  <2>1. cache.ip \in Ips /\ cache.domain \in Domains /\ cache.age \in Nat
        /\ Holds(cache.ip, cache.domain, cache.age, domain, idle)
    BY <1>1, <1>2, <1>3 DEF FlowsOK, AnswersHold
  <2> QED
    BY <2>1, <1>2, HoldsKept
<1>4. ASSUME NEW f \in Flows, Waiting(f)
      PROVE  Holds(dst[f].ip, asked[f].domain, asked[f].age, domain', idle')
  <2>1. dst[f].ip \in Ips /\ asked[f].domain \in Domains /\ asked[f].age \in Nat
        /\ Holds(dst[f].ip, asked[f].domain, asked[f].age, domain, idle)
    BY <1>1, <1>2, <1>4 DEF FlowsOK, AnswersHold
  <2> QED
    BY <2>1, <1>2, HoldsKept
<1> QED
  BY <1>3, <1>4

LEMMA ForgeFlow ==
  ASSUME CInv, INext, NEW d \in Domains, ForgeDnsReply(d) PROVE Flow'
<1>1. /\ UNCHANGED <<registry, asked, dst, fake_ip, opened_as>>
      /\ AllocKnown(d) \/ AllocFree(d) \/ AllocOverwrite(d)
      /\ cache' = cache \/ cache' = [domain |-> d, ip |-> domain_to_ip'[d], age |-> 0]
  BY DEF ForgeDnsReply, BuildResponse, AllocKnown, AllocFree, AllocOverwrite
<1>2. domain_to_ip'[d] \in Ips /\ domain'[domain_to_ip'[d]] = d /\ idle'[domain_to_ip'[d]] = 0
  BY <1>1, AllocAnswers DEF CInv
<1>3. FlowsOK'
  <2>1. \A f, x : Socket(f, x)' <=> Socket(f, x)
    BY <1>1 DEF Socket
  <2>2. FlowsOK
    BY DEF CInv
  <2>3. cache' = NoAnswer \/ cache' \in [domain : Domains, ip : Ips, age : Nat]
    BY <1>1, <1>2, <2>2 DEF FlowsOK
  <2>4. \A f \in Flows : Waiting(f)' => dst'[f].ip \in Ips /\ asked'[f].domain \in Domains
    BY <1>1, <2>1, <2>2 DEF FlowsOK, Waiting
  <2>5. \A f \in Flows : fake_ip'[f] # None => Socket(f, "Relaying")'
    BY <1>1, <2>1, <2>2 DEF FlowsOK
  <2> QED
    BY <1>1, <2>2, <2>3, <2>4, <2>5 DEF FlowsOK, NoAnswer
<1>4. AnswersHold'
  <2> SUFFICES ASSUME ~exhausted'
               PROVE  /\ cache' # NoAnswer => Holds(cache'.ip, cache'.domain, cache'.age, domain', idle')
                      /\ \A f \in Flows : Waiting(f)' =>
                           Holds(dst'[f].ip, asked'[f].domain, asked'[f].age, domain', idle')
    BY DEF AnswersHold, NoAnswer
  <2>1. /\ cache # NoAnswer => Holds(cache.ip, cache.domain, cache.age, domain', idle')
        /\ \A f \in Flows :
             Waiting(f) => Holds(dst[f].ip, asked[f].domain, asked[f].age, domain', idle')
    BY <1>1, AnswersSurvive
  <2>2. Holds(domain_to_ip'[d], d, 0, domain', idle')
    BY <1>2 DEF Holds
  <2>3. \A f \in Flows : Waiting(f)' <=> Waiting(f)
    BY <1>1 DEF Waiting, Socket
  <2>4. cache' # NoAnswer => Holds(cache'.ip, cache'.domain, cache'.age, domain', idle')
    BY <1>1, <2>1, <2>2
  <2> QED
    BY <1>1, <2>1, <2>3, <2>4
<1>5. TargetIsAsked'
  BY <1>1, ExhaustedStays DEF CInv, TargetIsAsked
<1> QED
  BY <1>3, <1>4, <1>5 DEF Flow

\* A SYN that is accepted takes the answer over; the listener held no address.
LEMMA SynFlow ==
  ASSUME CInv, INext, NEW p \in Ports, Syn(p) PROVE Flow'
<1>1. UNCHANGED vars /\ UNCHANGED cache /\ cache # NoAnswer
      /\ cache \in [domain : Domains, ip : Ips, age : Nat]
  BY DEF Syn, CInv, FlowsOK
<1>2. UNCHANGED <<domain, idle, fake_ip, opened_as, exhausted>>
  BY <1>1 DEF vars, mapping
<1>3. FlowsOK /\ AnswersHold /\ TargetIsAsked /\ RegistryOK(registry)
  BY DEF CInv
<1>4. ASSUME NEW h \in Flows, AcceptSyn(h, p),
             asked' = [asked EXCEPT ![h] = [domain |-> cache.domain, age |-> cache.age]],
             dst' = [dst EXCEPT ![h] = [ip |-> cache.ip, port |-> p]]
      PROVE  Flow'
  <2>1. /\ \A x : x # "Listen" => ~Socket(h, x)
        /\ \A g, x : x # "Listen" =>
             (Socket(g, x)' <=> IF g = h THEN x = "Accepted" ELSE Socket(g, x))
    BY <1>3, <1>4, AcceptSynSockets
  <2>2. /\ asked'[h].domain = cache.domain /\ asked'[h].age = cache.age /\ dst'[h].ip = cache.ip
        /\ \A f \in Flows : f # h => asked'[f] = asked[f] /\ dst'[f] = dst[f]
    BY <1>3, <1>4 DEF FlowsOK
  <2>3. fake_ip[h] = None
    BY <1>3, <2>1 DEF FlowsOK
  <2>4. \A f \in Flows : Waiting(f)' <=> f = h \/ Waiting(f)
    BY <2>1 DEF Waiting
  <2>5. asked' \in [Flows -> [domain : Domains \cup {None}, age : Nat]]
        /\ dst' \in [Flows -> [ip : Ips \cup {None}, port : Ports \cup {None}]]
    <3>1. [domain |-> cache.domain, age |-> cache.age] \in [domain : Domains \cup {None}, age : Nat]
          /\ [ip |-> cache.ip, port |-> p] \in [ip : Ips \cup {None}, port : Ports \cup {None}]
      BY <1>1
    <3> QED
      BY <3>1, <1>3, <1>4 DEF FlowsOK
  <2>6. \A f \in Flows : Waiting(f)' => dst'[f].ip \in Ips /\ asked'[f].domain \in Domains
    BY <1>1, <1>3, <2>2, <2>4 DEF FlowsOK
  <2>7. \A f \in Flows : fake_ip'[f] # None => Socket(f, "Relaying")'
    BY <1>2, <1>3, <2>1, <2>3 DEF FlowsOK
  <2>8. FlowsOK'
    BY <1>1, <2>5, <2>6, <2>7 DEF FlowsOK
  <2>9. AnswersHold'
    BY <1>1, <1>2, <1>3, <2>2, <2>4 DEF AnswersHold, NoAnswer
  <2>10. TargetIsAsked'
    BY <1>2, <1>3, <2>2, <2>3 DEF TargetIsAsked
  <2> QED
    BY <2>8, <2>9, <2>10 DEF Flow
<1>5. ASSUME DropSyn(p), UNCHANGED <<asked, dst>> PROVE Flow'
  <2>1. \A g, x : x # "Listen" => (Socket(g, x)' <=> Socket(g, x))
    BY <1>3, <1>5, DropSynSockets
  <2>2. \A f \in Flows : (Waiting(f)' <=> Waiting(f))
                         /\ (Socket(f, "Relaying")' <=> Socket(f, "Relaying"))
    BY <2>1 DEF Waiting
  <2>3. FlowsOK'
    BY <1>1, <1>2, <1>3, <1>5, <2>2 DEF FlowsOK
  <2>4. AnswersHold'
    BY <1>1, <1>2, <1>3, <1>5, <2>2 DEF AnswersHold, NoAnswer
  <2>5. TargetIsAsked'
    BY <1>2, <1>3, <1>5 DEF TargetIsAsked
  <2> QED
    BY <2>3, <2>4, <2>5 DEF Flow
<1> QED
  BY <1>4, <1>5 DEF Syn

\* The first payload finds the mapping of a fresh answer unchanged, and acquires it.
LEMMA FirstPayloadFlow ==
  ASSUME CInv, INext, NEW h \in Flows, FirstPayload(h) PROVE Flow'
<1>1. FlowsOK /\ AnswersHold /\ TargetIsAsked /\ RegistryOK(registry) /\ TypeOK
  BY DEF CInv, IInv
<1>2. /\ h \in DOMAIN registry.sockets /\ Waiting(h) /\ Becomes(h, "Relaying")
      /\ Acquire(h, dst[h].ip) /\ UNCHANGED <<cache, asked, dst>> /\ dst[h].ip \in Ips
  BY <1>1 DEF FirstPayload, Socket, Waiting, FlowsOK
<1>3. \A g, x : Socket(g, x)' <=> IF g = h THEN x = "Relaying" ELSE Socket(g, x)
  BY <1>1, <1>2, BecomesSockets DEF States
<1>4. \A f \in Flows : Waiting(f)' <=> f # h /\ Waiting(f)
  BY <1>3 DEF Waiting
<1>5. /\ opened_as'[h] = domain[dst[h].ip] /\ exhausted' = exhausted
      /\ \A f \in Flows : f # h => fake_ip'[f] = fake_ip[f] /\ opened_as'[f] = opened_as[f]
  BY <1>1, <1>2 DEF Acquire, TypeOK
<1>6. FlowsOK'
  <2>1. \A f \in Flows : fake_ip'[f] # None => Socket(f, "Relaying")'
    BY <1>1, <1>3, <1>5 DEF FlowsOK
  <2>2. \A f \in Flows : Waiting(f)' => dst'[f].ip \in Ips /\ asked'[f].domain \in Domains
    BY <1>1, <1>2, <1>4 DEF FlowsOK
  <2> QED
    BY <1>1, <1>2, <2>1, <2>2 DEF FlowsOK
<1>7. AnswersHold'
  <2> SUFFICES ASSUME ~exhausted'
               PROVE  /\ cache # NoAnswer => Holds(cache.ip, cache.domain, cache.age, domain', idle')
                      /\ \A f \in Flows : Waiting(f) =>
                           Holds(dst[f].ip, asked[f].domain, asked[f].age, domain', idle')
    BY <1>2, <1>4 DEF AnswersHold, NoAnswer
  <2> QED
    BY <1>2, AnswersSurvive
<1>8. TargetIsAsked'
  <2>1. ~exhausted /\ asked[h].age <= FAKE_IP_TTL => domain[dst[h].ip] = asked[h].domain
    BY <1>1, <1>2 DEF AnswersHold, Holds
  <2> QED
    BY <1>1, <1>2, <1>5, <2>1 DEF TargetIsAsked
<1> QED
  BY <1>6, <1>7, <1>8 DEF Flow

\* A connection ends: its socket leaves "Accepted" or "Relaying" and holds no address.
LEMMA EndFlow ==
  ASSUME CInv, INext, NEW h \in Flows, h \in DOMAIN registry.sockets,
         NEW st \in {"Listen", "Closed"}, Becomes(h, st), Forget(h), UNCHANGED cache,
         Release(h) \/ (UNCHANGED vars /\ fake_ip[h] = None)
  PROVE  Flow'
<1>1. FlowsOK /\ AnswersHold /\ TargetIsAsked /\ RegistryOK(registry) /\ TypeOK
  BY DEF CInv, IInv
<1>2. \A g, x : Socket(g, x)' <=> IF g = h THEN x = st ELSE Socket(g, x)
  BY <1>1, BecomesSockets DEF States
<1>3. \A f \in Flows : Waiting(f)' <=> f # h /\ Waiting(f)
  BY <1>2 DEF Waiting
<1>4. /\ fake_ip'[h] = None /\ exhausted' = exhausted
      /\ \A f \in Flows : f # h => fake_ip'[f] = fake_ip[f] /\ opened_as'[f] = opened_as[f]
  BY <1>1 DEF Release, TypeOK, vars
<1>5. /\ \A f \in Flows : f # h => asked'[f] = asked[f] /\ dst'[f] = dst[f]
      /\ asked' \in [Flows -> [domain : Domains \cup {None}, age : Nat]]
      /\ dst' \in [Flows -> [ip : Ips \cup {None}, port : Ports \cup {None}]]
  BY <1>1 DEF Forget, FlowsOK, Unasked, NoDst
<1>6. FlowsOK'
  <2>1. ASSUME NEW f \in Flows, fake_ip'[f] # None PROVE Socket(f, "Relaying")'
    <3>1. f # h /\ fake_ip[f] # None
      BY <2>1, <1>4
    <3>2. Socket(f, "Relaying")
      BY <3>1, <1>1 DEF FlowsOK
    <3> QED
      BY <3>1, <3>2, <1>2
  <2>2. \A f \in Flows : Waiting(f)' => dst'[f].ip \in Ips /\ asked'[f].domain \in Domains
    BY <1>1, <1>3, <1>5 DEF FlowsOK
  <2> QED
    BY <1>1, <1>5, <2>1, <2>2 DEF FlowsOK
<1>7. AnswersHold'
  <2> SUFFICES ASSUME ~exhausted'
               PROVE  /\ cache # NoAnswer => Holds(cache.ip, cache.domain, cache.age, domain', idle')
                      /\ \A f \in Flows : Waiting(f) =>
                           Holds(dst[f].ip, asked[f].domain, asked[f].age, domain', idle')
    BY <1>3, <1>5 DEF AnswersHold, NoAnswer
  <2> QED
    BY AnswersSurvive
<1>8. TargetIsAsked'
  BY <1>1, <1>4, <1>5 DEF TargetIsAsked
<1> QED
  BY <1>6, <1>7, <1>8 DEF Flow

LEMMA ClockFlow ==
  ASSUME CInv, Clock PROVE Flow'
<1>1. IInv /\ FlowsOK /\ AnswersHold /\ TargetIsAsked
  BY DEF CInv
<1>2. Tick /\ UNCHANGED <<registry, dst, fake_ip, opened_as, exhausted>>
  BY DEF Clock, Tick
<1>3. \A f \in Flows : (Waiting(f)' <=> Waiting(f))
                       /\ (Socket(f, "Relaying")' <=> Socket(f, "Relaying"))
  BY <1>2 DEF Waiting, Socket
<1>4. \A n \in Nat : Older(n) \in Nat
  BY DEF Older
<1>5. cache' = IF cache = NoAnswer THEN cache ELSE [cache EXCEPT !.age = Older(cache.age)]
  BY DEF Clock
<1>6. ASSUME cache # NoAnswer
      PROVE  /\ cache' \in [domain : Domains, ip : Ips, age : Nat]
             /\ cache'.domain = cache.domain /\ cache'.ip = cache.ip
             /\ cache'.age = Older(cache.age)
  BY <1>1, <1>4, <1>5, <1>6 DEF FlowsOK
<1>7. ASSUME NEW f \in Flows
      PROVE  /\ asked'[f] \in [domain : Domains \cup {None}, age : Nat]
             /\ asked'[f].domain = asked[f].domain
             /\ asked'[f].age = IF Waiting(f) THEN Older(asked[f].age) ELSE asked[f].age
  <2>1. asked[f] \in [domain : Domains \cup {None}, age : Nat]
    BY <1>1 DEF FlowsOK
  <2>2. asked'[f] = IF Waiting(f) THEN [asked[f] EXCEPT !.age = Older(asked[f].age)] ELSE asked[f]
    BY DEF Clock
  <2> QED
    BY <2>1, <2>2, <1>4
<1>8. asked' \in [Flows -> [domain : Domains \cup {None}, age : Nat]]
  <2>1. asked' = [f \in Flows |-> asked'[f]]
    BY DEF Clock
  <2> QED
    BY <2>1, <1>7
<1>9. FlowsOK'
  <2>1. cache' = NoAnswer \/ cache' \in [domain : Domains, ip : Ips, age : Nat]
    BY <1>5, <1>6
  <2>2. \A f \in Flows : Waiting(f)' => dst'[f].ip \in Ips /\ asked'[f].domain \in Domains
    BY <1>1, <1>2, <1>3, <1>7 DEF FlowsOK
  <2>3. \A f \in Flows : fake_ip'[f] # None => Socket(f, "Relaying")'
    BY <1>1, <1>2, <1>3 DEF FlowsOK
  <2> QED
    BY <1>1, <1>2, <1>8, <2>1, <2>2, <2>3 DEF FlowsOK, NoAnswer
<1>10. AnswersHold'
  <2> SUFFICES ASSUME ~exhausted
               PROVE  /\ cache' # NoAnswer => Holds(cache'.ip, cache'.domain, cache'.age, domain', idle')
                      /\ \A f \in Flows : Waiting(f) =>
                           Holds(dst[f].ip, asked'[f].domain, asked'[f].age, domain', idle')
    BY <1>2, <1>3 DEF AnswersHold, NoAnswer
  <2>1. ASSUME cache' # NoAnswer PROVE Holds(cache'.ip, cache'.domain, cache'.age, domain', idle')
    <3>1. cache # NoAnswer
      BY <2>1, <1>5
    <3>2. cache.ip \in Ips /\ cache.age \in Nat
          /\ Holds(cache.ip, cache.domain, cache.age, domain, idle)
      BY <3>1, <1>1 DEF FlowsOK, AnswersHold
    <3>3. Holds(cache.ip, cache.domain, Older(cache.age), domain', idle')
      BY <3>2, <1>1, <1>2, HoldsAges
    <3> QED
      BY <3>1, <3>3, <1>6
  <2>2. ASSUME NEW f \in Flows, Waiting(f)
        PROVE  Holds(dst[f].ip, asked'[f].domain, asked'[f].age, domain', idle')
    <3>1. dst[f].ip \in Ips /\ asked[f].age \in Nat
          /\ Holds(dst[f].ip, asked[f].domain, asked[f].age, domain, idle)
      BY <2>2, <1>1 DEF FlowsOK, AnswersHold
    <3>2. Holds(dst[f].ip, asked[f].domain, Older(asked[f].age), domain', idle')
      BY <3>1, <1>1, <1>2, HoldsAges
    <3> QED
      BY <2>2, <3>2, <1>7
  <2> QED
    BY <2>1, <2>2
<1>11. TargetIsAsked'
  <2>1. \A f \in Flows : fake_ip[f] # None => ~Waiting(f)
    BY <1>1 DEF FlowsOK, Waiting, Socket
  <2> QED
    BY <1>1, <1>2, <1>7, <2>1 DEF TargetIsAsked
<1> QED
  BY <1>9, <1>10, <1>11 DEF Flow

-----------------------------------------------------------------------------
LEMMA InitCInv == IInit => CInv
<1> SUFFICES ASSUME IInit PROVE CInv
  OBVIOUS
<1>1. IInv
  BY InitIInv DEF IInit
<1>2. registry = [ports |-> {}, total |-> 0, sockets |-> <<>>] /\ dropped = FALSE
  BY DEF IInit, RegistryInit
<1>3. RegistryOK(registry)
  <2>1. IsFiniteSet({}) /\ Cardinality({}) = 0
    BY FS_EmptySet
  <2>2. registry \in [ports : SUBSET Ports, total : Nat, sockets : Seq(Sockets)]
        /\ Len(registry.sockets) = 0
    BY <1>2
  <2> QED
    BY <1>2, <2>1, <2>2, RegistryAssumption DEF RegistryOK
<1>4. SynDroppedOnlyAtLimit
  BY <1>2 DEF SynDroppedOnlyAtLimit
<1>5. \A f, x : ~Socket(f, x)
  BY <1>2 DEF Socket
<1>6. \A f \in Flows : fake_ip[f] = None
  BY DEF IInit, Init
<1>7. FlowsOK
  BY <1>5, <1>6 DEF IInit, FlowsOK, Waiting, Unasked, NoDst
<1>8. AnswersHold
  BY <1>5 DEF IInit, AnswersHold, Waiting
<1>9. TargetIsAsked
  BY <1>6 DEF TargetIsAsked
<1> QED
  BY <1>1, <1>2, <1>3, <1>4, <1>7, <1>8, <1>9 DEF CInv

LEMMA NextCInv == ASSUME CInv, [INext]_ivars PROVE CInv'
<1>1. IInv'
  BY PoolSteps
<1>2. RegistryOK(registry') /\ dropped' \in BOOLEAN /\ SynDroppedOnlyAtLimit'
  BY RegistrySteps
<1>3. Flow'
  <2>1. ASSUME INext, NEW h \in Flows, RefusePayload(h) \/ ResetEarly(h) \/ Rearm(h) PROVE Flow'
    <3>1. PICK st \in {"Listen", "Closed"} : Becomes(h, st)
      BY <2>1 DEF RefusePayload, ResetEarly, Rearm
    <3>2. h \in DOMAIN registry.sockets /\ Forget(h) /\ UNCHANGED cache
      BY <2>1 DEF RefusePayload, ResetEarly, Rearm, Socket
    <3>3. Release(h) \/ (UNCHANGED vars /\ fake_ip[h] = None)
      <4>1. Socket(h, "Accepted") => fake_ip[h] = None
        BY DEF CInv, FlowsOK, Socket
      <4> QED
        BY <4>1, <2>1 DEF RefusePayload, ResetEarly, Rearm
    <3> QED
      BY <2>1, <3>1, <3>2, <3>3, EndFlow
  <2>2. ASSUME UNCHANGED ingress, Sweep \/ UNCHANGED vars PROVE Flow'
    <3>1. UNCHANGED <<registry, cache, asked, dst, fake_ip, opened_as, exhausted>>
      BY <2>2 DEF ingress, vars, Sweep
    <3>2. FlowsOK' /\ TargetIsAsked'
      BY <3>1 DEF CInv, FlowsOK, TargetIsAsked, Waiting, Socket, NoAnswer
    <3>3. AnswersHold'
      <4> SUFFICES ASSUME ~exhausted'
                   PROVE  /\ cache # NoAnswer =>
                               Holds(cache.ip, cache.domain, cache.age, domain', idle')
                          /\ \A f \in Flows : Waiting(f) =>
                               Holds(dst[f].ip, asked[f].domain, asked[f].age, domain', idle')
        BY <3>1 DEF AnswersHold, NoAnswer, Waiting, Socket
      <4> QED
        BY <2>2, AnswersSurvive
    <3> QED
      BY <3>2, <3>3 DEF Flow
  <2>3. CASE UNCHANGED ivars
    BY <2>2, <2>3 DEF ivars
  <2>4. CASE PoolSweep
    BY <2>2, <2>4 DEF PoolSweep
  <2>5. CASE Clock
    BY <2>5, ClockFlow
  <2>6. CASE INext
    BY <2>1, <2>3, <2>4, <2>5, <2>6, ReceiveCases, ForgeFlow, SynFlow, FirstPayloadFlow DEF INext
  <2> QED
    BY <2>3, <2>6
<1> QED
  BY <1>1, <1>2, <1>3 DEF CInv, Flow

\* The pool's invariants also hold when the packet dispatch drives the pool.
THEOREM PoolSafeInDispatch ==
  ISpec => [](TypeOK /\ MapsAgree /\ RefcountExact /\ FlowKeepsDomain)
<1>1. CInv => TypeOK /\ MapsAgree /\ RefcountExact /\ FlowKeepsDomain
  BY DEF CInv, IInv
<1> QED
  BY <1>1, InitCInv, NextCInv, PTL DEF ISpec

\* A flow that began with an answer no older than FAKE_IP_TTL goes to the domain that
\* was asked for (forge_dns_reply to resolve_target, client_tun.rs:1305).
THEOREM TargetIsAlwaysAsked == ISpec => []TargetIsAsked
<1>1. CInv => TargetIsAsked
  BY DEF CInv
<1> QED
  BY <1>1, InitCInv, NextCInv, PTL DEF ISpec

\* The number of listener sockets is bounded, at most a pool per port above the global
\* cap (ensure_port, client_tun.rs:418).
THEOREM ListenersAlwaysBounded == ISpec => []ListenersBounded
<1>1. CInv => ListenersBounded
  <2> SUFFICES ASSUME RegistryOK(registry) PROVE ListenersBounded
    BY DEF CInv
  <2> DEFINE c == Cardinality(registry.ports)
  <2>1. c \in Nat /\ c <= MAX_INTERCEPTED_PORTS
    BY FS_CardinalityType DEF RegistryOK
  <2>2. registry.total = Len(registry.sockets) /\ registry.total \in Nat
        /\ registry.total <= MAX_TOTAL_LISTENERS + pool_size * c
    BY DEF RegistryOK
  <2> HIDE DEF c
  <2>3. pool_size * c <= pool_size * MAX_INTERCEPTED_PORTS
        /\ pool_size * c \in Nat /\ pool_size * MAX_INTERCEPTED_PORTS \in Nat
    BY <2>1, RegistryAssumption
  <2> QED
    BY <2>2, <2>3, RegistryAssumption DEF ListenersBounded
<1> QED
  BY <1>1, InitCInv, NextCInv, PTL DEF ISpec

\* A clean SYN is turned away only at one of the two limits (ensure_spare_listeners,
\* client_tun.rs:466).
THEOREM SynAlwaysDroppedOnlyAtLimit == ISpec => []SynDroppedOnlyAtLimit
<1>1. CInv => SynDroppedOnlyAtLimit
  BY DEF CInv
<1> QED
  BY <1>1, InitCInv, NextCInv, PTL DEF ISpec
=============================================================================
