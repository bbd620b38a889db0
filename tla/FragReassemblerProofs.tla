------------------------ MODULE FragReassemblerProofs ------------------------
(***************************************************************************)
(* FragReassembler's safety for any number of associations, packets and    *)
(* fragments, and any cap and TTL.  The invariant describes one entry of   *)
(* the table: fragment i of the entry's own key and FRAG_TOTAL in slot i,  *)
(* none older than the entry, an entry no sweep has found too old, and a   *)
(* count that is the number of filled slots.                               *)
(***************************************************************************)
EXTENDS FragReassembler, FiniteSetTheorems, WellFoundedInduction, TLAPS

TypeOK ==
  /\ now \in Nat /\ last_sweep \in Nat /\ last_sweep <= now /\ conn \in Nat
  /\ pkt_id \in [Assocs -> Nat] /\ in_flight \subseteq Fragments
  /\ DOMAIN partials \subseteq Assocs \X Nat /\ IsFiniteSet(DOMAIN partials)

\* The slots of an entry p of key k and FRAG_TOTAL n.
SlotsSound(k, p, n) ==
  \A i \in 0..(n - 1) :
    p.frags[i] # None => /\ p.frags[i].frag.id = i /\ p.frags[i].frag.total = n
                         /\ Key(p.frags[i].frag) = k
                         /\ p.first_seen <= p.frags[i].at

\* Such an entry at time t, after a sweep at time s.
Sound(k, p, n, t, s) ==
  /\ p \in [frags : [0..(n - 1) -> Slots \cup {None}], received : Nat, first_seen : Nat]
  /\ p.first_seen <= t /\ s - p.first_seen <= FRAG_REASSEMBLY_TTL_SECS
  /\ SlotsSound(k, p, n)
  /\ p.received = Cardinality(Filling(p))

Entry(k, p, t, s) == \E n \in Nat : Sound(k, p, n, t, s) /\ Filling(p) # 0..(n - 1)

Entries == \A k \in DOMAIN partials : Entry(k, partials[k], now, last_sweep)

IInv == TypeOK /\ Entries /\ Cardinality(DOMAIN partials) <= cap /\ WholePackets

-----------------------------------------------------------------------------
\* The least-number principle, from the well-foundedness of < on Nat.
LEMMA NatMin ==
  ASSUME NEW T, T \subseteq Nat, T # {}
  PROVE  \E m \in T : \A y \in T : m <= y
<1>1. PICK R : IsWellFoundedOn(R, Nat) /\ \A x, y \in Nat : y < x => <<y, x>> \in R
  <2>1. \A x, y \in Nat : y < x => <<y, x>> \in OpToRel(<, Nat)
    BY DEF OpToRel
  <2> QED
    BY <2>1, NatLessThanWellFounded, Zenon
<1>2. PICK m \in T : \A y \in T : ~ (<<y, m>> \in R)
  BY <1>1, WFMin, Zenon
<1>3. \A y \in T : ~(y < m)
  BY <1>1, <1>2
<1> QED
  BY <1>2, <1>3

\* min_by_key finds an entry in every set of entries that is not empty.
LEMMA OldestExists ==
  ASSUME IInv, NEW C, C \subseteq DOMAIN partials, C # {}
  PROVE  \E k \in C : \A j \in C : Older(k, j)
<1>1. \A k \in C : partials[k].first_seen \in Nat /\ k[1] \in Nat /\ k[2] \in Nat
  <2> SUFFICES ASSUME NEW k \in C
               PROVE  partials[k].first_seen \in Nat /\ k[1] \in Nat /\ k[2] \in Nat
    OBVIOUS
  <2>1. k[1] \in Nat /\ k[2] \in Nat
    BY FragAssumption DEF IInv, TypeOK
  <2>2. partials[k].first_seen \in Nat
    BY DEF IInv, Entries, Entry, Sound
  <2> QED
    BY <2>1, <2>2
<1>2. PICK m \in {partials[k].first_seen : k \in C} : \A k \in C : m <= partials[k].first_seen
  <2> DEFINE T == {partials[k].first_seen : k \in C}
  <2>1. T \subseteq Nat /\ T # {}
    BY <1>1
  <2>2. \E y \in T : \A z \in T : y <= z
    <3> HIDE DEF T
    <3> QED
      BY <2>1, NatMin
  <2> QED
    BY <2>2
<1> DEFINE C1 == {k \in C : partials[k].first_seen = m}
<1>3. PICK a \in {k[1] : k \in C1} : \A k \in C1 : a <= k[1]
  <2> DEFINE T == {k[1] : k \in C1}
  <2>1. T \subseteq Nat /\ T # {}
    BY <1>1, <1>2
  <2>2. \E y \in T : \A z \in T : y <= z
    <3> HIDE DEF T
    <3> QED
      BY <2>1, NatMin
  <2> QED
    BY <2>2
<1> DEFINE C2 == {k \in C1 : k[1] = a}
<1>4. PICK b \in {k[2] : k \in C2} : \A k \in C2 : b <= k[2]
  <2> DEFINE T == {k[2] : k \in C2}
  <2>1. T \subseteq Nat /\ T # {}
    BY <1>1, <1>3
  <2>2. \E y \in T : \A z \in T : y <= z
    <3> HIDE DEF T
    <3> QED
      BY <2>1, NatMin
  <2> QED
    BY <2>2
<1>5. PICK k \in C2 : k[2] = b
  BY <1>4
<1>6. \A j \in C : Older(k, j)
  <2> SUFFICES ASSUME NEW j \in C PROVE Older(k, j)
    OBVIOUS
  <2>1. k \in C /\ partials[k].first_seen = m /\ k[1] = a /\ k[2] = b
    BY <1>5
  <2>2. m \in Nat /\ a \in Nat /\ b \in Nat
    BY <1>1, <2>1
  <2>3. CASE partials[j].first_seen # m
    BY <2>3, <1>1, <1>2, <2>1, <2>2 DEF Older
  <2>4. CASE partials[j].first_seen = m /\ j[1] # a
    <3>1. a <= j[1]
      BY <2>4, <1>3
    <3> QED
      BY <3>1, <2>4, <1>1, <2>1, <2>2 DEF Older
  <2>5. CASE partials[j].first_seen = m /\ j[1] = a
    <3>1. b <= j[2]
      BY <2>5, <1>4
    <3> QED
      BY <3>1, <2>5, <1>1, <2>1, <2>2 DEF Older
  <2> QED
    BY <2>3, <2>4, <2>5
<1> QED
  BY <1>5, <1>6

\* evict_if_full makes room: with f's entry added the table holds at most cap entries.
LEMMA KeptBounded ==
  ASSUME IInv, NEW f \in Fragments
  PROVE  /\ IsFiniteSet(Kept(f) \cup {Key(f)})
         /\ Cardinality(Kept(f) \cup {Key(f)}) <= cap
<1> DEFINE D == DOMAIN partials
           C == Current(f)
<1>1. IsFiniteSet(D) /\ Cardinality(D) \in Nat /\ Cardinality(D) <= cap
  BY FS_CardinalityType DEF IInv, TypeOK
<1>2. C \subseteq D /\ Kept(f) \subseteq C
  BY DEF Current, Kept
<1>3. IsFiniteSet(C) /\ Cardinality(C) \in Nat /\ Cardinality(C) <= cap
  <2>1. IsFiniteSet(C) /\ Cardinality(C) <= Cardinality(D)
    BY <1>1, <1>2, FS_Subset
  <2>2. Cardinality(C) \in Nat
    BY <2>1, FS_CardinalityType
  <2> QED
    BY <2>1, <2>2, <1>1, FragAssumption
<1>4. IsFiniteSet(Kept(f)) /\ Cardinality(Kept(f)) \in Nat /\ Cardinality(Kept(f)) <= Cardinality(C)
  <2>1. IsFiniteSet(Kept(f)) /\ Cardinality(Kept(f)) <= Cardinality(C)
    BY <1>3, <1>2, FS_Subset
  <2> QED
    BY <2>1, FS_CardinalityType
<1> DEFINE K == Kept(f)
           x == Key(f)
<1>5. IsFiniteSet(K \cup {x})
      /\ Cardinality(K \cup {x}) = IF x \in K THEN Cardinality(K) ELSE Cardinality(K) + 1
  <2> HIDE DEF K, x
  <2> QED
    BY <1>4, FS_AddElement DEF K
<1>6. CASE x \in C
  <2>1. K = C
    BY <1>6 DEF Kept, Victim
  <2> QED
    BY <2>1, <1>3, <1>5, <1>6
<1>7. CASE x \notin C /\ Cardinality(C) < cap
  <2>1. Cardinality(K) + 1 <= cap
    BY <1>3, <1>4, <1>7, FragAssumption
  <2>2. x \notin K
    BY <1>2, <1>7
  <2> QED
    BY <2>1, <2>2, <1>5
<1>8. CASE x \notin C /\ Cardinality(C) >= cap
  <2>1. C # {}
    BY <1>3, <1>8, FS_EmptySet, FragAssumption
  <2>2. PICK v \in C : \A j \in C : Older(v, j)
    BY <2>1, <1>2, OldestExists
  <2>3. v \in Victim(f)
    BY <2>2, <1>8 DEF Victim
  <2>4. K \subseteq C \ {v}
    BY <2>3 DEF Kept
  <2>5. IsFiniteSet(C \ {v}) /\ Cardinality(C \ {v}) = Cardinality(C) - 1
    <3> HIDE DEF C
    <3> QED
      BY <1>3, <2>2, FS_RemoveElement
  <2>6. Cardinality(K) <= Cardinality(C) - 1
    <3>1. Cardinality(K) <= Cardinality(C \ {v})
      <4> HIDE DEF C, K
      <4> QED
        BY <2>4, <2>5, FS_Subset
    <3> QED
      BY <3>1, <2>5
  <2>7. Cardinality(K) + 1 <= cap
    BY <2>6, <1>3, <1>4, FragAssumption
  <2>8. x \notin K
    BY <1>2, <1>8
  <2> QED
    BY <2>7, <2>8, <1>5
<1> QED
  BY <1>3, <1>5, <1>6, <1>7, <1>8, FragAssumption

-----------------------------------------------------------------------------
\* The entry accept works on: the one in the table, or a fresh one.
Base(f) == IF Key(f) \in Kept(f) THEN partials[Key(f)] ELSE Fresh(f)

LEMMA BaseSound ==
  ASSUME IInv, NEW f \in Fragments, ~Invalid(f)
  PROVE  Sound(Key(f), Base(f), f.total, now, last_sweep)
<1>1. f.total \in Nat /\ f.id \in Nat /\ f.total # 0 /\ f.id < f.total
  BY DEF Fragments, Invalid
<1>2. CASE Key(f) \in Kept(f)
  <2>1. Key(f) \in DOMAIN partials /\ DOMAIN partials[Key(f)].frags = 0..(f.total - 1)
    BY <1>2 DEF Kept, Current, Outdated
  <2>2. PICK n \in Nat : Sound(Key(f), partials[Key(f)], n, now, last_sweep)
    BY <2>1 DEF IInv, Entries, Entry
  <2>3. DOMAIN partials[Key(f)].frags = 0..(n - 1)
    BY <2>2 DEF Sound
  <2>4. n = f.total
    <3>1. 0..(n - 1) = 0..(f.total - 1)
      BY <2>1, <2>3
    <3>2. f.total - 1 \in 0..(n - 1)
      BY <3>1, <1>1
    <3>3. n - 1 \in 0..(f.total - 1)
      BY <3>1, <3>2
    <3> QED
      BY <3>2, <3>3, <1>1
  <2> QED
    BY <2>2, <2>4, <1>2 DEF Base
<1>3. CASE Key(f) \notin Kept(f)
  <2> DEFINE p == Fresh(f)
  <2>1. p \in [frags : [0..(f.total - 1) -> Slots \cup {None}], received : Nat, first_seen : Nat]
    BY DEF Fresh, IInv, TypeOK
  <2>2. p.first_seen <= now /\ last_sweep - p.first_seen <= FRAG_REASSEMBLY_TTL_SECS
    BY FragAssumption DEF Fresh, IInv, TypeOK
  <2>3. SlotsSound(Key(f), p, f.total)
    BY DEF Fresh, SlotsSound
  <2>4. Filling(p) = {}
    BY DEF Fresh, Filling
  <2>5. p.received = Cardinality(Filling(p))
    BY <2>4, FS_EmptySet DEF Fresh
  <2> QED
    BY <2>1, <2>2, <2>3, <2>5, <1>3 DEF Base, Sound
<1> QED
  BY <1>2, <1>3

\* Storing f keeps the entry sound; the slots filled grow by f's.
LEMMA FilledSound ==
  ASSUME IInv, NEW f \in Fragments, ~Invalid(f)
  PROVE  Sound(Key(f), Filled(f), f.total, now, last_sweep)
<1> DEFINE p == Base(f)
           q == Filled(f)
           n == f.total
           R == [frags : [0..(n - 1) -> Slots \cup {None}], received : Nat, first_seen : Nat]
<1>1. n \in Nat /\ f.id \in 0..(n - 1)
  BY DEF Fragments, Invalid
<1>2. Sound(Key(f), p, n, now, last_sweep)
  BY BaseSound
<1>3. q = [p EXCEPT !.frags[f.id] = Slot(f),
                    !.received = IF p.frags[f.id] = None THEN @ + 1 ELSE @]
  BY DEF Filled, Base
<1>4. Slot(f) \in Slots /\ Slot(f) # None
  BY FragAssumption DEF Slot, Slots, IInv, TypeOK
<1>5. p \in R
  BY <1>2 DEF Sound
<1> HIDE DEF p, q
<1>6. /\ q.frags = [p.frags EXCEPT ![f.id] = Slot(f)]
      /\ q.received = IF p.frags[f.id] = None THEN p.received + 1 ELSE p.received
      /\ q.first_seen = p.first_seen
      /\ q = [frags |-> q.frags, received |-> q.received, first_seen |-> q.first_seen]
  BY <1>3, <1>5
<1>7. q \in R
  <2>1. q.frags \in [0..(n - 1) -> Slots \cup {None}]
    BY <1>4, <1>5, <1>6
  <2>2. q.received \in Nat
    BY <1>5, <1>6
  <2> QED
    BY <2>1, <2>2, <1>5, <1>6
<1>8. q.first_seen <= now /\ last_sweep - q.first_seen <= FRAG_REASSEMBLY_TTL_SECS
  BY <1>2, <1>6 DEF Sound
<1>9. SlotsSound(Key(f), q, n)
  <2> SUFFICES ASSUME NEW i \in 0..(n - 1), q.frags[i] # None
               PROVE  /\ q.frags[i].frag.id = i /\ q.frags[i].frag.total = n
                      /\ Key(q.frags[i].frag) = Key(f) /\ q.first_seen <= q.frags[i].at
    BY DEF SlotsSound
  <2>1. CASE i = f.id
    <3>1. q.frags[i] = Slot(f)
      BY <2>1, <1>5, <1>6
    <3>2. q.frags[i].frag = f /\ q.frags[i].at = now
      BY <3>1 DEF Slot
    <3> QED
      BY <3>2, <2>1, <1>8
  <2>2. CASE i # f.id
    <3>1. q.frags[i] = p.frags[i]
      BY <2>2, <1>5, <1>6
    <3> QED
      BY <3>1, <1>2, <1>6 DEF Sound, SlotsSound
  <2> QED
    BY <2>1, <2>2
<1>10. Filling(q) = Filling(p) \cup {f.id}
  BY <1>1, <1>4, <1>5, <1>6 DEF Filling
<1>11. q.received = Cardinality(Filling(q))
  <2>1. IsFiniteSet(Filling(p))
    <3>1. Filling(p) \subseteq 0..(n - 1)
      BY <1>5 DEF Filling
    <3>2. 0 \in Int /\ n - 1 \in Int
      BY <1>1
    <3>3. IsFiniteSet(0..(n - 1))
      BY <3>2, FS_Interval
    <3> QED
      BY <3>1, <3>3, FS_Subset
  <2>2. f.id \in Filling(p) <=> p.frags[f.id] # None
    BY <1>1, <1>5 DEF Filling
  <2>3. Cardinality(Filling(p) \cup {f.id})
          = IF f.id \in Filling(p) THEN Cardinality(Filling(p)) ELSE Cardinality(Filling(p)) + 1
    BY <2>1, FS_AddElement
  <2>4. p.received = Cardinality(Filling(p))
    BY <1>2 DEF Sound
  <2> QED
    BY <2>2, <2>3, <2>4, <1>6, <1>10
<1> QED
  BY <1>7, <1>8, <1>9, <1>11 DEF Sound, q

\* received decides whether slots are missing.
LEMMA CountDecides ==
  ASSUME NEW k, NEW p, NEW n \in Nat, NEW t, NEW s, Sound(k, p, n, t, s)
  PROVE  p.received >= n <=> Filling(p) = 0..(n - 1)
<1>1. IsFiniteSet(0..(n - 1)) /\ Cardinality(0..(n - 1)) = n
  BY FS_Interval
<1>2. Filling(p) \subseteq 0..(n - 1)
  BY DEF Sound, Filling
<1>3. /\ Cardinality(Filling(p)) <= n
      /\ Cardinality(Filling(p)) = n => Filling(p) = 0..(n - 1)
  BY <1>1, <1>2, FS_Subset
<1>4. p.received = Cardinality(Filling(p)) /\ p.received \in Nat
  BY DEF Sound
<1> QED
  BY <1>1, <1>3, <1>4

-----------------------------------------------------------------------------
LEMMA InitIInv == Init => IInv
<1> SUFFICES ASSUME Init PROVE IInv
  OBVIOUS
<1>1. DOMAIN partials = {} /\ DOMAIN whole = {}
  BY DEF Init
<1>2. TypeOK
  BY <1>1, FS_EmptySet DEF Init, TypeOK
<1>3. Cardinality(DOMAIN partials) <= cap
  BY <1>1, FS_EmptySet, FragAssumption
<1> QED
  BY <1>1, <1>2, <1>3 DEF IInv, Entries, WholePackets

LEMMA AcceptPartIInv ==
  ASSUME IInv, NEW f \in Fragments, AcceptPart(f), TypeOK', UNCHANGED <<now, last_sweep>>
  PROVE  IInv'
<1>1. ~Invalid(f) /\ Filled(f).received < f.total /\ whole' = <<>> /\ f.total \in Nat
  BY DEF AcceptPart, Fragments
<1>2. DOMAIN partials' = Kept(f) \cup {Key(f)}
  BY DEF AcceptPart
<1>3. Cardinality(DOMAIN partials') <= cap
  BY <1>2, KeptBounded
<1>4. Entries'
  <2> SUFFICES ASSUME NEW k \in DOMAIN partials' PROVE Entry(k, partials'[k], now, last_sweep)
    BY DEF Entries
  <2>1. CASE k = Key(f)
    <3>1. partials'[k] = Filled(f)
      BY <2>1, <1>2 DEF AcceptPart
    <3>2. Sound(Key(f), Filled(f), f.total, now, last_sweep)
      BY <1>1, FilledSound
    <3>3. Filled(f).received \in Nat
      BY <3>2 DEF Sound
    <3>4. Filling(Filled(f)) # 0..(f.total - 1)
      BY <1>1, <3>2, <3>3, CountDecides
    <3> QED
      BY <1>1, <2>1, <3>1, <3>2, <3>4 DEF Entry
  <2>2. CASE k # Key(f)
    <3>1. k \in DOMAIN partials /\ partials'[k] = partials[k]
      BY <2>2, <1>2 DEF AcceptPart, Kept, Current
    <3> QED
      BY <3>1 DEF IInv, Entries
  <2> QED
    BY <2>1, <2>2
<1>5. WholePackets'
  BY <1>1 DEF WholePackets
<1> QED
  BY <1>3, <1>4, <1>5 DEF IInv

LEMMA AcceptLastIInv ==
  ASSUME IInv, NEW f \in Fragments, AcceptLast(f), TypeOK', UNCHANGED <<now, last_sweep>>
  PROVE  IInv'
<1>1. ~Invalid(f) /\ Filled(f).received >= f.total /\ f.total \in Nat
      /\ whole' = [i \in 1..f.total |-> Filled(f).frags[i - 1]]
  BY DEF AcceptLast, Fragments
<1>2. DOMAIN partials' = Kept(f) \ {Key(f)}
  BY DEF AcceptLast
<1>3. Cardinality(DOMAIN partials') <= cap
  <2>1. DOMAIN partials' \subseteq DOMAIN partials
    BY <1>2 DEF Kept, Current
  <2>2. IsFiniteSet(DOMAIN partials) /\ Cardinality(DOMAIN partials) <= cap
    BY DEF IInv, TypeOK
  <2>3. Cardinality(DOMAIN partials') <= Cardinality(DOMAIN partials)
    BY <2>1, <2>2, FS_Subset
  <2>4. Cardinality(DOMAIN partials) \in Nat /\ Cardinality(DOMAIN partials') \in Nat
    BY <2>2, FS_CardinalityType DEF TypeOK
  <2> QED
    BY <2>2, <2>3, <2>4, FragAssumption
<1>4. Entries'
  <2> SUFFICES ASSUME NEW k \in DOMAIN partials' PROVE Entry(k, partials'[k], now, last_sweep)
    BY DEF Entries
  <2>1. k \in DOMAIN partials /\ partials'[k] = partials[k]
    BY <1>2 DEF AcceptLast, Kept, Current
  <2> QED
    BY <2>1 DEF IInv, Entries
<1>5. WholePackets'
  <2> DEFINE p == Filled(f)
             n == f.total
  <2>1. Sound(Key(f), p, n, now, last_sweep)
    BY <1>1, FilledSound
  <2>2. Filling(p) = 0..(n - 1)
    BY <1>1, <2>1, CountDecides
  <2> HIDE DEF p
  <2>3. p.frags \in [0..(n - 1) -> Slots \cup {None}]
    BY <2>1 DEF Sound
  <2>4. \A i \in 0..(n - 1) : p.frags[i] \in Slots
    BY <2>2, <2>3 DEF Filling
  <2>5. whole' \in Seq(Slots) /\ Len(whole') = n /\ DOMAIN whole' = 1..n
    BY <1>1, <2>4 DEF p
  <2>6. ASSUME NEW i \in 1..n
        PROVE  /\ whole'[i].frag.id = i - 1 /\ whole'[i].frag.total = n
               /\ Key(whole'[i].frag) = Key(f)
               /\ last_sweep - whole'[i].at <= FRAG_REASSEMBLY_TTL_SECS
    <3>1. i - 1 \in 0..(n - 1) /\ whole'[i] = p.frags[i - 1]
      BY <1>1 DEF p
    <3>2. p.frags[i - 1] \in Slots /\ p.frags[i - 1] # None
      BY <3>1, <2>4, FragAssumption
    <3>3. /\ p.frags[i - 1].frag.id = i - 1 /\ p.frags[i - 1].frag.total = n
          /\ Key(p.frags[i - 1].frag) = Key(f)
          /\ p.first_seen <= p.frags[i - 1].at
      BY <3>1, <3>2, <2>1 DEF Sound, SlotsSound
    <3>4. p.frags[i - 1].at \in Nat /\ p.first_seen \in Nat /\ last_sweep \in Nat
          /\ last_sweep - p.first_seen <= FRAG_REASSEMBLY_TTL_SECS
      BY <3>2, <2>1 DEF Sound, Slots, IInv, TypeOK
    <3>5. last_sweep - p.frags[i - 1].at <= FRAG_REASSEMBLY_TTL_SECS
      BY <3>3, <3>4, FragAssumption
    <3> QED
      BY <3>1, <3>3, <3>5
  <2> QED
    BY <2>5, <2>6 DEF WholePackets, Key
<1> QED
  BY <1>3, <1>4, <1>5 DEF IInv

\* sweep keeps the entries no older than the TTL at the new last_sweep.
LEMMA SweepIInv ==
  ASSUME IInv, Sweep, TypeOK' PROVE IInv'
<1>1. /\ DOMAIN partials' = {j \in DOMAIN partials : Recent(partials[j])}
      /\ \A k \in DOMAIN partials' : partials'[k] = partials[k]
      /\ last_sweep' = now /\ now' = now /\ whole' = <<>>
  BY DEF Sweep
<1>2. Cardinality(DOMAIN partials') <= cap
  <2>1. IsFiniteSet(DOMAIN partials) /\ Cardinality(DOMAIN partials) <= cap
    BY DEF IInv, TypeOK
  <2>2. Cardinality(DOMAIN partials') <= Cardinality(DOMAIN partials)
    BY <1>1, <2>1, FS_Subset
  <2>3. Cardinality(DOMAIN partials) \in Nat /\ Cardinality(DOMAIN partials') \in Nat
    BY <2>1, FS_CardinalityType DEF TypeOK
  <2> QED
    BY <2>1, <2>2, <2>3, FragAssumption
<1>3. Entries'
  <2> SUFFICES ASSUME NEW k \in DOMAIN partials' PROVE Entry(k, partials[k], now, now)
    BY <1>1 DEF Entries
  <2>1. now - partials[k].first_seen <= FRAG_REASSEMBLY_TTL_SECS
    BY <1>1 DEF Recent
  <2>2. Entry(k, partials[k], now, last_sweep)
    BY <1>1 DEF IInv, Entries
  <2> QED
    BY <2>1, <2>2 DEF Entry, Sound
<1>4. WholePackets'
  BY <1>1 DEF WholePackets
<1> QED
  BY <1>2, <1>3, <1>4 DEF IInv

LEMMA NextTypeOK == ASSUME IInv, [Next]_vars PROVE TypeOK'
<1>1. TypeOK
  BY DEF IInv
<1>2. ASSUME NEW f \in in_flight, Arrive(f) PROVE TypeOK'
  <2>1. f \in Fragments /\ Key(f) \in Assocs \X Nat
    BY <1>1 DEF TypeOK, Fragments, Key
  <2>2. DOMAIN partials' \subseteq Assocs \X Nat /\ IsFiniteSet(DOMAIN partials')
    <3>1. CASE AcceptInvalid(f) \/ AcceptSingle(f)
      BY <3>1, <1>1 DEF AcceptInvalid, AcceptSingle, TypeOK
    <3>2. DOMAIN partials' \subseteq Kept(f) \cup {Key(f)} => IsFiniteSet(DOMAIN partials')
      BY <2>1, KeptBounded, FS_Subset
    <3>3. Kept(f) \subseteq DOMAIN partials
      BY DEF Kept, Current
    <3>4. CASE AcceptPart(f)
      BY <3>2, <3>3, <3>4, <2>1, <1>1 DEF AcceptPart, TypeOK
    <3>5. CASE AcceptLast(f)
      BY <3>2, <3>3, <3>5, <2>1, <1>1 DEF AcceptLast, TypeOK
    <3> QED
      BY <1>2, <3>1, <3>4, <3>5 DEF Arrive
  <2> QED
    BY <1>1, <1>2, <2>2 DEF TypeOK, Arrive, server
<1>3. CASE Sweep
  <2>1. DOMAIN partials' \subseteq DOMAIN partials
    BY <1>3 DEF Sweep
  <2>2. IsFiniteSet(DOMAIN partials')
    BY <2>1, <1>1, FS_Subset DEF TypeOK
  <2> QED
    BY <2>1, <2>2, <1>1, <1>3 DEF Sweep, TypeOK, server
<1>4. ASSUME NEW a \in Assocs, NEW total \in Totals, SendPacket(a, total) PROVE TypeOK'
  <2>1. ASSUME NEW id \in 0..(IF total = 0 THEN 0 ELSE total - 1)
        PROVE  PacketMeta(conn, a, pkt_id[a], total, id) \in Fragments
    <3>1. id \in Nat /\ total \in Nat
      BY FragAssumption
    <3> QED
      BY <3>1, <1>1 DEF PacketMeta, Fragments, TypeOK
  <2>2. in_flight' \subseteq Fragments
    BY <1>1, <1>4, <2>1 DEF SendPacket, TypeOK
  <2>3. pkt_id' \in [Assocs -> Nat]
    BY <1>1, <1>4 DEF SendPacket, TypeOK
  <2> QED
    BY <2>2, <2>3, <1>1, <1>4 DEF SendPacket, TypeOK
<1>5. ASSUME NEW f \in in_flight, Lose(f) PROVE TypeOK'
  BY <1>1, <1>5 DEF Lose, TypeOK, server
<1>6. CASE Reconnect
  BY <1>1, <1>6 DEF Reconnect, TypeOK
<1>7. CASE Tick
  BY <1>1, <1>7 DEF Tick, TypeOK, server
<1>8. CASE UNCHANGED vars
  BY <1>1, <1>8 DEF vars, TypeOK, server
<1> QED
  BY <1>2, <1>3, <1>4, <1>5, <1>6, <1>7, <1>8 DEF Next

LEMMA NextIInv == ASSUME IInv, [Next]_vars PROVE IInv'
<1>1. TypeOK'
  BY NextTypeOK
\* Steps that leave the table and accept's last result alone.
<1>2. ASSUME UNCHANGED <<partials, whole, last_sweep>>, now' \in Nat, now <= now' PROVE IInv'
  <2>1. Entries'
    <3> SUFFICES ASSUME NEW k \in DOMAIN partials PROVE Entry(k, partials[k], now', last_sweep)
      BY <1>2 DEF Entries
    <3>1. Entry(k, partials[k], now, last_sweep) /\ now \in Nat
      BY DEF IInv, Entries, TypeOK
    <3> QED
      BY <3>1, <1>2 DEF Entry, Sound
  <2>2. WholePackets'
    BY <1>2 DEF IInv, WholePackets, Key
  <2> QED
    BY <1>1, <1>2, <2>1, <2>2 DEF IInv
<1>3. ASSUME NEW f \in in_flight, Arrive(f) PROVE IInv'
  <2>1. f \in Fragments /\ UNCHANGED <<now, last_sweep>>
    BY <1>3 DEF IInv, TypeOK, Arrive
  <2>2. CASE AcceptInvalid(f)
    <3>1. Entries' /\ WholePackets' /\ Cardinality(DOMAIN partials') <= cap
      BY <2>1, <2>2 DEF AcceptInvalid, IInv, Entries, WholePackets
    <3> QED
      BY <3>1, <1>1 DEF IInv
  <2>3. CASE AcceptSingle(f)
    <3>1. Entries' /\ Cardinality(DOMAIN partials') <= cap
      BY <2>1, <2>3 DEF AcceptSingle, IInv, Entries
    <3>2. whole' = <<Slot(f)>> /\ f.total = 1 /\ f.id = 0
      BY <2>1, <2>3 DEF AcceptSingle, Invalid, Fragments
    <3>3. Len(whole') = 1 /\ DOMAIN whole' = {1}
          /\ whole'[1].frag = f /\ whole'[1].at = now
      BY <3>2 DEF Slot
    <3>4. last_sweep' - now <= FRAG_REASSEMBLY_TTL_SECS
      BY <2>1, FragAssumption DEF IInv, TypeOK
    <3>5. WholePackets'
      BY <3>2, <3>3, <3>4 DEF WholePackets
    <3> QED
      BY <3>1, <3>5, <1>1 DEF IInv
  <2>4. CASE AcceptPart(f)
    BY <2>1, <2>4, <1>1, AcceptPartIInv
  <2>5. CASE AcceptLast(f)
    BY <2>1, <2>5, <1>1, AcceptLastIInv
  <2> QED
    BY <1>3, <2>2, <2>3, <2>4, <2>5 DEF Arrive
<1>4. CASE Sweep
  BY <1>1, <1>4, SweepIInv
<1>5. ASSUME NEW f \in in_flight, Lose(f) PROVE IInv'
  BY <1>2, <1>5 DEF Lose, IInv, TypeOK
<1>6. ASSUME NEW a \in Assocs, NEW total \in Totals, SendPacket(a, total) PROVE IInv'
  BY <1>2, <1>6 DEF SendPacket, IInv, TypeOK
<1>7. CASE Reconnect
  BY <1>2, <1>7 DEF Reconnect, IInv, TypeOK
<1>8. CASE Tick
  BY <1>2, <1>8 DEF Tick, IInv, TypeOK
<1>9. CASE UNCHANGED vars
  BY <1>2, <1>9 DEF vars, IInv, TypeOK
<1> QED
  BY <1>3, <1>4, <1>5, <1>6, <1>7, <1>8, <1>9 DEF Next

\* Every packet accept returns is whole, of one key and one FRAG_TOTAL, and made of
\* fragments no older than the TTL at the last sweep (accept, tuic.rs:337).
THEOREM WholePacketsHolds == Spec => []WholePackets
<1>1. IInv => WholePackets
  BY DEF IInv
<1> QED
  BY <1>1, InitIInv, NextIInv, PTL DEF Spec

\* The table stays within cap whatever is lost, and no complete packet stays in it
\* (evict_if_full, tuic.rs:387).
THEOREM BacklogBoundedHolds == Spec => []BacklogBounded
<1>1. IInv => BacklogBounded
  <2> SUFFICES ASSUME IInv, NEW k \in DOMAIN partials
               PROVE  /\ partials[k].received = Cardinality(Filling(partials[k]))
                      /\ Filling(partials[k]) # DOMAIN partials[k].frags
    BY DEF BacklogBounded, IInv
  <2> QED
    BY DEF IInv, Entries, Entry, Sound
<1> QED
  BY <1>1, InitIInv, NextIInv, PTL DEF Spec
=============================================================================
