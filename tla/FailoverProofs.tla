--------------------------- MODULE FailoverProofs ---------------------------
(***************************************************************************)
(* Failover's safety for any number of concurrent open_tcp calls and any   *)
(* thresholds with MAX_DUE < PROBE_INTERVAL.                               *)
(*                                                                         *)
(* The argument is about time.  The health task can be between a probe and *)
(* the switch back (ProbePcs) only after PROBE_INTERVAL ticks of this      *)
(* REALITY spell, and while a caller still runs switch_to_reality's stores *)
(* the clock has not moved since the switch: fewer ticks than that are     *)
(* left to handle.  So the two never overlap, and what the switch back     *)
(* reads (switch time, probe count) belongs to the spell it ends.          *)
(***************************************************************************)
EXTENDS Failover, TLAPS

ProbePcs == {"probing", "rec_ok", "rec_bad", "zero", "count", "cool", "cas_back"}

Switching == \E c \in Callers : pc[c] \in Storing

\* The probe half of the health task runs on REALITY, with nobody in the stores.
ProbeAlone ==
  pc[Health] \in ProbePcs =>
    active_tcp_leg = "Reality" /\ ~Switching /\ secs_since_up_probe = 0
      /\ detector = Unprimed

\* The probe timer is 0 on TUIC and has no time to run while a switch completes.
TimerYoung ==
  /\ active_tcp_leg = "Tuic" => secs_since_up_probe = 0
  /\ Switching => secs_since_up_probe + due <= MAX_DUE /\ spell_age = 0

\* Once stored, the switch time is that of this spell.
AgeKnown ==
  active_tcp_leg = "Reality" /\ (\A c \in Callers : pc[c] # "store_at")
    => switch_age = spell_age

Pending == IF pc[Health] \in {"rec_ok", "count"} THEN 1 ELSE 0

\* The count of good probes never runs ahead of the good probes of this spell.
ProbesCounted ==
  /\ (/\ active_tcp_leg = "Reality" /\ ~Switching
      /\ pc[Health] \notin {"rec_bad", "zero", "back_fail", "back_probe"})
       => ok_run = UP_PROBE_CONSEC \/ probe_consec_ok + Pending <= ok_run
  /\ pc[Health] \in {"cool", "cas_back"} => ok_run = UP_PROBE_CONSEC
  /\ pc[Health] = "cas_back" => spell_age = UP_COOLDOWN

\* On TUIC the detector's age is no older than the spell.
DetectorYoung ==
  /\ active_tcp_leg = "Tuic" =>
       spell_age <= BLACKHOLE_RX_STALE /\ (detector = Unprimed \/ detector <= spell_age)
  /\ pc[Health] \in {"rec_blackhole", "cas"} => detector = BLACKHOLE_RX_STALE

IInv == /\ TypeOK /\ SingleSwitcher /\ ProbeAlone /\ TimerYoung /\ AgeKnown
        /\ ProbesCounted /\ DetectorYoung

-----------------------------------------------------------------------------
(* Type correctness.                                                       *)

\* Moving a caller to one of its own labels keeps pc well-typed.
LEMMA GotoType ==
  ASSUME TypeOK, NEW c \in Callers, NEW l, Goto(c, l),
         c \in Opens => l \in OpenPcs, c = Health => l \in HealthPcs
  PROVE  /\ pc' \in [Callers -> OpenPcs \cup HealthPcs]
         /\ \A o \in Opens : pc'[o] \in OpenPcs
         /\ pc'[Health] \in HealthPcs
BY FailoverAssumption DEF TypeOK, Goto, Callers

\* live_conn leaves the connection open or closed and the flag Boolean.
LEMMA LiveConnType ==
  ASSUME TypeOK, LiveConnOk \/ LiveConnErr
  PROVE  conn' \in {"open", "closed"} /\ rx_moved' \in BOOLEAN
BY DEF TypeOK, LiveConnOk, LiveConnErr

\* The initial state is well-typed.
LEMMA InitType == Init => TypeOK
<1> SUFFICES ASSUME Init PROVE TypeOK
  OBVIOUS
<1>1. /\ pc \in [Callers -> OpenPcs \cup HealthPcs] /\ pc[Health] \in HealthPcs
      /\ \A o \in Opens : pc[o] \in OpenPcs
  BY DEF Init, Callers, OpenPcs, HealthPcs
<1>2. /\ switch_age \in 0..UP_COOLDOWN /\ due \in 0..MAX_DUE
      /\ ok_run \in 0..UP_PROBE_CONSEC
  BY FailoverAssumption DEF Init
<1>3. rx_moved \in BOOLEAN
  BY DEF Init
<1> QED
  BY <1>1, <1>2, <1>3 DEF Init, TypeOK

\* Every step is well-typed.
LEMMA NextType == TypeOK /\ [Next]_vars => TypeOK'
<1> SUFFICES ASSUME TypeOK, [Next]_vars PROVE TypeOK'
  OBVIOUS
<1> USE DEF state, health, leg_env, history
<1> DEFINE PcOK == /\ pc' \in [Callers -> OpenPcs \cup HealthPcs]
                   /\ \A o \in Opens : pc'[o] \in OpenPcs
                   /\ pc'[Health] \in HealthPcs
<1>1. ASSUME NEW c \in Callers, SwitchStep(c) PROVE TypeOK'
  <2>1. ASSUME NEW l \in Storing \cup {"idle"}, Goto(c, l) PROVE PcOK
    BY <2>1, GotoType DEF OpenPcs, HealthPcs
  <2>2. CASE CasReality(c)
    <3>1. PcOK
      BY <2>1, <2>2 DEF CasReality, Storing
    <3>2. 0 \in 0..UP_PROBE_CONSEC
      BY FailoverAssumption
    <3>3. /\ won' \in SUBSET Callers /\ spell_age' \in Nat
          /\ ok_run' \in 0..UP_PROBE_CONSEC /\ active_tcp_leg' \in {"Tuic", "Reality"}
      BY <2>2, <3>2 DEF CasReality, TypeOK
    <3> QED
      BY <2>2, <3>1, <3>3 DEF CasReality, TypeOK
  <2>3. CASE StoreSwitchAt(c)
    <3>1. PcOK /\ switch_age' \in 0..UP_COOLDOWN
      BY <2>1, <2>3, FailoverAssumption DEF StoreSwitchAt, Storing
    <3> QED
      BY <2>3, <3>1 DEF StoreSwitchAt, TypeOK
  <2>4. CASE StoreFail(c)
    <3>1. PcOK
      BY <2>1, <2>4 DEF StoreFail, Storing
    <3> QED
      BY <2>4, <3>1 DEF StoreFail, TypeOK
  <2>5. CASE StoreProbe(c)
    <3>1. PcOK
      <4>1. CASE c = Health
        BY <2>1, <2>5, <4>1 DEF StoreProbe
      <4>2. CASE c # Health
        BY <2>5, <4>2, GotoType DEF StoreProbe, OpenPcs
      <4> QED
        BY <4>1, <4>2
    <3> QED
      BY <2>5, <3>1 DEF StoreProbe, TypeOK
  <2> QED
    BY <1>1, <2>2, <2>3, <2>4, <2>5 DEF SwitchStep
<1>2. ASSUME NEW o \in Opens, OpenTcp(o) \/ OpenStep(o) PROVE TypeOK'
  <2>1. o \in Callers /\ o # Health
    BY FailoverAssumption DEF Callers
  <2>2. ASSUME NEW l \in OpenPcs, Goto(o, l) PROVE PcOK
    BY <2>1, <2>2, GotoType
  <2>3. CASE OpenTcp(o) \/ QueryIsDead(o) \/ RecordTuicFailure(o) \/ RealityOpen(o)
    <3>1. PcOK
      BY <2>2, <2>3 DEF OpenTcp, QueryIsDead, RecordTuicFailure, RealityOpen, OpenPcs
    <3> QED
      BY <2>3, <3>1 DEF OpenTcp, QueryIsDead, RecordTuicFailure, RealityOpen, TypeOK
  <2>4. CASE TuicOpenOk(o) \/ TuicOpenErr(o)
    <3>1. PcOK
      BY <2>2, <2>4 DEF TuicOpenOk, TuicOpenErr, OpenPcs
    <3>2. conn' \in {"open", "closed"} /\ rx_moved' \in BOOLEAN
      BY <2>4, LiveConnType DEF TuicOpenOk, TuicOpenErr
    <3> QED
      BY <2>4, <3>1, <3>2 DEF TuicOpenOk, TuicOpenErr, TypeOK
  <2>5. CASE RecordTuicSuccess(o) \/ FailureFetchAdd(o)
    <3>1. PcOK
      BY <2>2, <2>5 DEF RecordTuicSuccess, FailureFetchAdd, OpenPcs
    <3>2. tuic_consec_fail' \in Nat
      BY <2>5 DEF RecordTuicSuccess, FailureFetchAdd, TypeOK
    <3> QED
      BY <2>5, <3>1, <3>2 DEF RecordTuicSuccess, FailureFetchAdd, TypeOK
  <2> QED
    BY <1>1, <1>2, <2>1, <2>3, <2>4, <2>5 DEF OpenStep
<1>3. CASE HealthStep
  <2>1. ASSUME NEW l \in HealthPcs, Goto(Health, l) PROVE PcOK
    BY <2>1, FailoverAssumption, GotoType DEF Callers
  <2>2. CASE TickTuicSkip
    <3>1. due' \in 0..MAX_DUE
      BY <2>2, FailoverAssumption DEF TickTuicSkip, TypeOK
    <3> QED
      BY <2>2, <3>1 DEF TickTuicSkip, TypeOK
  <2>3. CASE TickTuicObserve
    <3>1. PcOK
      BY <2>1, <2>3 DEF TickTuicObserve, Observe, HealthPcs, TypeOK
    <3>2. due' \in 0..MAX_DUE /\ 0 \in 0..BLACKHOLE_RX_STALE
      BY <2>3, FailoverAssumption DEF TickTuicObserve, Observe, TypeOK
    <3>3. detector' \in {Unprimed} \cup 0..BLACKHOLE_RX_STALE /\ rx_moved' \in BOOLEAN
      BY <2>3, <3>2 DEF TickTuicObserve, Observe, TypeOK
    <3> QED
      BY <2>3, <3>1, <3>2, <3>3 DEF TickTuicObserve, Observe, TypeOK
  <2>4. CASE TickReality
    <3>1. PcOK
      BY <2>1, <2>4 DEF TickReality, HealthPcs, TypeOK
    <3>2. due' \in 0..MAX_DUE /\ secs_since_up_probe' \in Nat
      BY <2>4, FailoverAssumption DEF TickReality, TypeOK
    <3> QED
      BY <2>4, <3>1, <3>2 DEF TickReality, TypeOK
  <2>5. CASE RecordBlackhole \/ RecordProbe \/ ProbeCooled
    <3>1. PcOK
      BY <2>1, <2>5 DEF RecordBlackhole, RecordProbe, ProbeCooled, HealthPcs
    <3> QED
      BY <2>5, <3>1 DEF RecordBlackhole, RecordProbe, ProbeCooled, TypeOK
  <2>6. CASE ProbeOk \/ ProbeErr
    <3>1. PcOK
      BY <2>1, <2>6 DEF ProbeOk, ProbeErr, HealthPcs
    <3>2. conn' \in {"open", "closed"} /\ rx_moved' \in BOOLEAN
      BY <2>6, LiveConnType DEF ProbeOk, ProbeErr
    <3>3. ok_run' \in 0..UP_PROBE_CONSEC
      <4>1. ok_run + 1 \in Nat /\ UP_PROBE_CONSEC \in Nat /\ 0 \in 0..UP_PROBE_CONSEC
        BY FailoverAssumption DEF TypeOK
      <4> QED
        BY <2>6, <4>1 DEF ProbeOk, ProbeErr, CapAt
    <3> QED
      BY <2>6, <3>1, <3>2, <3>3 DEF ProbeOk, ProbeErr, TypeOK
  <2>7. CASE ProbeZero \/ ProbeFetchAdd \/ BackStoreFail \/ BackStoreProbe
    <3>1. PcOK
      BY <2>1, <2>7 DEF ProbeZero, ProbeFetchAdd, BackStoreFail, BackStoreProbe, HealthPcs
    <3>2. probe_consec_ok' \in Nat /\ tuic_consec_fail' \in Nat
      BY <2>7 DEF ProbeZero, ProbeFetchAdd, BackStoreFail, BackStoreProbe, TypeOK
    <3> QED
      BY <2>7, <3>1, <3>2
         DEF ProbeZero, ProbeFetchAdd, BackStoreFail, BackStoreProbe, TypeOK
  <2>8. CASE CasTuic
    <3>1. PcOK
      BY <2>1, <2>8 DEF CasTuic, HealthPcs
    <3>2. 0 \in 0..UP_PROBE_CONSEC
      BY FailoverAssumption
    <3>3. /\ won' \in SUBSET Callers /\ spell_age' \in Nat
          /\ ok_run' \in 0..UP_PROBE_CONSEC /\ active_tcp_leg' \in {"Tuic", "Reality"}
      BY <2>8, <3>2 DEF CasTuic, TypeOK
    <3> QED
      BY <2>8, <3>1, <3>3 DEF CasTuic, TypeOK
  <2> QED
    BY <1>1, <1>3, <2>2, <2>3, <2>4, <2>5, <2>6, <2>7, <2>8 DEF HealthStep, HealthRun, Callers
<1>4. CASE Advance
  <2>1. /\ switch_age + 1 \in Nat /\ spell_age + 1 \in Nat /\ UP_COOLDOWN \in Nat
        /\ BLACKHOLE_RX_STALE \in Nat /\ due' \in 0..MAX_DUE
        /\ detector # Unprimed => detector + 1 \in Nat
    BY <1>4, FailoverAssumption DEF Advance, TypeOK
  <2>2. /\ CapAt(switch_age + 1, UP_COOLDOWN) \in 0..UP_COOLDOWN
        /\ CapAt(spell_age + 1, UP_COOLDOWN) \in Nat
        /\ CapAt(spell_age + 1, BLACKHOLE_RX_STALE) \in Nat
        /\ detector # Unprimed =>
             CapAt(detector + 1, BLACKHOLE_RX_STALE) \in 0..BLACKHOLE_RX_STALE
    BY <2>1 DEF CapAt
  <2>4. /\ switch_age' \in 0..UP_COOLDOWN /\ spell_age' \in Nat
        /\ detector' \in {Unprimed} \cup 0..BLACKHOLE_RX_STALE
    BY <1>4, <2>2 DEF Advance
  <2>3. rx_moved' \in BOOLEAN
    BY <1>4 DEF Advance, TypeOK
  <2> QED
    BY <1>4, <2>1, <2>3, <2>4 DEF Advance, TypeOK
<1>5. CASE IdleTimeout \/ PathChange
  BY <1>5 DEF IdleTimeout, PathChange, TypeOK
<1>6. CASE BackgroundReconnect
  BY <1>6, LiveConnType DEF BackgroundReconnect, TypeOK
<1>7. CASE UNCHANGED vars
  BY <1>7 DEF vars, TypeOK
<1> QED
  BY <1>2, <1>3, <1>4, <1>5, <1>6, <1>7 DEF Next, Environment

-----------------------------------------------------------------------------
(* The spell invariant.                                                    *)

Spells == /\ SingleSwitcher /\ ProbeAlone /\ TimerYoung /\ AgeKnown
          /\ ProbesCounted /\ DetectorYoung

watched == <<active_tcp_leg, probe_consec_ok, switch_age, secs_since_up_probe, due,
             detector, won, spell_age, ok_run>>

\* A step of an open_tcp call outside switch_to_reality changes nothing watched.
LEMMA QuietOpen ==
  ASSUME IInv, NEW o \in Opens, NEW l, l \notin Storing, pc[o] \notin Storing,
         Goto(o, l), UNCHANGED watched
  PROVE  Spells'
<1>1. o # Health /\ pc'[Health] = pc[Health]
  BY FailoverAssumption DEF Goto, IInv, TypeOK, Callers
<1>2. \A c \in Callers : pc'[c] \in Storing <=> pc[c] \in Storing
  BY DEF Goto, IInv, TypeOK
<1>3. \A c \in Callers : pc'[c] = "store_at" <=> pc[c] = "store_at"
  BY DEF Goto, IInv, TypeOK, Storing
<1>4. Switching' <=> Switching
  BY <1>2 DEF Switching
<1>5. SingleSwitcher'
  BY <1>2 DEF watched, IInv, SingleSwitcher
<1>6. ProbeAlone' /\ TimerYoung'
  BY <1>1, <1>4 DEF watched, IInv, ProbeAlone, TimerYoung
<1>7. AgeKnown'
  BY <1>3 DEF watched, IInv, AgeKnown
<1>8. ProbesCounted' /\ DetectorYoung'
  BY <1>1, <1>4 DEF watched, IInv, ProbesCounted, Pending, DetectorYoung
<1> QED
  BY <1>5, <1>6, <1>7, <1>8 DEF Spells

\* Neither does a step of the environment other than the clock.
LEMMA QuietEnvironment ==
  ASSUME IInv, UNCHANGED <<watched, pc>> PROVE Spells'
BY DEF watched, IInv, Spells, SingleSwitcher, ProbeAlone, TimerYoung, AgeKnown,
       ProbesCounted, Pending, DetectorYoung, Switching

\* switch_to_reality, by an open_tcp call or by the health task.
LEMMA SwitchSpells ==
  ASSUME IInv, NEW c \in Callers, SwitchStep(c) PROVE Spells'
<1> USE DEF state, health, leg_env, history
<1>0. /\ pc \in [Callers -> OpenPcs \cup HealthPcs] /\ Health \in Callers
      /\ MAX_DUE \in Nat /\ due \in 0..MAX_DUE /\ secs_since_up_probe \in Nat
      /\ active_tcp_leg \in {"Tuic", "Reality"}
  BY FailoverAssumption DEF IInv, TypeOK, Callers
<1>1. CASE CasReality(c) /\ active_tcp_leg = "Tuic"
  <2>1. /\ active_tcp_leg' = "Reality" /\ won' = {c} /\ spell_age' = 0 /\ ok_run' = 0
        /\ pc' = [pc EXCEPT ![c] = "store_at"]
        /\ UNCHANGED <<probe_consec_ok, switch_age, secs_since_up_probe, due, detector>>
    BY <1>1 DEF CasReality, Goto
  <2>2. pc'[c] = "store_at" /\ Switching' /\ \A d \in Callers : pc'[d] \in Storing => d = c
    BY <1>0, <1>1, <2>1 DEF IInv, SingleSwitcher, Switching, Storing
  <2>3. pc'[Health] \notin ProbePcs /\ secs_since_up_probe = 0
    BY <1>0, <1>1, <2>1 DEF IInv, ProbeAlone, TimerYoung, ProbePcs
  <2>4. SingleSwitcher'
    BY <2>1, <2>2 DEF SingleSwitcher
  <2>5. ProbeAlone' /\ TimerYoung'
    BY <1>0, <2>1, <2>2, <2>3 DEF ProbeAlone, TimerYoung
  <2>6. AgeKnown' /\ ProbesCounted'
    BY <2>2, <2>3 DEF AgeKnown, ProbesCounted, ProbePcs
  <2>7. DetectorYoung'
    BY <1>0, <2>1 DEF IInv, DetectorYoung
  <2> QED
    BY <2>4, <2>5, <2>6, <2>7 DEF Spells
<1>2. CASE CasReality(c) /\ active_tcp_leg # "Tuic"
  <2>1. /\ pc[c] = "cas" /\ pc' = [pc EXCEPT ![c] = "idle"] /\ active_tcp_leg = "Reality"
        /\ UNCHANGED watched
    BY <1>0, <1>2 DEF CasReality, Goto, watched
  <2>2. \A d \in Callers : /\ pc'[d] \in Storing <=> pc[d] \in Storing
                           /\ pc'[d] = "store_at" <=> pc[d] = "store_at"
    BY <1>0, <2>1 DEF Storing
  <2>3. Switching' <=> Switching
    BY <2>2 DEF Switching
  <2>4. SingleSwitcher' /\ AgeKnown' /\ TimerYoung'
    BY <2>1, <2>2, <2>3 DEF watched, IInv, SingleSwitcher, AgeKnown, TimerYoung
  <2>5. ProbeAlone'
    BY <1>0, <2>1, <2>3 DEF watched, IInv, ProbeAlone, ProbePcs
  <2>6. ProbesCounted' /\ DetectorYoung'
    BY <1>0, <2>1, <2>3 DEF watched, IInv, ProbesCounted, Pending, DetectorYoung
  <2> QED
    BY <2>4, <2>5, <2>6 DEF Spells
<1>3. CASE StoreSwitchAt(c) \/ StoreFail(c) \/ StoreProbe(c)
  <2>1. pc[c] \in Storing /\ Switching
    BY <1>3 DEF StoreSwitchAt, StoreFail, StoreProbe, Storing, Switching
  <2>2. /\ active_tcp_leg = "Reality" /\ won = {c} /\ spell_age = 0
        /\ secs_since_up_probe + due <= MAX_DUE
        /\ \A d \in Callers : pc[d] \in Storing => d = c
        /\ pc[Health] \notin ProbePcs
    BY <2>1 DEF IInv, SingleSwitcher, TimerYoung, ProbeAlone
  <2>3. PICK l \in {"store_fail", "store_probe", "idle", "reality_open"} :
          pc' = [pc EXCEPT ![c] = l]
    BY <1>3 DEF StoreSwitchAt, StoreFail, StoreProbe, Goto
  <2>4. UNCHANGED <<active_tcp_leg, secs_since_up_probe, due, won, spell_age, ok_run>>
    BY <1>3 DEF StoreSwitchAt, StoreFail, StoreProbe
  <2>5. pc'[Health] \notin ProbePcs /\ pc'[Health] \notin {"cool", "cas_back"}
    BY <1>0, <2>2, <2>3 DEF ProbePcs
  <2>6. SingleSwitcher' /\ ProbeAlone' /\ TimerYoung'
    BY <1>0, <2>2, <2>3, <2>4, <2>5 DEF SingleSwitcher, ProbeAlone, TimerYoung
  <2>7. AgeKnown'
    <3>1. CASE StoreSwitchAt(c)
      BY <2>2, <2>4, <3>1 DEF StoreSwitchAt, AgeKnown
    <3>2. CASE StoreFail(c) \/ StoreProbe(c)
      <4>1. pc[c] # "store_at" /\ switch_age' = switch_age
        BY <3>2 DEF StoreFail, StoreProbe
      <4>2. \A d \in Callers : pc[d] # "store_at"
        BY <2>2, <4>1 DEF Storing
      <4> QED
        BY <2>2, <2>4, <4>1, <4>2 DEF IInv, AgeKnown
    <3> QED
      BY <1>3, <3>1, <3>2
  <2>8. ProbesCounted'
    <3>1. CASE StoreProbe(c)
      <4>1. probe_consec_ok' = 0 /\ pc'[Health] \notin {"rec_ok", "count"}
        BY <2>5, <3>1 DEF StoreProbe, ProbePcs
      <4> QED
        BY <2>4, <2>5, <4>1 DEF ProbesCounted, Pending, IInv, TypeOK
    <3>2. CASE StoreSwitchAt(c) \/ StoreFail(c)
      <4>1. Switching'
        BY <1>0, <3>2 DEF StoreSwitchAt, StoreFail, Goto, Switching, Storing
      <4> QED
        BY <2>5, <4>1 DEF ProbesCounted
    <3> QED
      BY <1>3, <3>1, <3>2
  <2>9. DetectorYoung'
    <3>1. pc'[Health] \in {"rec_blackhole", "cas"} => c # Health
      BY <1>0, <2>3
    <3>2. c # Health => detector' = detector /\ pc'[Health] = pc[Health]
      BY <1>0, <1>3 DEF StoreSwitchAt, StoreFail, StoreProbe, Goto
    <3> QED
      BY <2>2, <2>4, <3>1, <3>2 DEF IInv, DetectorYoung
  <2> QED
    BY <2>6, <2>7, <2>8, <2>9 DEF Spells
<1> QED
  BY <1>1, <1>2, <1>3 DEF SwitchStep

\* A step of the health task outside switch_to_reality.
LEMMA HealthMove ==
  ASSUME IInv, NEW l, l \notin Storing, pc[Health] \notin Storing, Goto(Health, l)
  PROVE  /\ pc'[Health] = l /\ (Switching' <=> Switching)
         /\ \A c \in Callers : pc'[c] \in Storing <=> pc[c] \in Storing
         /\ \A c \in Callers : pc'[c] = "store_at" <=> pc[c] = "store_at"
<1>1. pc \in [Callers -> OpenPcs \cup HealthPcs] /\ Health \in Callers
  BY DEF IInv, TypeOK, Callers
<1>2. /\ \A c \in Callers : pc'[c] \in Storing <=> pc[c] \in Storing
      /\ \A c \in Callers : pc'[c] = "store_at" <=> pc[c] = "store_at"
  BY <1>1 DEF Goto, Storing
<1>3. Switching' <=> Switching
  BY <1>2 DEF Switching
<1> QED
  BY <1>1, <1>2, <1>3 DEF Goto

\* The health task's ticks, probes and switch back keep the spell invariant.
LEMMA HealthSpells == ASSUME IInv, HealthStep PROVE Spells'
<1> USE DEF state, health, leg_env, history
<1>0. /\ MAX_DUE \in Nat /\ due \in 0..MAX_DUE /\ secs_since_up_probe \in Nat
      /\ active_tcp_leg \in {"Tuic", "Reality"} /\ MAX_DUE < PROBE_INTERVAL
      /\ PROBE_INTERVAL \in Nat /\ ok_run \in 0..UP_PROBE_CONSEC
      /\ UP_PROBE_CONSEC \in Nat \ {0} /\ probe_consec_ok \in Nat /\ spell_age \in Nat
      /\ switch_age \in 0..UP_COOLDOWN /\ UP_COOLDOWN \in Nat
      /\ BLACKHOLE_RX_STALE \in Nat
      /\ detector \in {Unprimed} \cup 0..BLACKHOLE_RX_STALE
  BY FailoverAssumption DEF IInv, TypeOK
<1> USE DEF IInv, Spells
<1>1. CASE TickTuicSkip
  BY <1>0, <1>1
     DEF TickTuicSkip, SingleSwitcher, ProbeAlone, TimerYoung, AgeKnown, ProbesCounted,
         Pending, DetectorYoung, Switching
<1>2. CASE TickTuicObserve
  <2>1. PICK l \in {"idle", "rec_blackhole"} : Goto(Health, l)
    BY <1>2 DEF TickTuicObserve, Observe, Goto, TypeOK
  <2>2. /\ pc'[Health] = l /\ (Switching' <=> Switching) /\ active_tcp_leg = "Tuic"
        /\ \A c \in Callers : pc'[c] \in Storing <=> pc[c] \in Storing
    <3>1. l \notin Storing /\ pc[Health] \notin Storing /\ active_tcp_leg = "Tuic"
      BY <1>2, <2>1 DEF TickTuicObserve, Observe, Storing
    <3> QED
      BY <2>1, <3>1, HealthMove
  <2>3. /\ due' = due - 1 /\ secs_since_up_probe' = 0 /\ due > 0
        /\ UNCHANGED <<active_tcp_leg, won, spell_age>>
    BY <1>2 DEF TickTuicObserve, Observe
  <2>4. SingleSwitcher' /\ ProbeAlone' /\ TimerYoung'
    BY <1>0, <2>2, <2>3 DEF SingleSwitcher, ProbeAlone, TimerYoung, ProbePcs
  <2>5. AgeKnown' /\ ProbesCounted'
    BY <2>2, <2>3 DEF AgeKnown, ProbesCounted
  <2>6. (detector' = Unprimed \/ detector' <= spell_age)
        /\ (l = "rec_blackhole" => detector' = BLACKHOLE_RX_STALE)
    <3>1. CASE detector = Unprimed \/ rx_moved
      <4>1. pc' = pc /\ detector' = 0
        BY <1>2, <3>1 DEF TickTuicObserve, Observe
      <4>2. l = "idle"
        BY <1>2, <2>2, <4>1 DEF TickTuicObserve, Observe
      <4> QED
        BY <1>0, <4>1, <4>2
    <3>2. CASE ~(detector = Unprimed \/ rx_moved)
      <4>1. /\ detector' = detector
            /\ Goto(Health, IF detector >= BLACKHOLE_RX_STALE THEN "rec_blackhole" ELSE "idle")
        BY <1>2, <3>2 DEF TickTuicObserve, Observe
      <4>2. l = "rec_blackhole" => detector >= BLACKHOLE_RX_STALE
        BY <2>2, <4>1 DEF Goto, TypeOK, Callers
      <4> QED
        BY <1>0, <2>2, <3>2, <4>1, <4>2 DEF DetectorYoung
    <3> QED
      BY <3>1, <3>2
  <2>7. DetectorYoung'
    BY <2>2, <2>3, <2>6 DEF DetectorYoung
  <2> QED
    BY <2>4, <2>5, <2>7
<1>3. CASE TickReality
  <2>1. PICK l \in {"idle", "probing"} :
          /\ Goto(Health, l)
          /\ l = "probing" => secs_since_up_probe + 1 >= PROBE_INTERVAL
                                /\ secs_since_up_probe' = 0
          /\ l = "idle" => secs_since_up_probe' = secs_since_up_probe + 1
    <3>1. pc = [pc EXCEPT ![Health] = "idle"]
      BY <1>3 DEF TickReality, TypeOK
    <3> QED
      BY <1>3, <3>1 DEF TickReality, Goto
  <2>2. /\ pc'[Health] = l /\ (Switching' <=> Switching) /\ active_tcp_leg = "Reality"
        /\ \A c \in Callers : pc'[c] \in Storing <=> pc[c] \in Storing
        /\ \A c \in Callers : pc'[c] = "store_at" <=> pc[c] = "store_at"
    BY <1>3, <2>1, HealthMove DEF TickReality, Storing
  <2>3. /\ due' = due - 1 /\ due > 0 /\ detector' = Unprimed /\ pc[Health] = "idle"
        /\ UNCHANGED <<active_tcp_leg, won, spell_age, switch_age, ok_run, probe_consec_ok>>
    BY <1>3 DEF TickReality
  <2>4. Switching => secs_since_up_probe + due <= MAX_DUE /\ spell_age = 0
    BY DEF TimerYoung
  <2>5. Switching => l = "idle"
    BY <1>0, <2>1, <2>3, <2>4
  <2>6. SingleSwitcher'
    BY <2>2, <2>3 DEF SingleSwitcher
  <2>9. AgeKnown'
    BY <2>2, <2>3 DEF AgeKnown
  <2>7. ProbeAlone' /\ TimerYoung'
    BY <1>0, <2>1, <2>2, <2>3, <2>4, <2>5 DEF ProbeAlone, TimerYoung, ProbePcs
  <2>8. ProbesCounted' /\ DetectorYoung'
    BY <2>2, <2>3 DEF ProbesCounted, Pending, DetectorYoung
  <2> QED
    BY <2>6, <2>7, <2>8, <2>9
<1>4. CASE RecordBlackhole
  <2>1. PICK l \in {"idle", "cas"} : Goto(Health, l)
    BY <1>4 DEF RecordBlackhole
  <2>2. /\ pc'[Health] = l /\ (Switching' <=> Switching) /\ pc[Health] = "rec_blackhole"
        /\ \A c \in Callers : pc'[c] \in Storing <=> pc[c] \in Storing
        /\ \A c \in Callers : pc'[c] = "store_at" <=> pc[c] = "store_at"
    BY <1>4, <2>1, HealthMove DEF RecordBlackhole, Storing
  <2>3. UNCHANGED watched
    BY <1>4 DEF RecordBlackhole, watched
  <2>4. SingleSwitcher'
    BY <2>2, <2>3 DEF SingleSwitcher, watched
  <2>5. AgeKnown'
    BY <2>2, <2>3 DEF AgeKnown, watched
  <2>6. ProbeAlone' /\ TimerYoung' /\ ProbesCounted' /\ DetectorYoung'
    BY <2>2, <2>3 DEF ProbeAlone, TimerYoung, ProbePcs, ProbesCounted, Pending,
                      DetectorYoung, watched
  <2> QED
    BY <2>4, <2>5, <2>6
<1>5. ASSUME pc[Health] \in ProbePcs
      PROVE  /\ active_tcp_leg = "Reality" /\ ~Switching /\ secs_since_up_probe = 0
             /\ detector = Unprimed /\ pc[Health] \notin Storing
             /\ \A c \in Callers : pc[c] \notin Storing
             /\ switch_age = spell_age
  <2>1. /\ active_tcp_leg = "Reality" /\ ~Switching /\ secs_since_up_probe = 0
        /\ detector = Unprimed
    BY <1>5 DEF ProbeAlone
  <2>2. \A c \in Callers : pc[c] \notin Storing
    BY <2>1 DEF Switching
  <2> QED
    BY <1>5, <2>1, <2>2 DEF AgeKnown, Storing, ProbePcs
<1>6. ASSUME pc[Health] \in ProbePcs, NEW l \in ProbePcs \cup {"idle"}, Goto(Health, l),
             UNCHANGED <<active_tcp_leg, switch_age, secs_since_up_probe, due, detector,
                         won, spell_age>>
      PROVE  /\ SingleSwitcher' /\ ProbeAlone' /\ TimerYoung' /\ AgeKnown'
             /\ DetectorYoung' /\ pc'[Health] = l
  <2>1. /\ pc'[Health] = l /\ (Switching' <=> Switching)
        /\ \A c \in Callers : pc'[c] \in Storing <=> pc[c] \in Storing
    <3>1. l \notin Storing /\ pc[Health] \notin Storing
      BY <1>6 DEF ProbePcs, Storing
    <3> QED
      BY <1>6, <3>1, HealthMove
  <2> QED
    BY <1>5, <1>6, <2>1
       DEF SingleSwitcher, ProbeAlone, TimerYoung, AgeKnown, DetectorYoung, ProbePcs
<1>7. CASE ProbeOk
  <2>1. SingleSwitcher' /\ ProbeAlone' /\ TimerYoung' /\ AgeKnown' /\ DetectorYoung'
        /\ pc'[Health] = "rec_ok"
    BY <1>6, <1>7 DEF ProbeOk, ProbePcs
  <2>2. ok_run = UP_PROBE_CONSEC \/ probe_consec_ok <= ok_run
    BY <1>0, <1>5, <1>7 DEF ProbeOk, ProbePcs, ProbesCounted, Pending
  <2>3. ok_run' = UP_PROBE_CONSEC \/ probe_consec_ok + 1 <= ok_run'
    BY <1>0, <1>7, <2>2 DEF ProbeOk, CapAt
  <2>4. ProbesCounted'
    BY <1>7, <2>1, <2>3 DEF ProbesCounted, Pending, ProbeOk
  <2> QED
    BY <2>1, <2>4
<1>8. CASE ProbeErr
  <2>1. SingleSwitcher' /\ ProbeAlone' /\ TimerYoung' /\ AgeKnown' /\ DetectorYoung'
        /\ pc'[Health] = "rec_bad"
    BY <1>6, <1>8 DEF ProbeErr, ProbePcs
  <2> QED
    BY <2>1 DEF ProbesCounted
<1>9. CASE RecordProbe
  <2>1. active_tcp_leg = "Reality"
    BY <1>5, <1>9 DEF RecordProbe, ProbePcs
  <2>2. CASE pc[Health] = "rec_ok"
    <3>1. SingleSwitcher' /\ ProbeAlone' /\ TimerYoung' /\ AgeKnown' /\ DetectorYoung'
          /\ pc'[Health] = "count"
      BY <1>6, <1>9, <2>1, <2>2 DEF RecordProbe, ProbePcs
    <3>2. ok_run = UP_PROBE_CONSEC \/ probe_consec_ok + 1 <= ok_run
      BY <1>0, <1>5, <2>2 DEF ProbePcs, ProbesCounted, Pending
    <3> QED
      BY <1>9, <3>1, <3>2 DEF RecordProbe, ProbesCounted, Pending
  <2>3. CASE pc[Health] = "rec_bad"
    <3>1. SingleSwitcher' /\ ProbeAlone' /\ TimerYoung' /\ AgeKnown' /\ DetectorYoung'
          /\ pc'[Health] = "zero"
      BY <1>6, <1>9, <2>1, <2>3 DEF RecordProbe, ProbePcs
    <3> QED
      BY <3>1 DEF ProbesCounted
  <2> QED
    BY <1>9, <2>2, <2>3 DEF RecordProbe
<1>10. CASE ProbeZero
  <2>1. SingleSwitcher' /\ ProbeAlone' /\ TimerYoung' /\ AgeKnown' /\ DetectorYoung'
        /\ pc'[Health] = "idle"
    BY <1>6, <1>10 DEF ProbeZero, ProbePcs
  <2> QED
    BY <1>0, <1>10, <2>1 DEF ProbeZero, ProbesCounted, Pending
<1>11. CASE ProbeFetchAdd
  <2>1. PICK l \in {"cool", "idle"} :
          Goto(Health, l) /\ (l = "cool" => probe_consec_ok + 1 >= UP_PROBE_CONSEC)
    BY <1>11 DEF ProbeFetchAdd
  <2>2. SingleSwitcher' /\ ProbeAlone' /\ TimerYoung' /\ AgeKnown' /\ DetectorYoung'
        /\ pc'[Health] = l
    BY <1>6, <1>11, <2>1 DEF ProbeFetchAdd, ProbePcs
  <2>3. ok_run = UP_PROBE_CONSEC \/ probe_consec_ok + 1 <= ok_run
    BY <1>0, <1>5, <1>11 DEF ProbeFetchAdd, ProbePcs, ProbesCounted, Pending
  <2> QED
    BY <1>0, <1>11, <2>1, <2>2, <2>3 DEF ProbeFetchAdd, ProbesCounted, Pending
<1>12. CASE ProbeCooled
  <2>1. PICK l \in {"cas_back", "idle"} :
          Goto(Health, l) /\ (l = "cas_back" => switch_age >= UP_COOLDOWN)
    BY <1>12 DEF ProbeCooled
  <2>2. SingleSwitcher' /\ ProbeAlone' /\ TimerYoung' /\ AgeKnown' /\ DetectorYoung'
        /\ pc'[Health] = l
    BY <1>6, <1>12, <2>1 DEF ProbeCooled, ProbePcs
  <2>3. ok_run = UP_PROBE_CONSEC /\ switch_age = spell_age
    BY <1>5, <1>12 DEF ProbeCooled, ProbePcs, ProbesCounted
  <2>4. l = "cas_back" => spell_age' = UP_COOLDOWN
    BY <1>0, <1>12, <2>1, <2>3 DEF ProbeCooled
  <2>5. ok_run' = UP_PROBE_CONSEC
    BY <1>12, <2>3 DEF ProbeCooled
  <2>6. ProbesCounted'
    BY <2>2, <2>4, <2>5 DEF ProbesCounted
  <2> QED
    BY <2>2, <2>6
<1>13. CASE CasTuic
  <2>1. /\ active_tcp_leg = "Reality" /\ ~Switching /\ secs_since_up_probe = 0
        /\ detector = Unprimed /\ pc[Health] \notin Storing
    BY <1>5, <1>13 DEF CasTuic, ProbePcs
  <2>2. /\ Goto(Health, "back_fail") /\ active_tcp_leg' = "Tuic" /\ spell_age' = 0
        /\ UNCHANGED <<secs_since_up_probe, detector>>
    BY <1>13, <2>1 DEF CasTuic
  <2>3. /\ pc'[Health] = "back_fail" /\ ~Switching'
    BY <2>1, <2>2, HealthMove DEF Storing
  <2>4. SingleSwitcher'
    BY <2>3 DEF SingleSwitcher, Switching
  <2>5. ProbeAlone' /\ TimerYoung' /\ AgeKnown' /\ ProbesCounted' /\ DetectorYoung'
    BY <1>0, <2>1, <2>2, <2>3
       DEF ProbeAlone, TimerYoung, AgeKnown, ProbesCounted, DetectorYoung, ProbePcs
  <2> QED
    BY <2>4, <2>5
<1>14. CASE BackStoreFail \/ BackStoreProbe
  <2>1. PICK l \in {"back_probe", "idle"} :
          Goto(Health, l) /\ (l = "idle" => probe_consec_ok' = 0)
    BY <1>14 DEF BackStoreFail, BackStoreProbe
  <2>2. /\ pc[Health] \in {"back_fail", "back_probe"}
        /\ UNCHANGED <<active_tcp_leg, switch_age, secs_since_up_probe, due, detector,
                       won, spell_age, ok_run>>
    BY <1>14 DEF BackStoreFail, BackStoreProbe
  <2>3. /\ pc'[Health] = l /\ (Switching' <=> Switching)
        /\ \A c \in Callers : pc'[c] \in Storing <=> pc[c] \in Storing
        /\ \A c \in Callers : pc'[c] = "store_at" <=> pc[c] = "store_at"
    BY <2>1, <2>2, HealthMove DEF Storing
  <2>4. SingleSwitcher' /\ TimerYoung'
    BY <2>2, <2>3 DEF SingleSwitcher, TimerYoung
  <2>6. AgeKnown'
    BY <2>2, <2>3 DEF AgeKnown
  <2>5. ProbeAlone' /\ ProbesCounted' /\ DetectorYoung'
    BY <1>0, <2>1, <2>2, <2>3 DEF ProbeAlone, ProbesCounted, Pending, DetectorYoung, ProbePcs
  <2> QED
    BY <2>4, <2>5, <2>6
<1>15. CASE SwitchStep(Health)
  BY <1>15, SwitchSpells DEF Callers
<1> QED
  BY <1>1, <1>2, <1>3, <1>4, <1>7, <1>8, <1>9, <1>10, <1>11, <1>12, <1>13, <1>14, <1>15
     DEF HealthStep, HealthRun

\* The clock moves both ages together, and never while somebody switches.
LEMMA AdvanceSpells == ASSUME IInv, Advance PROVE Spells'
<1>0. /\ secs_since_up_probe \in Nat /\ active_tcp_leg \in {"Tuic", "Reality"}
      /\ spell_age \in Nat /\ switch_age \in 0..UP_COOLDOWN /\ UP_COOLDOWN \in Nat
      /\ BLACKHOLE_RX_STALE \in Nat
      /\ detector \in {Unprimed} \cup 0..BLACKHOLE_RX_STALE
  BY FailoverAssumption DEF IInv, TypeOK
<1>1. /\ pc' = pc /\ \A c \in Callers : pc[c] \in AtAwait
      /\ UNCHANGED <<active_tcp_leg, probe_consec_ok, secs_since_up_probe, won, ok_run>>
  BY DEF Advance
<1>2. Health \in Callers /\ pc[Health] \in AtAwait /\ ~Switching /\ ~Switching'
  BY <1>1 DEF Callers, Switching, Storing, AtAwait
<1>3. SingleSwitcher'
  BY <1>2 DEF SingleSwitcher, Switching
<1>4. ProbeAlone' /\ TimerYoung'
  <2>1. detector = Unprimed => detector' = Unprimed
    BY DEF Advance
  <2> QED
    BY <1>1, <1>2, <2>1 DEF IInv, ProbeAlone, TimerYoung
<1>5. AgeKnown'
  <2> SUFFICES ASSUME active_tcp_leg = "Reality" PROVE switch_age' = spell_age'
    BY <1>1 DEF AgeKnown
  <2>1. switch_age = spell_age
    BY <1>1 DEF IInv, AgeKnown, AtAwait
  <2> QED
    BY <2>1 DEF Advance
<1>6. ProbesCounted'
  BY <1>1, <1>2 DEF IInv, ProbesCounted, Pending, AtAwait
<1>7. DetectorYoung'
  <2>1. pc'[Health] \notin {"rec_blackhole", "cas"}
    BY <1>1, <1>2 DEF AtAwait
  <2>2. ASSUME active_tcp_leg = "Tuic"
        PROVE  /\ spell_age' <= BLACKHOLE_RX_STALE
               /\ detector' = Unprimed \/ detector' <= spell_age'
    <3>1. spell_age' = CapAt(spell_age + 1, BLACKHOLE_RX_STALE)
      BY <2>2 DEF Advance
    <3>2. detector = Unprimed \/ detector <= spell_age
      BY <2>2 DEF IInv, DetectorYoung
    <3>3. detector' = IF detector = Unprimed THEN Unprimed
                      ELSE CapAt(detector + 1, BLACKHOLE_RX_STALE)
      BY DEF Advance
    <3> QED
      BY <1>0, <3>1, <3>2, <3>3 DEF CapAt, Unprimed
  <2> QED
    BY <1>1, <2>1, <2>2 DEF DetectorYoung
<1> QED
  BY <1>3, <1>4, <1>5, <1>6, <1>7 DEF Spells

\* IInv is inductive.
LEMMA Inductive == (Init => IInv) /\ (IInv /\ [Next]_vars => IInv')
<1>1. Init => IInv
  <2> SUFFICES ASSUME Init PROVE IInv
    OBVIOUS
  <2>1. /\ \A c \in Callers : pc[c] = "idle"
        /\ Health \in Callers /\ BLACKHOLE_RX_STALE \in Nat
    BY FailoverAssumption DEF Init, Callers
  <2>2. Spells
    BY <2>1 DEF Init, Spells, SingleSwitcher, ProbeAlone, TimerYoung, AgeKnown,
                ProbesCounted, DetectorYoung, Switching, Storing, ProbePcs
  <2> QED
    BY <2>2, InitType DEF IInv, Spells
<1>2. IInv /\ [Next]_vars => IInv'
  <2> SUFFICES ASSUME IInv, [Next]_vars PROVE Spells'
    BY NextType DEF IInv, Spells
  <2> USE DEF state, health, leg_env, history
  <2>1. ASSUME NEW o \in Opens, OpenTcp(o) \/ OpenStep(o) PROVE Spells'
    <3>1. CASE SwitchStep(o)
      BY <3>1, SwitchSpells DEF Callers
    <3>2. CASE ~SwitchStep(o)
      <4>1. PICK l : Goto(o, l) /\ l \notin Storing
        BY <2>1, <3>2 DEF OpenStep, OpenTcp, TuicOpenOk, TuicOpenErr, RecordTuicSuccess,
             QueryIsDead, RecordTuicFailure, FailureFetchAdd, RealityOpen, Storing
      <4>2. pc[o] \notin Storing
        BY <2>1, <3>2 DEF OpenStep, OpenTcp, TuicOpenOk, TuicOpenErr, RecordTuicSuccess,
             QueryIsDead, RecordTuicFailure, FailureFetchAdd, RealityOpen, Storing
      <4>3. UNCHANGED watched
        BY <2>1, <3>2 DEF OpenStep, OpenTcp, TuicOpenOk, TuicOpenErr, RecordTuicSuccess,
             QueryIsDead, RecordTuicFailure, FailureFetchAdd, RealityOpen, watched
      <4> QED
        BY <4>1, <4>2, <4>3, QuietOpen
    <3> QED
      BY <3>1, <3>2
  <2>2. CASE HealthStep
    BY <2>2, HealthSpells
  <2>3. CASE Advance
    BY <2>3, AdvanceSpells
  <2>4. CASE IdleTimeout \/ BackgroundReconnect \/ PathChange \/ UNCHANGED vars
    <3>1. UNCHANGED <<watched, pc>>
      BY <2>4 DEF IdleTimeout, BackgroundReconnect, PathChange, vars, watched
    <3> QED
      BY <3>1, QuietEnvironment
  <2> QED
    BY <2>1, <2>2, <2>3, <2>4 DEF Next, Environment
<1> QED
  BY <1>1, <1>2

-----------------------------------------------------------------------------
\* The failover state is well-typed in every reachable state.
THEOREM TypeCorrect == Spec => []TypeOK
<1>1. IInv => TypeOK
  BY DEF IInv
<1> QED
  BY <1>1, Inductive, PTL DEF Spec

\* For any number of concurrent open_tcp calls, one caller at a time is inside
\* switch_to_reality, and it is the one whose compare_exchange succeeded.
THEOREM OnlyOneSwitches == Spec => []SingleSwitcher
<1>1. IInv => SingleSwitcher
  BY DEF IInv
<1> QED
  BY <1>1, Inductive, PTL DEF Spec

\* The leg returns to TUIC only on the probes and the cooldown of the REALITY spell
\* that ends, although record_probe reads the count and the switch time long after
\* it loaded the leg.
THEOREM ReturnIsEarned == Spec => SwitchBackEarned
<1>1. IInv /\ [Next]_vars
        => [(active_tcp_leg = "Reality" /\ active_tcp_leg' = "Tuic")
              => ok_run = UP_PROBE_CONSEC /\ spell_age = UP_COOLDOWN]_vars
  <2> SUFFICES ASSUME IInv, Next, active_tcp_leg = "Reality", active_tcp_leg' = "Tuic"
               PROVE  ok_run = UP_PROBE_CONSEC /\ spell_age = UP_COOLDOWN
    OBVIOUS
  <2>1. pc[Health] = "cas_back"
    BY DEF Next, OpenTcp, OpenStep, SwitchStep, CasReality, StoreSwitchAt, StoreFail,
           StoreProbe, TuicOpenOk, TuicOpenErr, RecordTuicSuccess, QueryIsDead,
           RecordTuicFailure, FailureFetchAdd, RealityOpen, HealthStep, TickTuicSkip,
           TickTuicObserve, Observe, HealthRun, TickReality, RecordBlackhole, ProbeOk, ProbeErr,
           RecordProbe, ProbeZero, ProbeFetchAdd, ProbeCooled, CasTuic, BackStoreFail,
           BackStoreProbe, Environment, Advance, IdleTimeout, BackgroundReconnect,
           PathChange, state
  <2> QED
    BY <2>1 DEF IInv, ProbesCounted
<1> QED
  BY <1>1, Inductive, PTL DEF Spec, SwitchBackEarned

\* The health task declares a black hole only when this TUIC spell itself has been
\* silent for BLACKHOLE_RX_STALE.
THEOREM VerdictIsFresh == Spec => BlackholeVerdictFresh
<1>1. IInv /\ [Next]_vars
        => [(pc[Health] = "cas" /\ pc'[Health] = "store_at")
              => spell_age = BLACKHOLE_RX_STALE]_vars
  <2> SUFFICES ASSUME IInv, Next, pc[Health] = "cas", pc'[Health] = "store_at"
               PROVE  spell_age = BLACKHOLE_RX_STALE
    OBVIOUS
  <2>1. active_tcp_leg = "Tuic"
    <3>1. ASSUME NEW o \in Opens, OpenTcp(o) \/ OpenStep(o) PROVE pc'[Health] = pc[Health]
      <4>1. PICK l : pc' = [pc EXCEPT ![o] = l]
        BY <3>1 DEF OpenTcp, OpenStep, SwitchStep, CasReality, StoreSwitchAt, StoreFail,
             StoreProbe, TuicOpenOk, TuicOpenErr, RecordTuicSuccess, QueryIsDead,
             RecordTuicFailure, FailureFetchAdd, RealityOpen, Goto
      <4> QED
        BY <4>1, FailoverAssumption DEF IInv, TypeOK, Callers
    <3>2. CASE HealthStep
      BY <3>2 DEF HealthStep, HealthRun, SwitchStep, CasReality, StoreSwitchAt, StoreFail,
           StoreProbe, TickTuicSkip, TickTuicObserve, Observe, TickReality, RecordBlackhole, ProbeOk,
           ProbeErr, RecordProbe, ProbeZero, ProbeFetchAdd, ProbeCooled, CasTuic,
           BackStoreFail, BackStoreProbe, Goto, IInv, TypeOK, Callers
    <3>3. CASE Environment
      BY <3>3 DEF Environment, Advance, IdleTimeout, BackgroundReconnect, PathChange
    <3> QED
      BY <3>1, <3>2, <3>3 DEF Next
  <2>2. detector = BLACKHOLE_RX_STALE /\ spell_age <= BLACKHOLE_RX_STALE
        /\ (detector = Unprimed \/ detector <= spell_age)
    BY <2>1 DEF IInv, DetectorYoung
  <2> QED
    BY <2>2, FailoverAssumption DEF IInv, TypeOK, Unprimed
<1> QED
  BY <1>1, Inductive, PTL DEF Spec, BlackholeVerdictFresh
=============================================================================
