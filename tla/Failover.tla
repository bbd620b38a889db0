------------------------------ MODULE Failover ------------------------------
(***************************************************************************)
(* Health-aware TUIC <-> REALITY failover of the TCP relay leg             *)
(* (src/failover.rs), at the granularity of its atomics: every load,       *)
(* store, fetch_add and compare_exchange of FailoverState is a step of its *)
(* own, because concurrent open_tcp tasks and the background health task   *)
(* interleave between any two of them.                                     *)
(*                                                                         *)
(* Time is counted in health ticks (HEALTH_TICK_SECS).  The code compares  *)
(* reality_switch_at and last_change_secs with "now" only through a        *)
(* threshold, so each is kept as an age that saturates at that threshold.  *)
(* The clock advances only while every task is suspended at an await: the  *)
(* synchronous stretches of the code take microseconds, a tick 3 seconds.  *)
(***************************************************************************)
EXTENDS Integers, FiniteSets

CONSTANTS Opens,              \* concurrent FailoverUpstream::open_tcp calls
          Health,             \* the task of spawn_health_probe
          DOWN_SLOW_CONSEC,
          UP_PROBE_CONSEC,
          UP_COOLDOWN,        \* UP_COOLDOWN_SECS, in ticks
          PROBE_INTERVAL,     \* PROBE_INTERVAL_SECS, in ticks
          BLACKHOLE_RX_STALE, \* BLACKHOLE_RX_STALE_SECS, in ticks
          MAX_DUE             \* ticks that may pile up behind one slow probe

ASSUME FailoverAssumption ==
  /\ Health \notin Opens
  /\ DOWN_SLOW_CONSEC \in Nat \ {0}
  /\ UP_PROBE_CONSEC \in Nat \ {0}
  /\ UP_COOLDOWN \in Nat \ {0}
  /\ PROBE_INTERVAL \in Nat
  /\ BLACKHOLE_RX_STALE \in Nat
  /\ MAX_DUE \in Nat \ {0}
  /\ MAX_DUE < PROBE_INTERVAL

Callers == Opens \cup {Health}

VARIABLES
  \* FailoverState
  active_tcp_leg, tuic_consec_fail, probe_consec_ok, switch_age,
  \* where each task stands between two atomic operations
  pc,
  \* the health task: BlackholeDetector, its tick counter, ticks not handled yet
  detector, rx_moved, secs_since_up_probe, due,
  \* the TUIC leg: the network path and the QUIC connection in TuicUpstream.conn
  path, conn,
  \* history of the current spell on one leg: callers told "you switched" to it, its
  \* age, and successful probes in a row in it
  won, spell_age, ok_run

state   == <<active_tcp_leg, tuic_consec_fail, probe_consec_ok, switch_age>>
health  == <<detector, rx_moved, secs_since_up_probe, due>>
leg_env == <<path, conn>>
history == <<won, spell_age, ok_run>>
vars    == <<state, pc, health, leg_env, history>>

Storing  == {"store_at", "store_fail", "store_probe"}
AtAwait  == {"idle", "tuic_open", "is_dead", "reality_open", "probing"}
OpenPcs  == {"idle", "tuic_open", "is_dead", "reality_open", "success",
             "rec_dead", "rec_alive", "fetch_add", "cas"} \cup Storing
HealthPcs == {"idle", "rec_blackhole", "cas", "probing", "rec_ok", "rec_bad",
              "zero", "count", "cool", "cas_back", "back_fail", "back_probe"}
             \cup Storing

\* BlackholeDetector: not primed, or the seconds since rx last changed.
Unprimed == -1

CapAt(n, max) == IF n > max THEN max ELSE n

Init ==
  /\ active_tcp_leg = "Tuic" /\ tuic_consec_fail = 0
  /\ probe_consec_ok = 0 /\ switch_age = 0
  /\ pc = [c \in Callers |-> "idle"]
  /\ detector = Unprimed /\ rx_moved = TRUE
  /\ secs_since_up_probe = 0 /\ due = 1     \* interval()'s first tick is immediate
  /\ path = "up" /\ conn = "open"           \* TuicUpstream::connect succeeded
  /\ won = {} /\ spell_age = 0 /\ ok_run = 0

Goto(c, l) == pc' = [pc EXCEPT ![c] = l]

-----------------------------------------------------------------------------
(* TuicUpstream::live_conn: an open connection is handed out without any   *)
(* network activity; a closed one is reconnected within 5 seconds or the   *)
(* call fails.                                                             *)

LiveConnOk ==
  \/ conn = "open" /\ UNCHANGED <<conn, rx_moved>>
  \/ /\ conn = "closed" /\ path # "down"
     /\ conn' = "open" /\ rx_moved' = TRUE

LiveConnErr ==
  conn = "closed" /\ path # "up" /\ UNCHANGED <<conn, rx_moved>>

(* HealthProbe::is_dead: close_reason() has a value. *)
IsDead == conn = "closed"

-----------------------------------------------------------------------------
(* switch_to_reality: the compare_exchange, then its three stores, each    *)
(* visible to the other tasks before the next.                             *)

\* Mutant: load and store instead of compare_exchange.
CasRealityUnchecked(c) ==
  /\ pc[c] = "cas" /\ Goto(c, "store_at")
  /\ active_tcp_leg' = "Reality"
  /\ won' = (IF active_tcp_leg = "Tuic" THEN {c} ELSE won \cup {c})
  /\ spell_age' = 0 /\ ok_run' = 0
  /\ UNCHANGED <<tuic_consec_fail, probe_consec_ok, switch_age, health, leg_env>>

CasReality(c) ==
  /\ pc[c] = "cas"
  /\ IF active_tcp_leg = "Tuic"
     THEN /\ active_tcp_leg' = "Reality" /\ Goto(c, "store_at")
          /\ won' = {c} /\ spell_age' = 0 /\ ok_run' = 0
     ELSE Goto(c, "idle") /\ UNCHANGED <<active_tcp_leg, history>>
  /\ UNCHANGED <<tuic_consec_fail, probe_consec_ok, switch_age, health, leg_env>>

\* Mutant: the switch time is not recorded.
StoreSwitchAtForgotten(c) ==
  /\ pc[c] = "store_at" /\ Goto(c, "store_fail")
  /\ UNCHANGED <<state, health, leg_env, history>>

StoreSwitchAt(c) ==
  /\ pc[c] = "store_at" /\ Goto(c, "store_fail")
  /\ switch_age' = 0
  /\ UNCHANGED <<active_tcp_leg, tuic_consec_fail, probe_consec_ok,
                 health, leg_env, history>>

StoreFail(c) ==
  /\ pc[c] = "store_fail" /\ Goto(c, "store_probe")
  /\ tuic_consec_fail' = 0
  /\ UNCHANGED <<active_tcp_leg, probe_consec_ok, switch_age,
                 health, leg_env, history>>

\* Mutant: the health task takes the open_tcp caller's way out.
StoreProbeRetries(c) ==
  /\ pc[c] = "store_probe" /\ Goto(c, "reality_open")
  /\ probe_consec_ok' = 0
  /\ UNCHANGED <<active_tcp_leg, tuic_consec_fail, switch_age, health, leg_env, history>>

\* The caller learns it switched: open_tcp retries on REALITY, the health task
\* resets its detector.
StoreProbe(c) ==
  /\ pc[c] = "store_probe"
  /\ probe_consec_ok' = 0
  /\ IF c = Health
     THEN Goto(c, "idle") /\ detector' = Unprimed
     ELSE Goto(c, "reality_open") /\ UNCHANGED detector
  /\ UNCHANGED <<active_tcp_leg, tuic_consec_fail, switch_age, rx_moved,
                 secs_since_up_probe, due, leg_env, history>>

-----------------------------------------------------------------------------
(* FailoverUpstream::open_tcp, one call per element of Opens; a finished   *)
(* call leaves its place to the next connection.                           *)

OpenTcp(o) ==
  /\ pc[o] = "idle"
  /\ Goto(o, IF active_tcp_leg = "Tuic" THEN "tuic_open" ELSE "reality_open")
  /\ UNCHANGED <<state, health, leg_env, history>>

\* TuicUpstream::open_tcp.  open_bi and the Connect header are local writes: on a
\* black-holed connection they may succeed or run into TUIC_OPEN_TIMEOUT.
TuicOpenOk(o) ==
  /\ pc[o] = "tuic_open" /\ Goto(o, "success")
  /\ LiveConnOk
  /\ UNCHANGED <<state, detector, secs_since_up_probe, due, path,
                 won, spell_age, ok_run>>

TuicOpenErr(o) ==
  /\ pc[o] = "tuic_open" /\ Goto(o, "is_dead")
  /\ LiveConnErr \/ (LiveConnOk /\ path # "up")
  /\ UNCHANGED <<state, detector, secs_since_up_probe, due, path,
                 won, spell_age, ok_run>>

RecordTuicSuccess(o) ==
  /\ pc[o] = "success" /\ Goto(o, "idle")
  /\ tuic_consec_fail' = 0
  /\ UNCHANGED <<active_tcp_leg, probe_consec_ok, switch_age, health, leg_env, history>>

QueryIsDead(o) ==
  /\ pc[o] = "is_dead" /\ Goto(o, IF IsDead THEN "rec_dead" ELSE "rec_alive")
  /\ UNCHANGED <<state, health, leg_env, history>>

\* record_tuic_failure: the load of the leg, then the fast or the slow path.
RecordTuicFailure(o) ==
  /\ pc[o] \in {"rec_dead", "rec_alive"}
  /\ Goto(o, IF active_tcp_leg # "Tuic" THEN "idle"
             ELSE IF pc[o] = "rec_dead" THEN "cas" ELSE "fetch_add")
  /\ UNCHANGED <<state, health, leg_env, history>>

FailureFetchAdd(o) ==
  /\ pc[o] = "fetch_add"
  /\ tuic_consec_fail' = tuic_consec_fail + 1
  /\ Goto(o, IF tuic_consec_fail + 1 >= DOWN_SLOW_CONSEC THEN "cas" ELSE "idle")
  /\ UNCHANGED <<active_tcp_leg, probe_consec_ok, switch_age, health, leg_env, history>>

\* The REALITY leg answers or times out (10 s): either way the call returns.
RealityOpen(o) ==
  /\ pc[o] = "reality_open" /\ Goto(o, "idle")
  /\ UNCHANGED <<state, health, leg_env, history>>

-----------------------------------------------------------------------------
(* spawn_health_probe: one task, one tick at a time.                       *)

\* TUIC on duty, rx_datagrams() = None: the mutex is held by a reconnect.
TickTuicSkip ==
  /\ pc[Health] = "idle" /\ due > 0 /\ active_tcp_leg = "Tuic" /\ conn = "closed"
  /\ due' = due - 1 /\ secs_since_up_probe' = 0
  /\ UNCHANGED <<state, pc, detector, rx_moved, leg_env, history>>

\* Mutant: observe never sets primed.
TickTuicNeverPrimed ==
  /\ pc[Health] = "idle" /\ due > 0 /\ active_tcp_leg = "Tuic"
  /\ due' = due - 1 /\ secs_since_up_probe' = 0
  /\ rx_moved' = FALSE
  /\ UNCHANGED <<state, pc, detector, leg_env, history>>

\* BlackholeDetector::observe: a count that moved restarts the window.
Observe ==
  IF detector = Unprimed \/ rx_moved
  THEN detector' = 0 /\ rx_moved' = FALSE /\ UNCHANGED pc
  ELSE /\ Goto(Health, IF detector >= BLACKHOLE_RX_STALE THEN "rec_blackhole" ELSE "idle")
       /\ UNCHANGED <<detector, rx_moved>>

\* TUIC on duty.
TickTuicObserve ==
  /\ pc[Health] = "idle" /\ due > 0 /\ active_tcp_leg = "Tuic"
  /\ due' = due - 1 /\ secs_since_up_probe' = 0
  /\ Observe
  /\ UNCHANGED <<state, leg_env, history>>

RecordBlackhole ==
  /\ pc[Health] = "rec_blackhole"
  /\ Goto(Health, IF active_tcp_leg = "Tuic" THEN "cas" ELSE "idle")
  /\ UNCHANGED <<state, health, leg_env, history>>

\* Mutant: no detector.reset() on a REALITY tick.
TickRealityKeepsDetector ==
  /\ pc[Health] = "idle" /\ due > 0 /\ active_tcp_leg = "Reality"
  /\ due' = due - 1
  /\ LET secs == secs_since_up_probe + 1 IN
       IF secs >= PROBE_INTERVAL
       THEN secs_since_up_probe' = 0 /\ Goto(Health, "probing")
       ELSE secs_since_up_probe' = secs /\ UNCHANGED pc
  /\ UNCHANGED <<state, detector, rx_moved, leg_env, history>>

\* Mutant: the probe timer is cleared on a REALITY tick as on a TUIC tick.
TickRealityNeverProbes ==
  /\ pc[Health] = "idle" /\ due > 0 /\ active_tcp_leg = "Reality"
  /\ due' = due - 1 /\ detector' = Unprimed /\ secs_since_up_probe' = 0
  /\ UNCHANGED <<state, pc, rx_moved, leg_env, history>>

\* REALITY on duty: reset the detector, probe every PROBE_INTERVAL.
TickReality ==
  /\ pc[Health] = "idle" /\ due > 0 /\ active_tcp_leg = "Reality"
  /\ due' = due - 1 /\ detector' = Unprimed
  /\ LET secs == secs_since_up_probe + 1 IN
       IF secs >= PROBE_INTERVAL
       THEN secs_since_up_probe' = 0 /\ Goto(Health, "probing")
       ELSE secs_since_up_probe' = secs /\ UNCHANGED pc
  /\ UNCHANGED <<state, rx_moved, leg_env, history>>

\* TuicUpstream::probe is live_conn().is_ok().
ProbeOk ==
  /\ pc[Health] = "probing" /\ Goto(Health, "rec_ok")
  /\ LiveConnOk
  /\ ok_run' = CapAt(ok_run + 1, UP_PROBE_CONSEC)
  /\ UNCHANGED <<state, detector, secs_since_up_probe, due, path, won, spell_age>>

ProbeErr ==
  /\ pc[Health] = "probing" /\ Goto(Health, "rec_bad")
  /\ LiveConnErr
  /\ ok_run' = 0
  /\ UNCHANGED <<state, detector, secs_since_up_probe, due, path, won, spell_age>>

\* record_probe: the load of the leg, then its effects one atomic at a time.
RecordProbe ==
  /\ pc[Health] \in {"rec_ok", "rec_bad"}
  /\ Goto(Health, IF active_tcp_leg # "Reality" THEN "idle"
                  ELSE IF pc[Health] = "rec_ok" THEN "count" ELSE "zero")
  /\ UNCHANGED <<state, health, leg_env, history>>

ProbeZero ==
  /\ pc[Health] = "zero" /\ Goto(Health, "idle")
  /\ probe_consec_ok' = 0
  /\ UNCHANGED <<active_tcp_leg, tuic_consec_fail, switch_age, health, leg_env, history>>

ProbeFetchAdd ==
  /\ pc[Health] = "count"
  /\ probe_consec_ok' = probe_consec_ok + 1
  /\ Goto(Health, IF probe_consec_ok + 1 >= UP_PROBE_CONSEC THEN "cool" ELSE "idle")
  /\ UNCHANGED <<active_tcp_leg, tuic_consec_fail, switch_age, health, leg_env, history>>

ProbeCooled ==
  /\ pc[Health] = "cool"
  /\ Goto(Health, IF switch_age >= UP_COOLDOWN THEN "cas_back" ELSE "idle")
  /\ UNCHANGED <<state, health, leg_env, history>>

\* switch_to_tuic.
CasTuic ==
  /\ pc[Health] = "cas_back"
  /\ IF active_tcp_leg = "Reality"
     THEN /\ active_tcp_leg' = "Tuic" /\ Goto(Health, "back_fail")
          /\ won' = {} /\ spell_age' = 0 /\ ok_run' = 0
     ELSE Goto(Health, "idle") /\ UNCHANGED <<active_tcp_leg, history>>
  /\ UNCHANGED <<tuic_consec_fail, probe_consec_ok, switch_age, health, leg_env>>

BackStoreFail ==
  /\ pc[Health] = "back_fail" /\ Goto(Health, "back_probe")
  /\ tuic_consec_fail' = 0
  /\ UNCHANGED <<active_tcp_leg, probe_consec_ok, switch_age, health, leg_env, history>>

BackStoreProbe ==
  /\ pc[Health] = "back_probe" /\ Goto(Health, "idle")
  /\ probe_consec_ok' = 0
  /\ UNCHANGED <<active_tcp_leg, tuic_consec_fail, switch_age, health, leg_env, history>>

-----------------------------------------------------------------------------
(* The clock and the TUIC leg's environment.                               *)

\* One health tick of time.  Over a working path the 5 s keepalive is answered
\* well inside BLACKHOLE_RX_STALE; over a lossy one it may be.
Advance ==
  /\ \A c \in Callers : pc[c] \in AtAwait
  /\ due < MAX_DUE /\ due' = due + 1
  /\ switch_age' = CapAt(switch_age + 1, UP_COOLDOWN)
  /\ spell_age' = CapAt(spell_age + 1, IF active_tcp_leg = "Tuic"
                                       THEN BLACKHOLE_RX_STALE ELSE UP_COOLDOWN)
  /\ detector' = IF detector = Unprimed THEN Unprimed
                 ELSE CapAt(detector + 1, BLACKHOLE_RX_STALE)
  /\ \/ conn = "open" /\ path # "down" /\ rx_moved' = TRUE
     \/ ~(conn = "open" /\ path = "up") /\ UNCHANGED rx_moved
  /\ UNCHANGED <<active_tcp_leg, tuic_consec_fail, probe_consec_ok, pc, secs_since_up_probe,
                  leg_env, won, ok_run>>

\* quinn's idle timeout closes a connection that hears nothing.
IdleTimeout ==
  /\ conn = "open" /\ path # "up" /\ conn' = "closed"
  /\ UNCHANGED <<state, pc, health, path, history>>

\* The start_udp driver reconnects a closed connection in the background.
BackgroundReconnect ==
  /\ conn = "closed" /\ LiveConnOk
  /\ UNCHANGED <<state, pc, detector, secs_since_up_probe, due, path,
                 won, spell_age, ok_run>>

PathChange ==
  /\ path' \in {"up", "lossy", "down"} \ {path}
  /\ UNCHANGED <<state, pc, health, conn, history>>

SwitchStep(c) == CasReality(c) \/ StoreSwitchAt(c) \/ StoreFail(c) \/ StoreProbe(c)

OpenStep(o) ==
  \/ TuicOpenOk(o) \/ TuicOpenErr(o) \/ RecordTuicSuccess(o) \/ QueryIsDead(o)
  \/ RecordTuicFailure(o) \/ FailureFetchAdd(o) \/ RealityOpen(o) \/ SwitchStep(o)

HealthRun ==
  \/ TickReality \/ RecordBlackhole \/ ProbeOk \/ ProbeErr \/ RecordProbe
  \/ ProbeZero \/ ProbeFetchAdd \/ ProbeCooled \/ CasTuic \/ BackStoreFail
  \/ BackStoreProbe \/ SwitchStep(Health)

HealthStep == TickTuicSkip \/ TickTuicObserve \/ HealthRun

Environment == Advance \/ IdleTimeout \/ BackgroundReconnect \/ PathChange

Next == (\E o \in Opens : OpenTcp(o) \/ OpenStep(o)) \/ HealthStep \/ Environment

Spec == Init /\ [][Next]_vars

(***************************************************************************)
(* Fairness.  A started open_tcp call finishes: both of its awaits are     *)
(* bounded by a timeout.  The health task is never cancelled.  The clock   *)
(* runs.  A connection that hears nothing is closed by the idle timeout,   *)
(* and the driver's reconnect loop never gives up.  The reconnect loop     *)
(* sleeps with the connection mutex released between attempts, so a TUIC   *)
(* tick that keeps being possible does get to read rx (strong fairness).   *)
(* Nothing obliges the path to change or the application to connect.       *)
(***************************************************************************)
FairSpec ==
  /\ Spec
  /\ \A o \in Opens : WF_vars(OpenStep(o))
  /\ WF_vars(HealthRun) /\ SF_vars(TickTuicObserve)
  /\ WF_vars(Advance)
  /\ WF_vars(IdleTimeout /\ path = "down")
  /\ WF_vars(BackgroundReconnect)

-----------------------------------------------------------------------------
TypeOK ==
  /\ active_tcp_leg \in {"Tuic", "Reality"}
  /\ tuic_consec_fail \in Nat /\ probe_consec_ok \in Nat
  /\ switch_age \in 0..UP_COOLDOWN
  /\ pc \in [Callers -> OpenPcs \cup HealthPcs]
  /\ \A o \in Opens : pc[o] \in OpenPcs
  /\ pc[Health] \in HealthPcs
  /\ detector \in {Unprimed} \cup 0..BLACKHOLE_RX_STALE /\ rx_moved \in BOOLEAN
  /\ secs_since_up_probe \in Nat /\ due \in 0..MAX_DUE
  /\ path \in {"up", "lossy", "down"} /\ conn \in {"open", "closed"}
  /\ won \in SUBSET Callers /\ spell_age \in Nat
  /\ ok_run \in 0..UP_PROBE_CONSEC

\* At most one caller at a time is inside switch_to_reality's stores, and it is
\* the one that made the leg REALITY: nobody else is told to retry, and no second
\* round of resets runs ("only one caller really switches", failover.rs:153).
SingleSwitcher ==
  \A c \in Callers : pc[c] \in Storing => active_tcp_leg = "Reality" /\ won = {c}

\* Whatever the interleaving of the atomics, the leg goes back to TUIC only after
\* UP_PROBE_CONSEC successful probes in a row, all of them in this REALITY spell,
\* and no sooner than the cooldown after the switch (failover.rs:204).
SwitchBackEarned ==
  [][ (active_tcp_leg = "Reality" /\ active_tcp_leg' = "Tuic")
        => ok_run = UP_PROBE_CONSEC /\ spell_age = UP_COOLDOWN ]_vars

\* The health task declares a black hole only on what it saw in this spell on TUIC:
\* counts from before an outage never cut a fresh spell short (detector.reset()).
BlackholeVerdictFresh ==
  [][ (pc[Health] = "cas" /\ pc'[Health] = "store_at")
        => spell_age = BLACKHOLE_RX_STALE ]_vars

\* A path that goes down for good ends with the TCP leg on REALITY for good, even
\* if no application opens a connection and every open succeeds optimistically.
BlackholeEscapes == <>[](path = "down") => <>[](active_tcp_leg = "Reality")

\* A path that works for good ends with the TCP leg on TUIC for good.
Recovers == <>[](path = "up") => <>[](active_tcp_leg = "Tuic")
=============================================================================
