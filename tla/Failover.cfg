CONSTANTS
  o1 = o1
  o2 = o2
  Opens = {o1, o2}
  Health = health
  DOWN_SLOW_CONSEC = 2
  UP_PROBE_CONSEC = 2
  UP_COOLDOWN = 5
  PROBE_INTERVAL = 2
  BLACKHOLE_RX_STALE = 2
  MAX_DUE = 1
SPECIFICATION FairSpec
INVARIANTS TypeOK SingleSwitcher
PROPERTIES SwitchBackEarned BlackholeVerdictFresh BlackholeEscapes Recovers
