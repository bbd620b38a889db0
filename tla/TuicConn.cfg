CONSTANTS
  o1 = o1
  Openers = {o1}
  health = health
  Probers = {health}
  Driver = Driver
  None = None
  udp_relay_mode = "Native"
  TUIC_DOWNLINK_CAPACITY = 1
  MAX_CONCURRENT_DOWNLINK_STREAMS = 1
  MAX_CONN = 3
SPECIFICATION FairSpec
INVARIANTS OneLiveConnection StreamsBounded
PROPERTIES OpenResolves PumpFollows
