CONSTANTS
  MAX_CONNS = 1
  MAX_SENT = 4
  MAX_READ = 0
  RX_CAPACITY = 2
  TX_CAPACITY = 1
  MAX_UPLINK_BUFFER = 2
  RELAY_CHANNEL_CAPACITY = 1
  Cheap = {FALSE}
  FakeTargets = {1}
SPECIFICATION Spec
INVARIANTS UplinkGapFree
