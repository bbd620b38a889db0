CONSTANTS
  MAX_CONNS = 2
  MAX_SENT = 1
  MAX_READ = 1
  RX_CAPACITY = 1
  TX_CAPACITY = 1
  MAX_UPLINK_BUFFER = 1
  RELAY_CHANNEL_CAPACITY = 1
  Cheap = {FALSE}
  FakeTargets = {1, 2}
SPECIFICATION Spec
INVARIANTS NoCrosstalk
