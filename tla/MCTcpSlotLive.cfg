CONSTANTS
  MAX_CONNS = 2
  MAX_SENT = 2
  MAX_READ = 0
  RX_CAPACITY = 1
  TX_CAPACITY = 1
  MAX_UPLINK_BUFFER = 1
  RELAY_CHANNEL_CAPACITY = 1
  Cheap = {TRUE, FALSE}
  FakeTargets = {1, 2}
SPECIFICATION FairSpec
PROPERTIES HandshakeResolves UplinkProgress UsedSlotReturns
