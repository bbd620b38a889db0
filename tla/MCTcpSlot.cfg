CONSTANTS
  MAX_CONNS = 2
  MAX_SENT = 3
  MAX_READ = 1
  RX_CAPACITY = 2
  TX_CAPACITY = 1
  MAX_UPLINK_BUFFER = 2
  RELAY_CHANNEL_CAPACITY = 1
  Cheap = {TRUE, FALSE}
  FakeTargets = {1}
SPECIFICATION Spec
INVARIANTS TypeOK OneHandshake UplinkIsOwn UplinkInOrder NoLostWakeup FakeIpBalanced
