CONSTANTS
  MAX_CONNS = 1
  MAX_SENT = 1
  MAX_READ = 2
  RX_CAPACITY = 1
  TX_CAPACITY = 1
  MAX_UPLINK_BUFFER = 1
  RELAY_CHANNEL_CAPACITY = 3
  Cheap = {TRUE, FALSE}
  FakeTargets = {1}
SPECIFICATION Spec
PROPERTIES EofAfterDelivery
