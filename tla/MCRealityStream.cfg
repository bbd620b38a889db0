CONSTANTS
  Pbks = {"static", "other"}
  ShortIds = {"known", "unknown"}
  KnownShortIds = {"known"}
  Decoys <- MCDecoys
  RECORD_HALVES = 1
  S2C_CAPACITY = 3
  MAX_PLAINTEXT = 1
  PayloadSizes = {2}
  MAX_UP = 2
  MAX_DOWN = 1
  MAX_POST = 2
  HEADER = 2
  C2S_CAPACITY = 3
SPECIFICATION FairSpec
INVARIANTS TypeOK PeerAuthenticated RecordsOpen
PROPERTIES  UplinkArrives
CHECK_DEADLOCK FALSE
