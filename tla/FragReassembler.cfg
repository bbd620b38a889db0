CONSTANTS
  Assocs = {0, 1}
  Totals = {0, 1, 2, 3}
  cap = 1
  FRAG_REASSEMBLY_TTL_SECS = 1
  None = None
  MAX_CONN = 2
  MAX_PKT = 1
  MAX_IN_FLIGHT = 3
  MAX_NOW = 2
SPECIFICATION Spec
INVARIANTS WholePackets BacklogBounded
CHECK_DEADLOCK FALSE
