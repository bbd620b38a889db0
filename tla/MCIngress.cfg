CONSTANTS
  d1 = d1
  d2 = d2
  d3 = d3
  Domains = {d1, d2, d3}
  DohDomains = {d1}
  Flows <- MCFlows
  Ports = {53, 443}
  POOL_SIZE = 2
  FAKE_IP_TTL = 0
  None = None
  pool_size = 1
  MAX_INTERCEPTED_PORTS = 2
  MAX_TOTAL_LISTENERS = 2
  MIN_SPARE_LISTENERS = 1
SYMMETRY Plain
CONSTRAINT Followed
SPECIFICATION ISpec
INVARIANTS TypeOK MapsAgree RefcountExact FlowKeepsDomain TargetIsAsked  SynDroppedOnlyAtLimit
