CONSTANTS
  a = a
  b = b
  c = c
  e = e
  Tuples = {a, b, c, e}
  ip1 = ip1
  ip2 = ip2
  FakeIps = {ip1, ip2}
  d1 = d1
  d2 = d2
  Domains = {d1, d2}
  DstIp <- MCDstIp
  Blocked <- MCBlocked
  MAX_ID = 3
  MAX_UDP_FLOWS = 2
  UDP_FLOW_IDLE = 2
  None = None
SPECIFICATION FairSpec
INVARIANTS TypeOK TablesAgree WithinCap RefsExact TargetStable
PROPERTIES DropsOldest AssocExpires
