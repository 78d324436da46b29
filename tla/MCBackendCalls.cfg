SPECIFICATION Spec
CONSTANTS
  p1 = p1
  p2 = p2
  h1 = h1
  h2 = h2
  ip1 = ip1
  ip2 = ip2
  m1 = m1
  m2 = m2
  None = None
  Ports = {p1, p2}
  Hosts = {h1, h2}
  IPs = {ip1, ip2}
  Monitors = {m1, m2}
  StrictDelete = TRUE
  MaxFaults = 1
  CleanStatuses <- MCCleanStatuses
INVARIANTS TypeOK 
PROPERTIES ImplementsContract
