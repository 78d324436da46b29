SPECIFICATION Spec
CONSTANTS
  p1 = p1
  p2 = p2
  n1 = n1
  n2 = n2
  h1 = h1
  h2 = h2
  h3 = h3
  ip1 = ip1
  ip2 = ip2
  m1 = m1
  m2 = m2
  None = None
  Ports = {p1}
  Names = {n1}
  Hosts = {h1, h2}
  IPs = {ip1, ip2}
  Monitors = {m1}
  HostChange = TRUE
  VipChange = TRUE
  MaxFaults = 1
  MaxLost = 1
  MaxEnvOps = 2
  MaxOthers = 1
  MaxCrashes = 1
  HostOf <- MCHostOf1
INVARIANTS TypeOK NoLeakedTransaction
CHECK_DEADLOCK FALSE
