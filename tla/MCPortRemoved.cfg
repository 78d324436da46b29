SPECIFICATION Spec
CONSTANTS
  p1 = p1
  p2 = p2
  h1 = h1
  h2 = h2
  ip1 = ip1
  ip2 = ip2
  m1 = m1
  m2 = m2
  None = None
  EarlyDelete = FALSE
  GhostReads = FALSE
  ForeignFinalizer = FALSE
  SecretLoss = FALSE
  MaxFaults = 0
  MaxUserOps = 3
  MaxNodeOps = 0
  MaxCrashes = 0
  RVs = {1, 2, 3, 4, 5, 6, 7, 8}
  StrictDelete = TRUE
  Ports = {p1, p2}
  Hosts = {h1}
  IPs = {ip1, ip2}
  Monitors = {m1, m2}
  Specs <- PortsChange
INVARIANT NoExtraPorts
CHECK_DEADLOCK FALSE
