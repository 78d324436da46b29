SPECIFICATION Spec
CONSTANTS
  p1 = p1
  p2 = p2
  h1 = h1
  h2 = h2
  ip1 = ip1
  ip2 = ip2
  m1 = m1
  m2 = m2
  None = None
  EarlyDelete = FALSE
  GhostReads = FALSE
  ForeignFinalizer = FALSE
  SecretLoss = FALSE
  MaxFaults = 1
  MaxUserOps = 3
  MaxNodeOps = 1
  MaxCrashes = 1
  RVs = {1, 2, 3, 4, 5, 6, 7, 8}
  StrictDelete = FALSE
  Ports = {p1}
  Hosts = {h1}
  IPs = {ip1, ip2}
  Monitors = {m1, m2}
  Specs <- SamePorts
SYMMETRY Exchange
INVARIANTS TypeOK NoDanglingReferences QuiescentInSync NoOrphans TotalCounts
PROPERTIES StatusIsObserved SpecOwnedByUser TeardownOnlyWhenDeleting
CHECK_DEADLOCK FALSE
