\* Three vendors, two ports, two nodes; each request that a later pass repairs may fail.
SPECIFICATION FairSpec
CONSTANTS
  p1 = p1
  p2 = p2
  h1 = h1
  h2 = h2
  ip1 = ip1
  ip2 = ip2
  None = None
  RoundRobin = RoundRobin
  LeastConnection = LeastConnection
  Ports = {p1, p2}
  Hosts = {h1, h2}
  IPs = {ip1, ip2}
  Methods = {RoundRobin}
  Monitors <- MCMonitors
  PortList <- MCPortList
  Specs <- MCSpecs
  Fallible <- MCFallible
  Clipped = {"get"}
  NameClipped = FALSE
  CrashInside = {"F5_BigIP"}
  Registered = {"Citrix_ADC", "F5_BigIP", "Dummy"}
  MaxFaults = 1
  MaxEnvOps = 2
  MaxCrashes = 1
INVARIANTS
  TypeOK
  SavedWhenDone
PROPERTIES
  NetscalerContract
  F5Contract
  Converges
CHECK_DEADLOCK FALSE
