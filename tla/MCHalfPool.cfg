\* A restart between the two requests of the Netscaler CreatePool.
SPECIFICATION FairSpec
CONSTANTS
  p1 = p1
  p2 = p2
  h1 = h1
  h2 = h2
  ip1 = ip1
  ip2 = ip2
  None = None
  RoundRobin = RoundRobin
  LeastConnection = LeastConnection
  Ports = {p1}
  Hosts = {h1, h2}
  IPs = {ip1, ip2}
  Methods = {RoundRobin}
  Monitors <- MCMonitors
  PortList <- MCOnePort
  Specs <- MCSpecs
  Fallible = {}
  Clipped = {"get"}
  NameClipped = FALSE
  CrashInside = {"Citrix_ADC"}
  Registered = {"Citrix_ADC"}
  MaxFaults = 0
  MaxEnvOps = 0
  MaxCrashes = 1
PROPERTY
  PoolsGetMonitored
CHECK_DEADLOCK FALSE
