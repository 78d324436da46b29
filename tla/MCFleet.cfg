\* Two load balancers, four devices of which one refuses and one hangs, one worker.
SPECIFICATION FairSpec
CONSTANTS
  a = a
  b = b
  n1 = n1
  n2 = n2
  None = None
  LBs = {a, b}
  Names = {n1, n2}
  NameOf <- MCUnique
  Devices = {d1, d2, down, hung}
  Down = {down}
  Hung = {hung}
  Workers = {w1}
  Parts = 2
  MaxEnvOps = 2
  MaxFaults = 1
  MaxCrashes = 1
INVARIANTS
  TypeOK
PROPERTIES
  Isolation
  Independent
CHECK_DEADLOCK FALSE
