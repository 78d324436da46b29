SPECIFICATION Spec
CONSTANTS
  n1 = n1
  n2 = n2
  b1 = b1
  b2 = b2
  a1 = a1
  a2 = a2
  NoIP = NoIP
  NoNode = NoNode
  NodeNames = {n1}
  LBs = {b1, b2}
  Addresses = {a1, a2}
  Roles = {"infra"}
  Empty = ""
  ListErrors = FALSE
  MaxEvents = 2
  Keys <- MCKeys
  Values <- MCValues
  RoleKey <- MCRoleKey
  Selector <- MCSelector
  NodeStates <- MCNodeStates
  Name <- UniqueNames
INVARIANTS TypeOK NoMissedNodeChange
