------------------------------ MODULE MCVendors ------------------------------
EXTENDS Vendors

CONSTANTS p1, p2, h1, h2, ip1, ip2, RoundRobin, LeastConnection

Probe(path, port, type) == [type |-> type, path |-> path, port |-> port]

MCPortList == <<p1, p2>>
MCOnePort == <<p1>>

A == [ip |-> ip1, monitor |-> Probe("/", 80, "https"), method |-> RoundRobin]

MCMonitors == {Probe("/", 80, "https"), Probe("get", 80, "https")}
\* A change of the address and of the monitor's path.
MCSpecs == {A, [A EXCEPT !.ip = ip2, !.monitor = Probe("get", 80, "https")]}

MCAnyMonitors == [type : {"https", "http"}, path : {"/"}, port : {80, 81}]
MCSpecPort == {A, [A EXCEPT !.monitor = Probe("/", 81, "https")]}
MCSpecType == {A, [A EXCEPT !.monitor = Probe("/", 80, "http")]}
MCSpecMethod == {A, [A EXCEPT !.method = LeastConnection]}

\* Every request but those whose failure a later pass does not repair.
MCFallible ==
  {"FindMonitor", "AddMonitor", "DeleteMonitor", "FindGroupBinding", "DeleteGroup",
   "FindMembers", "AddServer", "AddMember", "DeleteMember", "FindVserver",
   "DeleteVserver", "SaveConfig",
   "GetMonitor", "PatchMonitor", "GetPool", "CreatePool", "AddMonitorToPool", "SetMethod",
   "ModifyPool", "DeletePool", "PoolMembers", "GetNode", "PutNode", "AddPoolMember",
   "DeletePoolMember", "GetVirtualServer", "PutVirtualServer", "DeleteVirtualServer"}
=============================================================================
