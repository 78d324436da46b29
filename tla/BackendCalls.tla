---------------------------- MODULE BackendCalls ----------------------------
(***************************************************************************)
(* BackendController driven by a caller that issues one Handle operation   *)
(* after another, in any order that respects what Reconcile guarantees     *)
(* (a pool is handled once the monitor exists, a VIP once its pool does),  *)
(* with any arguments, retrying or giving up after an error.               *)
(***************************************************************************)
EXTENDS BackendController

CONSTANTS CleanStatuses   \* the statuses a cleanup may be asked for

ASSUME CleanStatusesAssumption == CleanStatuses \subseteq Statuses

VARIABLE arg              \* the call under way, or None

vars == <<backend, arg>>

Arguments ==
  [op : {"monitor"}, monitor : Monitors]
    \cup [op : {"pool"}, port : Ports, want : SUBSET Hosts]
    \cup [op : {"vip"}, port : Ports, ip : IPs]
    \cup [op : {"cleanup"}, status : CleanStatuses]

ASSUME NoArgument == None \notin Arguments

TypeOK ==
  /\ BackendTypeOK
  /\ arg \in Arguments \cup {None}

Init == BackendInit /\ arg = None

FirstStep(a) ==
  CASE a.op = "monitor" -> "getMonitor"
    [] a.op = "pool" -> "getPool"
    [] a.op = "vip" -> "getVIP"
    [] a.op = "cleanup" -> "cleanVIPs"

Ready(a) ==
  /\ a.op = "pool" => monitor # None
  /\ a.op = "vip" => a.port \in pools

Invoke(a) ==
  /\ arg = None
  /\ Ready(a)
  /\ arg' = a
  /\ Call(FirstStep(a), IF a.op = "cleanup" THEN 1 ELSE 0, {})
  /\ UNCHANGED <<device, faults>>

Run ==
  /\ arg # None
  /\ CASE arg.op = "monitor" -> HandleMonitors(arg.monitor)
       [] arg.op = "pool" -> HandlePool(arg.port, arg.want)
       [] arg.op = "vip" -> HandleVIP(arg.port, arg.ip)
       [] arg.op = "cleanup" -> HandleCleanup(arg.status)
  /\ UNCHANGED arg

Collect ==
  /\ arg # None
  /\ result # "none"
  /\ arg' = None
  /\ result' = "none"
  /\ UNCHANGED <<device, step, toAdd, toDel, at, faults>>

Next == (\E a \in Arguments : Invoke(a)) \/ Run \/ Collect

Spec == Init /\ [][Next]_vars

----------------------------------------------------------------------------
Contract == INSTANCE BackendContract

(* Every Handle operation keeps the contract: it changes only what it was  *)
(* asked to, only towards what was asked, never drains a pool that still   *)
(* has a wanted member, and returns nil only when the device agrees.       *)
ImplementsContract == Contract!Spec

(* Every write an operation is about to send is one the device still       *)
(* needs: it creates what is missing, edits what differs, adds who is      *)
(* absent and deletes who is there.  So a pass over a configured device    *)
(* sends no write, and a retry after a lost answer does not repeat the     *)
(* request that had its effect (a device that refuses duplicates would     *)
(* fail it for ever).                                                      *)
WritesAreNeeded ==
  arg # None =>
    /\ step = "createMonitor" => monitor = None
    /\ step = "editMonitor" => monitor \notin {None, arg.monitor}
    /\ step = "createPool" => arg.port \notin pools
    /\ step \in {"editPool", "bindMonitor"} => arg.port \in pools \ bound
    /\ step \in {"addMembers", "delMembers"} =>
         /\ toAdd \subseteq arg.want \ members[arg.port]
         /\ toDel \subseteq members[arg.port] \ arg.want
    /\ step = "createVIP" => vips[arg.port] = None
    /\ step = "editVIP" => vips[arg.port] \notin {None, arg.ip}
=============================================================================
