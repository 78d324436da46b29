---------------------------- MODULE BackendProofs ----------------------------
(***************************************************************************)
(* Facts about the Handle operations of BackendController, for every set   *)
(* of ports, hosts, addresses and monitors and any number of failures.     *)
(***************************************************************************)
EXTENDS BackendController, TLAPS

(* What a request's outcomes have in common with a successful one: a       *)
(* request that fails returns "err" with a cleared frame.                  *)
LEMMA ReturnType ==
  ASSUME BackendTypeOK, NEW r \in {"ok", "err"}, Return(r)
  PROVE  /\ step' \in Steps /\ toAdd' \in SUBSET Hosts /\ toDel' \in SUBSET Hosts
         /\ at' \in Nat /\ result' \in {"none", "ok", "err"}
  BY DEF Return, Steps, BackendTypeOK

LEMMA FaultType ==
  ASSUME faults \in 0..MaxFaults, Fault
  PROVE  faults' \in 0..MaxFaults
  BY MaxFaultsAssumption DEF Fault

(* Every operation of the backend keeps the types of device and frame.     *)
LEMMA HandleMonitorsType ==
  ASSUME BackendTypeOK, NEW m \in Monitors, HandleMonitors(m)
  PROVE  BackendTypeOK'
  BY FaultType, SMTT(60)
  DEF BackendTypeOK, DeviceTypeOK, HandleMonitors, HandleMonitorsGet, HandleMonitorsCreate,
      HandleMonitorsEdit, Request, Return, GoTo, ReadFails, CreateMonitor, EditMonitor,
      Steps, device

LEMMA HandlePoolType ==
  ASSUME BackendTypeOK, NEW p \in Ports, NEW want \in SUBSET Hosts, HandlePool(p, want)
  PROVE  BackendTypeOK'
PROOF
<1>1. CASE HandlePoolGet(p, want)
  BY <1>1, FaultType
  DEF HandlePoolGet, ReadFails, BackendTypeOK, DeviceTypeOK, Return, Steps, device
<1>2. CASE HandlePoolEdit(p)
  BY <1>2, FaultType
  DEF HandlePoolEdit, EditPool, BindMonitor, Request, GoTo, BackendTypeOK, DeviceTypeOK,
      Return, Steps, device
<1>3. CASE HandlePoolCreate(p)
  BY <1>3, FaultType
  DEF HandlePoolCreate, CreatePool, Request, GoTo, BackendTypeOK, DeviceTypeOK,
      Return, Steps, device
<1>4. CASE HandlePoolBind(p)
  BY <1>4, FaultType
  DEF HandlePoolBind, BindMonitor, Request, GoTo, BackendTypeOK, DeviceTypeOK,
      Return, Steps, device
<1>5. CASE HandlePoolAdd(p)
  BY <1>5, FaultType
  DEF HandlePoolAdd, CreatePoolMember, Request, BackendTypeOK, DeviceTypeOK,
      Return, Steps, device
<1>6. CASE HandlePoolAdded
  BY <1>6 DEF HandlePoolAdded, GoTo, BackendTypeOK, DeviceTypeOK, Steps, device
<1>7. CASE HandlePoolDel(p)
  BY <1>7, FaultType
  DEF HandlePoolDel, DeletePoolMember, Request, BackendTypeOK, DeviceTypeOK,
      Return, Steps, device
<1>8. CASE HandlePoolDone
  BY <1>8 DEF HandlePoolDone, BackendTypeOK, DeviceTypeOK, Return, Steps, device
<1>9. QED BY <1>1, <1>2, <1>3, <1>4, <1>5, <1>6, <1>7, <1>8 DEF HandlePool

LEMMA HandleVIPType ==
  ASSUME BackendTypeOK, NEW p \in Ports, NEW ip \in IPs, HandleVIP(p, ip)
  PROVE  BackendTypeOK'
PROOF
<1>1. CASE HandleVIPGet(p, ip)
  BY <1>1, FaultType
  DEF HandleVIPGet, ReadFails, GoTo, BackendTypeOK, DeviceTypeOK, Return, Steps, device
<1>2. CASE HandleVIPCreate(p, ip)
  BY <1>2, FaultType
  DEF HandleVIPCreate, CreateVIP, Request, BackendTypeOK, DeviceTypeOK, Return, Steps, device
<1>3. CASE HandleVIPEdit(p, ip)
  BY <1>3, FaultType
  DEF HandleVIPEdit, EditVIP, CreateVIP, Request, BackendTypeOK, DeviceTypeOK, Return,
      Steps, device
<1>4. QED BY <1>1, <1>2, <1>3 DEF HandleVIP

LEMMA HandleCleanupType ==
  ASSUME BackendTypeOK, NEW st \in Statuses, HandleCleanup(st)
  PROVE  BackendTypeOK'
PROOF
<1>0. /\ st.handled \in Seq(Ports) /\ st.members \in SUBSET Hosts
      /\ \A i \in DOMAIN st.handled : st.handled[i] \in Ports
  BY DEF Statuses
<1>1. CASE CleanVIP(st)
  BY <1>0, <1>1, FaultType
  DEF CleanVIP, Refuse, DeleteVIP, NextItem, Request, BackendTypeOK, DeviceTypeOK, Return,
      Steps, device
<1>2. CASE CleanVIPsDone(st)
  BY <1>0, <1>2 DEF CleanVIPsDone, NextLoop, BackendTypeOK, DeviceTypeOK, Steps, device
<1>3. CASE CleanMember(st)
  BY <1>0, <1>3, FaultType
  DEF CleanMember, DeletePoolMember, BackendTypeOK, DeviceTypeOK, Steps, device
<1>4. CASE CleanMembersNext(st)
  BY <1>0, <1>4 DEF CleanMembersNext, BackendTypeOK, DeviceTypeOK, Steps, device
<1>5. CASE CleanMembersDone(st)
  BY <1>0, <1>5 DEF CleanMembersDone, NextLoop, BackendTypeOK, DeviceTypeOK, Steps, device
<1>6. CASE CleanPool(st)
  BY <1>0, <1>6, FaultType
  DEF CleanPool, Refuse, DeletePool, NextItem, Request, BackendTypeOK, DeviceTypeOK, Return,
      Steps, device
<1>7. CASE CleanPoolsDone(st)
  BY <1>0, <1>7 DEF CleanPoolsDone, NextLoop, BackendTypeOK, DeviceTypeOK, Steps, device
<1>8. CASE CleanMonitor(st)
  BY <1>0, <1>8, FaultType
  DEF CleanMonitor, Refuse, DeleteMonitor, Request, BackendTypeOK, DeviceTypeOK, Return,
      Steps, device
<1>9. QED BY <1>1, <1>2, <1>3, <1>4, <1>5, <1>6, <1>7, <1>8 DEF HandleCleanup
----------------------------------------------------------------------------
(* HandleMonitors and HandleVIP: what they leave alone, and what a nil     *)
(* error means.                                                            *)
LEMMA HandleMonitorsEffect ==
  ASSUME NEW m, HandleMonitors(m), result = "none"
  PROVE  /\ UNCHANGED <<pools, bound, members, vips>>
         /\ monitor' \in {monitor, m}
         /\ result' = "ok" => monitor' = m
PROOF
<1>1. CASE HandleMonitorsGet(m)
  <2>1. CASE monitor = m
    BY <1>1, <2>1 DEF HandleMonitorsGet, ReadFails, GoTo, Return, device
  <2>2. CASE monitor # m
    BY <1>1, <2>2 DEF HandleMonitorsGet, ReadFails, GoTo, Return, device
  <2>3. QED BY <2>1, <2>2
<1>2. CASE HandleMonitorsCreate(m) \/ HandleMonitorsEdit(m)
  BY <1>2 DEF HandleMonitorsCreate, HandleMonitorsEdit, Request, CreateMonitor, EditMonitor,
              Return, device
<1>3. QED BY <1>1, <1>2 DEF HandleMonitors

LEMMA HandleVIPEffect ==
  ASSUME DeviceTypeOK, NEW p \in Ports, NEW ip, HandleVIP(p, ip), result = "none"
  PROVE  /\ UNCHANGED <<monitor, pools, bound, members>>
         /\ \A q \in Ports : q # p => vips'[q] = vips[q]
         /\ vips'[p] \in {vips[p], ip}
         /\ result' = "ok" => vips'[p] = ip
PROOF
<1>1. CASE HandleVIPGet(p, ip)
  <2>1. CASE vips[p] = ip
    BY <1>1, <2>1 DEF HandleVIPGet, ReadFails, GoTo, Return, device
  <2>2. CASE vips[p] # ip
    BY <1>1, <2>2 DEF HandleVIPGet, ReadFails, GoTo, Return, device
  <2>3. QED BY <2>1, <2>2
<1>2. CASE HandleVIPCreate(p, ip) \/ HandleVIPEdit(p, ip)
  BY <1>2 DEF HandleVIPCreate, HandleVIPEdit, Request, EditVIP, CreateVIP, Return, device,
              DeviceTypeOK
<1>3. QED BY <1>1, <1>2 DEF HandleVIP

----------------------------------------------------------------------------
(* HandlePool: from the one read of the device to the end of the operation *)
(* addMembers and delMembers are what is missing and what is too much.     *)

PoolSteps == {"getPool", "editPool", "createPool", "bindMonitor", "addMembers", "delMembers"}

PoolFrame(p, want) ==
  /\ step \in PoolSteps
  /\ step # "getPool" => toAdd = want \ members[p] /\ toDel = members[p] \ want
  /\ step = "createPool" => p \notin pools
  /\ step \in {"editPool", "bindMonitor"} => p \in pools /\ p \notin bound
  /\ step \in {"addMembers", "delMembers"} => p \in pools /\ p \in bound
  /\ step = "delMembers" => toAdd = {}

(* The pool of port p exists, is monitored and has the members wanted.     *)
PoolReady(p, want) == p \in pools \cap bound /\ members[p] = want

(* Only an existing pool is monitored or has members.                      *)
PoolsOwn ==
  /\ bound \subseteq pools
  /\ \A p \in Ports : members[p] # {} => p \in pools

(* How far one step of HandlePool gets: it keeps the frame until it        *)
(* returns, and returns nil only when the pool is ready.                   *)
LEMMA HandlePoolProgress ==
  ASSUME BackendTypeOK, PoolsOwn, NEW p \in Ports, NEW want \in SUBSET Hosts,
         PoolFrame(p, want), result = "none", HandlePool(p, want)
  PROVE  /\ result' = "none" => PoolFrame(p, want)'
         /\ result' = "ok" => PoolReady(p, want)'
         /\ PoolsOwn'
PROOF
<1>1. CASE HandlePoolGet(p, want)
  <2>1. CASE p \in pools
    BY <1>1, <2>1
    DEF HandlePoolGet, ReadFails, Return, PoolFrame, PoolSteps, PoolsOwn, device
  <2>2. CASE p \notin pools
    BY <1>1, <2>2
    DEF HandlePoolGet, ReadFails, Return, PoolFrame, PoolSteps, PoolsOwn, device
  <2>3. QED BY <2>1, <2>2
<1>2. CASE HandlePoolEdit(p) \/ HandlePoolBind(p)
  BY <1>2
  DEF HandlePoolEdit, HandlePoolBind, EditPool, BindMonitor, Request, GoTo, Return, PoolFrame,
      PoolSteps, PoolsOwn, device
<1>3. CASE HandlePoolCreate(p)
  BY <1>3
  DEF HandlePoolCreate, CreatePool, Request, GoTo, Return, PoolFrame, PoolSteps, PoolsOwn,
      device
<1>4. CASE HandlePoolAdd(p)
  BY <1>4
  DEF HandlePoolAdd, CreatePoolMember, Request, Return, PoolFrame, PoolSteps, PoolsOwn, device,
      BackendTypeOK, DeviceTypeOK
<1>5. CASE HandlePoolAdded
  BY <1>5 DEF HandlePoolAdded, GoTo, PoolFrame, PoolSteps, PoolsOwn, device
<1>6. CASE HandlePoolDel(p)
  BY <1>6
  DEF HandlePoolDel, DeletePoolMember, Request, Return, PoolFrame, PoolSteps, PoolsOwn, device,
      BackendTypeOK, DeviceTypeOK
<1>7. CASE HandlePoolDone
  BY <1>7
  DEF HandlePoolDone, Return, PoolFrame, PoolSteps, PoolReady, PoolsOwn, device, BackendTypeOK,
      DeviceTypeOK
<1>8. QED BY <1>1, <1>2, <1>3, <1>4, <1>5, <1>6, <1>7 DEF HandlePool

(* What one step of HandlePool may change: the pool of its own port, which *)
(* moves towards what is wanted and is never drained on the way.           *)
LEMMA HandlePoolEffect ==
  ASSUME BackendTypeOK, NEW p \in Ports, NEW want \in SUBSET Hosts,
         PoolFrame(p, want), HandlePool(p, want)
  PROVE  /\ UNCHANGED <<monitor, vips>>
         /\ pools \subseteq pools' /\ pools' \subseteq pools \cup {p}
         /\ bound \subseteq bound' /\ bound' \subseteq bound \cup {p}
         /\ \A q \in Ports : q # p => members'[q] = members[q]
         /\ members[p] \cap want \subseteq members'[p]
         /\ members'[p] \subseteq members[p] \cup want
         /\ members[p] # {} /\ want # {} => members'[p] # {}
PROOF
<1>1. CASE HandlePoolGet(p, want) \/ HandlePoolAdded \/ HandlePoolDone
  BY <1>1 DEF HandlePoolGet, HandlePoolAdded, HandlePoolDone, ReadFails, device
<1>2. CASE HandlePoolEdit(p) \/ HandlePoolBind(p) \/ HandlePoolCreate(p)
  BY <1>2
  DEF HandlePoolEdit, HandlePoolBind, HandlePoolCreate, EditPool, BindMonitor, CreatePool,
      Request, device
<1>3. CASE HandlePoolAdd(p)
  BY <1>3
  DEF HandlePoolAdd, CreatePoolMember, Request, PoolFrame, device, BackendTypeOK, DeviceTypeOK
<1>4. CASE HandlePoolDel(p)
  BY <1>4
  DEF HandlePoolDel, DeletePoolMember, Request, PoolFrame, device, BackendTypeOK, DeviceTypeOK
<1>5. QED BY <1>1, <1>2, <1>3, <1>4 DEF HandlePool

----------------------------------------------------------------------------
(* HandleCleanup: what the status st lists is removed, loop by loop.       *)

PortClean(p) == p \notin pools /\ p \notin bound /\ members[p] = {}

CleanSteps == {"cleanVIPs", "cleanMembers", "cleanPools", "cleanMonitor"}

(* How far the cleanup has come.                                           *)
Cleaned(st) ==
  /\ step \in CleanSteps
  /\ at >= 1
  /\ \A i \in DOMAIN st.handled :
       /\ step = "cleanVIPs" /\ i < at => vips[st.handled[i]] = None
       /\ step # "cleanVIPs" => vips[st.handled[i]] = None
       /\ step = "cleanPools" /\ i < at => PortClean(st.handled[i])
       /\ step = "cleanMonitor" => PortClean(st.handled[i])

(* Nothing of what the status lists is left.                               *)
Removed(st) ==
  /\ \A i \in DOMAIN st.handled : vips[st.handled[i]] = None /\ PortClean(st.handled[i])
  /\ st.monitor # None => monitor = None

LEMMA StatusType ==
  ASSUME NEW st \in Statuses
  PROVE  /\ DOMAIN st.handled = 1..Len(st.handled) /\ Len(st.handled) \in Nat
         /\ \A i \in DOMAIN st.handled : st.handled[i] \in Ports
         /\ st.members \in SUBSET Hosts
  BY DEF Statuses

(* The cleanup goes from loop to loop and returns nil only when nothing    *)
(* that the status lists is left.                                          *)
LEMMA HandleCleanupProgress ==
  ASSUME BackendTypeOK, NEW st \in Statuses, Cleaned(st), result = "none", HandleCleanup(st)
  PROVE  /\ result' = "none" => Cleaned(st)'
         /\ result' = "ok" => Removed(st)'
PROOF
<1>0. at \in Nat
  BY DEF BackendTypeOK
<1>1. CASE CleanVIP(st)
  BY <1>0, <1>1, StatusType
  DEF CleanVIP, Refuse, DeleteVIP, NextItem, Request, Return, Cleaned, CleanSteps, PortClean,
      BackendTypeOK, DeviceTypeOK
<1>2. CASE CleanVIPsDone(st)
  BY <1>0, <1>2, StatusType DEF CleanVIPsDone, NextLoop, Cleaned, CleanSteps, PortClean, device
<1>3. CASE CleanMember(st)
  BY <1>0, <1>3 DEF CleanMember, DeletePoolMember, Cleaned, CleanSteps, device
<1>4. CASE CleanMembersNext(st)
  BY <1>0, <1>4 DEF CleanMembersNext, Cleaned, CleanSteps, device
<1>5. CASE CleanMembersDone(st)
  BY <1>0, <1>5, StatusType DEF CleanMembersDone, NextLoop, Cleaned, CleanSteps, device
<1>6. CASE CleanPool(st)
  BY <1>0, <1>6, StatusType
  DEF CleanPool, Refuse, DeletePool, NextItem, Request, Return, Cleaned, CleanSteps, PortClean,
      BackendTypeOK, DeviceTypeOK
<1>7. CASE CleanPoolsDone(st)
  BY <1>0, <1>7, StatusType DEF CleanPoolsDone, NextLoop, Cleaned, CleanSteps, PortClean, device
<1>8. CASE CleanMonitor(st)
  BY <1>8
  DEF CleanMonitor, Refuse, DeleteMonitor, Request, Return, Cleaned, CleanSteps, Removed,
      PortClean, device
<1>9. QED BY <1>1, <1>2, <1>3, <1>4, <1>5, <1>6, <1>7, <1>8 DEF HandleCleanup

(* What one step of the cleanup may change: it only removes, and only what *)
(* the status lists.                                                       *)
LEMMA HandleCleanupEffect ==
  ASSUME BackendTypeOK, PoolsOwn, NEW st \in Statuses, HandleCleanup(st)
  PROVE  /\ \A p \in Ports : (\A i \in DOMAIN st.handled : st.handled[i] # p) =>
              /\ p \in pools' <=> p \in pools
              /\ members'[p] = members[p] /\ vips'[p] = vips[p]
         /\ pools' \subseteq pools /\ bound' \subseteq bound
         /\ \A p \in Ports : members'[p] \subseteq members[p] /\ vips'[p] \in {vips[p], None}
         /\ monitor' \in {monitor, None}
         /\ PoolsOwn'
PROOF
<1>1. CASE CleanVIP(st)
  BY <1>1, StatusType
  DEF CleanVIP, Refuse, DeleteVIP, Request, BackendTypeOK, DeviceTypeOK, PoolsOwn, device
<1>2. CASE CleanVIPsDone(st) \/ CleanMembersNext(st) \/ CleanMembersDone(st) \/ CleanPoolsDone(st)
  BY <1>2
  DEF CleanVIPsDone, CleanMembersNext, CleanMembersDone, CleanPoolsDone, NextLoop, PoolsOwn,
      device
<1>3. CASE CleanMember(st)
  BY <1>3, StatusType
  DEF CleanMember, DeletePoolMember, BackendTypeOK, DeviceTypeOK, PoolsOwn, device
<1>4. CASE CleanPool(st)
  BY <1>4, StatusType
  DEF CleanPool, Refuse, DeletePool, Request, BackendTypeOK, DeviceTypeOK, PoolsOwn, device
<1>5. CASE CleanMonitor(st)
  BY <1>5 DEF CleanMonitor, Refuse, DeleteMonitor, Request, PoolsOwn, device
<1>6. QED BY <1>1, <1>2, <1>3, <1>4, <1>5 DEF HandleCleanup

(* A status that lists every port and a monitor.                           *)
Covers(st) ==
  /\ st.monitor # None
  /\ \A p \in Ports : \E i \in DOMAIN st.handled : st.handled[i] = p

(* With such a status the cleanup returns nil only on an empty device.     *)
LEMMA HandleCleanupEmpties ==
  ASSUME BackendTypeOK, NEW st \in Statuses, Covers(st), Cleaned(st), result = "none",
         HandleCleanup(st)
  PROVE  /\ result' = "none" => Cleaned(st)'
         /\ result' = "ok" => DeviceEmpty'
PROOF
<1>1. /\ result' = "none" => Cleaned(st)'
      /\ result' = "ok" => Removed(st)'
  BY HandleCleanupProgress
<1>2. ASSUME result' = "ok" PROVE DeviceEmpty'
  <2>1. DeviceTypeOK'
    BY HandleCleanupType DEF BackendTypeOK
  <2>2. monitor' = None /\ \A p \in Ports : vips'[p] = None /\ PortClean(p)'
    BY <1>1, <1>2 DEF Removed, Covers
  <2>3. pools' = {} /\ bound' = {}
    BY <2>1, <2>2 DEF DeviceTypeOK, PortClean
  <2>4. members' = [p \in Ports |-> {}] /\ vips' = [p \in Ports |-> None]
    BY <2>1, <2>2 DEF DeviceTypeOK, PortClean
  <2>5. QED BY <2>2, <2>3, <2>4 DEF DeviceEmpty, DeviceInit
<1>3. QED BY <1>1, <1>2

(* Teardown in the order VIPs, members, pools, monitor leaves no reference *)
(* to what is gone, provided that no pool outlives its monitor: the device *)
(* refuses to delete a monitor in use, or the status lists every pool.     *)
LEMMA HandleCleanupReferences ==
  ASSUME BackendTypeOK, NoDanglingReferences, NEW st \in Statuses, Cleaned(st),
         result = "none", HandleCleanup(st),
         StrictDelete \/ Covers(st)
  PROVE  NoDanglingReferences'
PROOF
<1>1. CASE CleanVIP(st)
  BY <1>1, StatusType
  DEF CleanVIP, Refuse, DeleteVIP, Request, BackendTypeOK, DeviceTypeOK, NoDanglingReferences,
      device
<1>2. CASE CleanVIPsDone(st) \/ CleanMembersNext(st) \/ CleanMembersDone(st) \/ CleanPoolsDone(st)
  BY <1>2
  DEF CleanVIPsDone, CleanMembersNext, CleanMembersDone, CleanPoolsDone, NextLoop,
      NoDanglingReferences, device
<1>3. CASE CleanMember(st)
  BY <1>3, StatusType
  DEF CleanMember, DeletePoolMember, BackendTypeOK, DeviceTypeOK, NoDanglingReferences, device
<1>4. CASE CleanPool(st)
  BY <1>4, StatusType
  DEF CleanPool, Refuse, DeletePool, Request, BackendTypeOK, DeviceTypeOK, Cleaned, CleanSteps,
      NoDanglingReferences, device
<1>5. CASE CleanMonitor(st)
  <2>1. CASE StrictDelete
    BY <1>5, <2>1
    DEF CleanMonitor, Refuse, MonitorRefused, DeleteMonitor, Request, NoDanglingReferences, device
  <2>2. CASE Covers(st)
    <3>1. bound = {}
      BY <1>5, <2>2
      DEF CleanMonitor, Covers, Cleaned, PortClean, BackendTypeOK, DeviceTypeOK
    <3>2. QED
      BY <1>5, <3>1
      DEF CleanMonitor, Refuse, DeleteMonitor, Request, NoDanglingReferences, device
  <2>3. QED BY <2>1, <2>2
<1>6. QED BY <1>1, <1>2, <1>3, <1>4, <1>5 DEF HandleCleanup
=============================================================================
