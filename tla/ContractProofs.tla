--------------------------- MODULE ContractProofs ---------------------------
(***************************************************************************)
(* BackendController keeps the contract of its Handle operations: proofs   *)
(* about BackendCalls, for every set of ports, hosts, addresses, monitors  *)
(* and statuses and any number of failed requests and lost answers.        *)
(***************************************************************************)
EXTENDS BackendCalls, BackendProofs

(* What each operation knows about the device between its read and the     *)
(* write it decided on.                                                    *)
MonitorFrame(m) ==
  /\ step \in {"getMonitor", "createMonitor", "editMonitor"}
  /\ step # "getMonitor" => monitor # m
  /\ step = "createMonitor" <=> (step # "getMonitor" /\ monitor = None)

VIPFrame(p, ip) ==
  /\ step \in {"getVIP", "createVIP", "editVIP"}
  /\ step # "getVIP" => vips[p] # ip
  /\ step = "createVIP" <=> (step # "getVIP" /\ vips[p] = None)

(* The operation under way has come as far as its request says.            *)
Progress(a) ==
  /\ a.op = "monitor" => MonitorFrame(a.monitor)
  /\ a.op = "pool" => PoolFrame(a.port, a.want)
  /\ a.op = "vip" => VIPFrame(a.port, a.ip)
  /\ a.op = "cleanup" => Cleaned(a.status)

CallInv ==
  /\ PoolsOwn
  /\ arg = None => result = "none"
  /\ arg # None /\ result # "none" => step = "idle"
  /\ arg # None /\ result = "none" => Progress(arg)

LEMMA ArgumentType ==
  ASSUME NEW a \in Arguments
  PROVE  /\ a.op \in {"monitor", "pool", "vip", "cleanup"}
         /\ a.op = "monitor" => a.monitor \in Monitors
         /\ a.op = "pool" => a.port \in Ports /\ a.want \in SUBSET Hosts
         /\ a.op = "vip" => a.port \in Ports /\ a.ip \in IPs
         /\ a.op = "cleanup" => a.status \in Statuses
  BY CleanStatusesAssumption DEF Arguments

(* A request is only sent while its operation has not returned.            *)
LEMMA Running ==
  ASSUME TypeOK, CallInv, Run
  PROVE  arg \in Arguments /\ result = "none" /\ Progress(arg)
PROOF
<1>1. arg \in Arguments
  BY DEF Run, TypeOK
<1>2. step # "idle"
  BY <1>1, ArgumentType
  DEF Run, HandleMonitors, HandleMonitorsGet, HandleMonitorsCreate, HandleMonitorsEdit,
      HandlePool, HandlePoolGet, HandlePoolEdit, HandlePoolCreate, HandlePoolBind,
      HandlePoolAdd, HandlePoolAdded, HandlePoolDel, HandlePoolDone,
      HandleVIP, HandleVIPGet, HandleVIPCreate, HandleVIPEdit,
      HandleCleanup, CleanVIP, CleanVIPsDone, CleanMember, CleanMembersNext,
      CleanMembersDone, CleanPool, CleanPoolsDone, CleanMonitor
<1>3. QED BY <1>1, <1>2 DEF Run, CallInv

(* Which operation a request belongs to.                                   *)
LEMMA RunCases ==
  ASSUME TypeOK, Run
  PROVE  /\ UNCHANGED arg /\ arg \in Arguments /\ arg # None
         /\ \/ arg.op = "monitor" /\ HandleMonitors(arg.monitor)
            \/ arg.op = "pool" /\ HandlePool(arg.port, arg.want)
            \/ arg.op = "vip" /\ HandleVIP(arg.port, arg.ip)
            \/ arg.op = "cleanup" /\ HandleCleanup(arg.status)
PROOF
<1>1. arg \in Arguments /\ arg # None
  BY DEF Run, TypeOK
<1>2. arg.op \in {"monitor", "pool", "vip", "cleanup"}
  BY <1>1, ArgumentType
<1>3. QED BY <1>1, <1>2 DEF Run

(* Every caller finds the types it expects.                                *)
THEOREM CallsTypeCorrect == Spec => []TypeOK
PROOF
<1>1. Init => TypeOK
  BY MaxFaultsAssumption
  DEF Init, TypeOK, BackendInit, DeviceInit, FrameInit, BackendTypeOK, DeviceTypeOK, Steps
<1>2. TypeOK /\ [Next]_vars => TypeOK'
  <2> SUFFICES ASSUME TypeOK, [Next]_vars PROVE TypeOK'
    OBVIOUS
  <2>1. ASSUME NEW a \in Arguments, Invoke(a) PROVE TypeOK'
    <3>1. a.op \in {"monitor", "pool", "vip", "cleanup"}
      BY ArgumentType
    <3>2. FirstStep(a) \in Steps
      BY <3>1 DEF FirstStep, Steps
    <3>3. QED
      BY <2>1, <3>2 DEF Invoke, Call, TypeOK, BackendTypeOK, DeviceTypeOK, device
  <2>2. CASE Run
    BY <2>2, RunCases, ArgumentType, HandleMonitorsType, HandlePoolType, HandleVIPType,
       HandleCleanupType DEF TypeOK
  <2>3. CASE Collect
    BY <2>3 DEF Collect, TypeOK, BackendTypeOK, DeviceTypeOK, device
  <2>4. CASE UNCHANGED vars
    BY <2>4 DEF vars, TypeOK, BackendTypeOK, DeviceTypeOK, backend, device, frame
  <2>5. QED BY <2>1, <2>2, <2>3, <2>4 DEF Next
<1>3. QED BY <1>1, <1>2, PTL DEF Spec

----------------------------------------------------------------------------
(* The inductive invariant.                                                *)

(* An operation that has returned has left its loops.                      *)
LEMMA ReturnsIdle ==
  ASSUME TypeOK, Run, result = "none"
  PROVE  result' # "none" => step' = "idle"
PROOF
<1>1. CASE HandleMonitors(arg.monitor)
  BY <1>1
  DEF HandleMonitors, HandleMonitorsGet, HandleMonitorsCreate, HandleMonitorsEdit, Request,
      ReadFails, GoTo, Return
<1>2. CASE HandlePool(arg.port, arg.want)
  BY <1>2
  DEF HandlePool, HandlePoolGet, HandlePoolEdit, HandlePoolCreate, HandlePoolBind,
      HandlePoolAdd, HandlePoolAdded, HandlePoolDel, HandlePoolDone, Request, ReadFails, GoTo,
      Return
<1>3. CASE HandleVIP(arg.port, arg.ip)
  BY <1>3
  DEF HandleVIP, HandleVIPGet, HandleVIPCreate, HandleVIPEdit, Request, ReadFails, GoTo, Return
<1>4. CASE HandleCleanup(arg.status)
  BY <1>4
  DEF HandleCleanup, CleanVIP, CleanVIPsDone, CleanMember, CleanMembersNext, CleanMembersDone,
      CleanPool, CleanPoolsDone, CleanMonitor, Refuse, Request, NextItem, NextLoop, Return
<1>5. QED BY <1>1, <1>2, <1>3, <1>4, RunCases

(* A request keeps what the operation knows, until it returns.             *)
LEMMA RunProgress ==
  ASSUME TypeOK, CallInv, Run
  PROVE  PoolsOwn' /\ (result' = "none" => Progress(arg)')
PROOF
<1>0. /\ arg \in Arguments /\ result = "none" /\ Progress(arg)
      /\ BackendTypeOK /\ DeviceTypeOK /\ PoolsOwn /\ UNCHANGED arg
  BY Running DEF TypeOK, BackendTypeOK, CallInv, Run
<1>1. CASE arg.op = "monitor" /\ HandleMonitors(arg.monitor)
  <2>1. PoolsOwn'
    BY <1>0, <1>1, HandleMonitorsEffect DEF PoolsOwn
  <2>2. result' = "none" => MonitorFrame(arg.monitor)'
    <3>1. CASE monitor = arg.monitor
      BY <1>0, <1>1, <3>1, ArgumentType, ProviderConstants
      DEF Progress, MonitorFrame, HandleMonitors, HandleMonitorsGet, HandleMonitorsCreate,
          HandleMonitorsEdit, Request, ReadFails, GoTo, Return, device
    <3>2. CASE monitor # arg.monitor
      BY <1>0, <1>1, <3>2
      DEF Progress, MonitorFrame, HandleMonitors, HandleMonitorsGet, HandleMonitorsCreate,
          HandleMonitorsEdit, Request, ReadFails, GoTo, Return, device
    <3>3. QED BY <3>1, <3>2
  <2>3. QED BY <1>0, <1>1, <2>1, <2>2 DEF Progress
<1>2. CASE arg.op = "pool" /\ HandlePool(arg.port, arg.want)
  BY <1>0, <1>2, ArgumentType, HandlePoolProgress DEF Progress
<1>3. CASE arg.op = "vip" /\ HandleVIP(arg.port, arg.ip)
  <2>1. PoolsOwn'
    BY <1>0, <1>3, ArgumentType, HandleVIPEffect DEF PoolsOwn
  <2>2. result' = "none" => VIPFrame(arg.port, arg.ip)'
    <3>1. CASE vips[arg.port] = arg.ip
      BY <1>0, <1>3, <3>1, ArgumentType, ProviderConstants
      DEF Progress, VIPFrame, HandleVIP, HandleVIPGet, HandleVIPCreate, HandleVIPEdit, Request,
          ReadFails, GoTo, Return, device
    <3>2. CASE vips[arg.port] # arg.ip
      BY <1>0, <1>3, <3>2
      DEF Progress, VIPFrame, HandleVIP, HandleVIPGet, HandleVIPCreate, HandleVIPEdit, Request,
          ReadFails, GoTo, Return, device
    <3>3. QED BY <3>1, <3>2
  <2>3. QED BY <1>0, <1>3, <2>1, <2>2 DEF Progress
<1>4. CASE arg.op = "cleanup" /\ HandleCleanup(arg.status)
  BY <1>0, <1>4, ArgumentType, HandleCleanupProgress, HandleCleanupEffect DEF Progress
<1>5. QED BY <1>1, <1>2, <1>3, <1>4, RunCases

(* A call starts at its operation's first request.                         *)
LEMMA InvokeProgress ==
  ASSUME NEW a \in Arguments, Invoke(a)
  PROVE  Progress(a)'
PROOF
<1>1. a.op \in {"monitor", "pool", "vip", "cleanup"}
  BY ArgumentType
<1>2. step' = FirstStep(a) /\ at' = IF a.op = "cleanup" THEN 1 ELSE 0
  BY DEF Invoke, Call
<1>3. CASE a.op = "monitor"
  BY <1>2, <1>3 DEF FirstStep, Progress, MonitorFrame
<1>4. CASE a.op = "pool"
  BY <1>2, <1>4 DEF FirstStep, Progress, PoolFrame, PoolSteps
<1>5. CASE a.op = "vip"
  BY <1>2, <1>5 DEF FirstStep, Progress, VIPFrame
<1>6. CASE a.op = "cleanup"
  <2>1. step' = "cleanVIPs" /\ at' = 1
    BY <1>2, <1>6 DEF FirstStep
  <2>2. \A i \in DOMAIN a.status.handled : ~(i < 1)
    BY <1>6, ArgumentType, StatusType
  <2>3. QED BY <1>6, <2>1, <2>2 DEF Progress, Cleaned, CleanSteps
<1>7. QED BY <1>1, <1>3, <1>4, <1>5, <1>6

LEMMA CallInvHolds == Spec => []CallInv
PROOF
<1>1. Init => CallInv
  BY DEF Init, BackendInit, DeviceInit, FrameInit, CallInv, PoolsOwn
<1>2. TypeOK /\ CallInv /\ [Next]_vars => CallInv'
  <2> SUFFICES ASSUME TypeOK, CallInv, [Next]_vars PROVE CallInv'
    OBVIOUS
  <2>1. ASSUME NEW a \in Arguments, Invoke(a) PROVE CallInv'
    <3>1. arg' = a /\ a # None /\ result' = "none" /\ PoolsOwn'
      BY <2>1, NoArgument DEF Invoke, Call, CallInv, PoolsOwn, device
    <3>2. QED BY <2>1, <3>1, InvokeProgress DEF CallInv
  <2>2. CASE Run
    <3>1. arg # None /\ arg' = arg /\ result = "none"
      BY <2>2, Running DEF Run
    <3>2. PoolsOwn' /\ (result' = "none" => Progress(arg)') /\ (result' # "none" => step' = "idle")
      BY <2>2, <3>1, RunProgress, ReturnsIdle
    <3>3. QED BY <3>1, <3>2 DEF CallInv
  <2>3. CASE Collect
    BY <2>3 DEF Collect, CallInv, PoolsOwn, device
  <2>4. CASE UNCHANGED vars
    BY <2>4
    DEF vars, CallInv, PoolsOwn, Progress, MonitorFrame, VIPFrame, PoolFrame, Cleaned, PortClean,
        backend, device, frame
  <2>5. QED BY <2>1, <2>2, <2>3, <2>4 DEF Next
<1>3. QED BY <1>1, <1>2, CallsTypeCorrect, PTL DEF Spec

----------------------------------------------------------------------------
(* The refinement: a request of an operation is a Work step of its         *)
(* contract.                                                               *)

LEMMA MonitorKeepsContract ==
  ASSUME TypeOK, CallInv, Run, arg.op = "monitor"
  PROVE  Contract!Allowed(arg) /\ (result' = "ok" => Contract!Goal(arg)')
PROOF
<1>1. HandleMonitors(arg.monitor) /\ result = "none" /\ UNCHANGED arg
  BY Running DEF Run
<1>2. /\ UNCHANGED <<pools, bound, members, vips>>
      /\ monitor' \in {monitor, arg.monitor}
      /\ result' = "ok" => monitor' = arg.monitor
  BY <1>1, HandleMonitorsEffect
<1>3. QED BY <1>1, <1>2 DEF Contract!Allowed, Contract!Goal

LEMMA PoolKeepsContract ==
  ASSUME TypeOK, CallInv, Run, arg.op = "pool"
  PROVE  Contract!Allowed(arg) /\ (result' = "ok" => Contract!Goal(arg)')
PROOF
<1>1. /\ HandlePool(arg.port, arg.want) /\ result = "none" /\ UNCHANGED arg
      /\ arg.port \in Ports /\ arg.want \in SUBSET Hosts
      /\ PoolFrame(arg.port, arg.want) /\ BackendTypeOK /\ PoolsOwn
  BY Running, ArgumentType DEF Run, Progress, TypeOK, CallInv
<1>2. result' = "ok" => PoolReady(arg.port, arg.want)'
  BY <1>1, HandlePoolProgress
<1>3. /\ UNCHANGED <<monitor, vips>>
      /\ pools \subseteq pools' /\ pools' \subseteq pools \cup {arg.port}
      /\ bound \subseteq bound' /\ bound' \subseteq bound \cup {arg.port}
      /\ \A q \in Ports : q # arg.port => members'[q] = members[q]
      /\ members[arg.port] \cap arg.want \subseteq members'[arg.port]
      /\ members'[arg.port] \subseteq members[arg.port] \cup arg.want
      /\ members[arg.port] # {} /\ arg.want # {} => members'[arg.port] # {}
  BY <1>1, HandlePoolEffect
<1>4. Contract!OnlyPorts({arg.port}) /\ Contract!TowardsMembers(arg.port, arg.want)
  BY <1>3 DEF Contract!OnlyPorts, Contract!TowardsMembers
<1>5. Contract!Allowed(arg)
  BY <1>3, <1>4 DEF Contract!Allowed
<1>6. QED BY <1>1, <1>2, <1>5 DEF PoolReady, Contract!Goal

LEMMA VIPKeepsContract ==
  ASSUME TypeOK, CallInv, Run, arg.op = "vip"
  PROVE  Contract!Allowed(arg) /\ (result' = "ok" => Contract!Goal(arg)')
PROOF
<1>1. /\ HandleVIP(arg.port, arg.ip) /\ result = "none" /\ UNCHANGED arg
      /\ arg.port \in Ports /\ DeviceTypeOK
  BY Running, ArgumentType DEF Run, TypeOK, BackendTypeOK
<1>2. /\ UNCHANGED <<monitor, pools, bound, members>>
      /\ \A q \in Ports : q # arg.port => vips'[q] = vips[q]
      /\ vips'[arg.port] \in {vips[arg.port], arg.ip}
      /\ result' = "ok" => vips'[arg.port] = arg.ip
  BY <1>1, HandleVIPEffect
<1>3. Contract!OnlyPorts({arg.port})
  BY <1>2 DEF Contract!OnlyPorts
<1>4. QED BY <1>1, <1>2, <1>3 DEF Contract!Allowed, Contract!Goal

LEMMA CleanupKeepsContract ==
  ASSUME TypeOK, CallInv, Run, arg.op = "cleanup"
  PROVE  Contract!Allowed(arg) /\ (result' = "ok" => Contract!Goal(arg)')
PROOF
<1>1. /\ HandleCleanup(arg.status) /\ result = "none" /\ UNCHANGED arg
      /\ arg.status \in Statuses /\ Cleaned(arg.status) /\ BackendTypeOK /\ PoolsOwn
  BY Running, ArgumentType DEF Run, Progress, TypeOK, CallInv
<1>2. result' = "ok" => Removed(arg.status)'
  BY <1>1, HandleCleanupProgress
<1>3. /\ \A p \in Ports : (\A i \in DOMAIN arg.status.handled : arg.status.handled[i] # p) =>
           /\ p \in pools' <=> p \in pools
           /\ members'[p] = members[p] /\ vips'[p] = vips[p]
      /\ pools' \subseteq pools /\ bound' \subseteq bound
      /\ \A p \in Ports : members'[p] \subseteq members[p] /\ vips'[p] \in {vips[p], None}
      /\ monitor' \in {monitor, None}
  BY <1>1, HandleCleanupEffect
<1>4. Contract!OnlyPorts({arg.status.handled[i] : i \in DOMAIN arg.status.handled})
  BY <1>3 DEF Contract!OnlyPorts
<1>5. Contract!Allowed(arg)
  BY <1>3, <1>4 DEF Contract!Allowed
<1>6. QED BY <1>1, <1>2, <1>5 DEF Removed, PortClean, Contract!Goal

(* The Handle operations of backend_controller.go keep the contract        *)
(* BackendContract states, whatever requests fail or lose their answer:    *)
(* every request changes only what the call names and only towards what it *)
(* asks for, a pool in service is never drained on the way, and a nil      *)
(* error means that the device is in the state asked for.                  *)
THEOREM KeepsContract == Spec => ImplementsContract
PROOF
<1>1. Init => Contract!Init
  BY DEF Init, BackendInit, FrameInit, DeviceInit, Contract!Init, Contract!DeviceInit
<1>2. TypeOK /\ CallInv /\ [Next]_vars => [Contract!Next]_Contract!contract
  <2> SUFFICES ASSUME TypeOK, CallInv, [Next]_vars
               PROVE  [Contract!Next]_Contract!contract
    OBVIOUS
  <2>1. ASSUME NEW a \in Arguments, Invoke(a) PROVE Contract!Start
    BY <2>1, NoArgument DEF Invoke, Call, device, Contract!Start, Contract!device
  <2>2. CASE Run
    <3>1. /\ arg # None /\ result = "none" /\ UNCHANGED arg
          /\ arg.op \in {"monitor", "pool", "vip", "cleanup"}
      BY <2>2, Running, ArgumentType DEF Run
    <3>2. Contract!Allowed(arg) /\ (result' = "ok" => Contract!Goal(arg)')
      BY <2>2, <3>1, MonitorKeepsContract, PoolKeepsContract, VIPKeepsContract,
         CleanupKeepsContract
    <3>3. result' \in {"none", "err", "ok"}
      BY <2>2, RunCases, ArgumentType, HandleMonitorsType, HandlePoolType, HandleVIPType,
         HandleCleanupType DEF TypeOK, BackendTypeOK
    <3>4. QED BY <3>1, <3>2, <3>3 DEF Contract!Next, Contract!Work
  <2>3. CASE Collect
    BY <2>3 DEF Collect, device, Contract!Next, Contract!Finish, Contract!device
  <2>4. CASE UNCHANGED vars
    BY <2>4 DEF vars, backend, device, frame, Contract!contract, Contract!device
  <2>5. QED BY <2>1, <2>2, <2>3, <2>4 DEF Next, Contract!Next
<1>3. QED
  BY <1>1, <1>2, CallsTypeCorrect, CallInvHolds, PTL DEF Spec, ImplementsContract, Contract!Spec

(* No Handle operation sends a write the device does not need, for any     *)
(* number of failed requests, lost answers and retries: what it creates is *)
(* missing, what it edits differs, whom it adds is absent and whom it      *)
(* removes is there (backend_controller.go, the comparisons before every   *)
(* Create, Edit, Add and Delete).                                          *)
THEOREM WritesNeeded == Spec => []WritesAreNeeded
PROOF
<1>1. TypeOK /\ CallInv => WritesAreNeeded
  <2> SUFFICES ASSUME TypeOK, CallInv, arg # None, result = "none"
               PROVE  WritesAreNeeded
    BY DEF CallInv, WritesAreNeeded
  <2>1. arg \in Arguments /\ Progress(arg)
    BY DEF TypeOK, CallInv
  <2>2. CASE arg.op = "monitor"
    BY <2>1, <2>2 DEF Progress, MonitorFrame, WritesAreNeeded
  <2>3. CASE arg.op = "pool"
    BY <2>1, <2>3 DEF Progress, PoolFrame, PoolSteps, WritesAreNeeded
  <2>4. CASE arg.op = "vip"
    BY <2>1, <2>4 DEF Progress, VIPFrame, WritesAreNeeded
  <2>5. CASE arg.op = "cleanup"
    BY <2>1, <2>5 DEF Progress, Cleaned, CleanSteps, WritesAreNeeded
  <2>6. QED BY <2>1, <2>2, <2>3, <2>4, <2>5, ArgumentType
<1>2. QED BY <1>1, CallsTypeCorrect, CallInvHolds, PTL
=============================================================================
