-------------------------- MODULE ReconcilerProofs --------------------------
(***************************************************************************)
(* Theorems about Reconciler, for every set of specs, ports, hosts and     *)
(* addresses, any number of failures, crashes and user operations.         *)
(***************************************************************************)
EXTENDS Reconciler, BackendProofs

(* A write takes a resourceVersion that no copy of the object carries.     *)
LEMMA NewVersionFresh ==
  ASSUME ~(RVs \subseteq Held)
  PROVE  NewVersion \in Nat /\ NewVersion \notin Held
PROOF
<1>1. NewVersion \in RVs /\ NewVersion \notin Held
  BY DEF NewVersion
<1>2. QED BY <1>1, EnvironmentAssumption

(* The API server's writes keep the types of its variables.                *)
LEMMA StoreType ==
  ASSUME ApiTypeOK, NEW o \in Objects, Store(o)
  PROVE  ApiTypeOK' /\ obj' \in Objects
PROOF
<1>0. NewVersion \in Nat
  BY NewVersionFresh DEF Store
<1>1. Version(o) \in Objects
  BY <1>0 DEF Version, Objects
<1>2. QED BY <1>1 DEF Store, ApiTypeOK

LEMMA StoreOrRemoveType ==
  ASSUME ApiTypeOK, NEW o \in Objects, StoreOrRemove(o)
  PROVE  ApiTypeOK'
  BY StoreType DEF StoreOrRemove, Remove, ApiTypeOK

LEMMA AnswerType ==
  ASSUME lb \in Objects, obj' \in Objects
  PROVE  /\ Answer \in Objects
         /\ Answer.rv = obj'.rv /\ Answer.spec = obj'.spec /\ Answer.status = obj'.status
         /\ obj'.named => Answer.named
PROOF
<1>1. (obj'.named \/ lb.named) \in BOOLEAN
  OBVIOUS
<1>2. QED BY <1>1 DEF Answer, Objects

LEMMA SpecType ==
  ASSUME NEW s \in Specs
  PROVE  /\ s.vip \in IPs /\ s.monitor \in Monitors
         /\ s.ports \in Seq(Ports) /\ Len(s.ports) \in Nat \ {0}
         /\ \A i \in 1..Len(s.ports) : s.ports[i] \in Ports
         /\ Labels(s) \in IPs \X Seq(Ports)
  BY SpecsAssumption DEF Labels

(* While a pass runs, its locals are set, and the port loops stay inside   *)
(* the list of ports.                                                      *)
LocalsOK ==
  /\ pc \notin {"idle", "get"} => lb \in Objects /\ cfg \in Specs
  /\ pc \in {"pools", "vips"} => idx \in 1..Len(cfg.ports)

LEMMA InitTypeOK ==
  ASSUME Init PROVE TypeOK /\ LocalsOK
PROOF
<1>1. BackendTypeOK
  BY MaxFaultsAssumption
  DEF Init, BackendInit, DeviceInit, FrameInit, BackendTypeOK, DeviceTypeOK, Steps
<1>2. ApiTypeOK
  BY DEF Init, ApiTypeOK
<1>3. PassTypeOK
  BY DEF Init, PassTypeOK, PassSteps
<1>4. EnvTypeOK
  <2>1. {MaxUserOps, MaxNodeOps, MaxCrashes} \subseteq Nat
    BY EnvironmentAssumption
  <2>2. QED BY <2>1 DEF Init, EnvTypeOK
<1>5. MetricsTypeOK
  BY DEF Init, MetricsTypeOK
<1>6. FlagsTypeOK
  BY DEF Init, FlagsTypeOK
<1>7. LocalsOK
  BY DEF Init, LocalsOK
<1>8. QED BY <1>1, <1>2, <1>3, <1>4, <1>5, <1>6, <1>7 DEF TypeOK

(* What the environment does keeps the types.                              *)
LEMMA UserType ==
  ASSUME TypeOK, LocalsOK, User
  PROVE  TypeOK' /\ LocalsOK'
PROOF
<1>1. BackendTypeOK' /\ PassTypeOK' /\ MetricsTypeOK' /\ LocalsOK'
  BY DEF User, UserCreate, UserUpdate, UserDelete, LoseSecret, UserOp, TypeOK, BackendTypeOK,
         DeviceTypeOK, PassTypeOK, MetricsTypeOK, LocalsOK, backend, device, frame, locals,
         metrics
<1>2. EnvTypeOK'
  <2>1. MaxUserOps \in Nat
    BY EnvironmentAssumption
  <2>2. UserOp
    BY DEF User, UserCreate, UserUpdate, UserDelete, LoseSecret
  <2>3. QED BY <2>1, <2>2 DEF UserOp, TypeOK, EnvTypeOK
<1>3. FlagsTypeOK'
  BY DEF User, UserCreate, UserUpdate, UserDelete, LoseSecret, UserOp, TypeOK, FlagsTypeOK
<1>4. ApiTypeOK'
  <2>1. ASSUME UserCreate PROVE ApiTypeOK'
    <3>1. PICK s \in Specs, f \in BOOLEAN :
            Store([rv |-> 0, spec |-> s, named |-> FALSE, status |-> EmptyStatus, fin |-> FALSE,
                   foreign |-> f, deleting |-> FALSE])
      BY <2>1 DEF UserCreate
    <3>2. [rv |-> 0, spec |-> s, named |-> FALSE, status |-> EmptyStatus, fin |-> FALSE,
           foreign |-> f, deleting |-> FALSE] \in Objects
      BY DEF Objects, EmptyStatus, Statuses
    <3>3. QED BY <3>1, <3>2, StoreType DEF TypeOK
  <2>2. ASSUME UserUpdate PROVE ApiTypeOK'
    <3>1. PICK s \in Specs, n \in {obj.named, FALSE} : Store([obj EXCEPT !.spec = s, !.named = n])
      BY <2>2 DEF UserUpdate
    <3>2. [obj EXCEPT !.spec = s, !.named = n] \in Objects
      BY <2>2 DEF UserUpdate, TypeOK, ApiTypeOK, Objects
    <3>3. QED BY <3>1, <3>2, StoreType DEF TypeOK
  <2>3. ASSUME UserDelete PROVE ApiTypeOK'
    <3>1. [obj EXCEPT !.deleting = TRUE] \in Objects
      BY <2>3 DEF UserDelete, TypeOK, ApiTypeOK, Objects
    <3>2. QED BY <2>3, <3>1, StoreOrRemoveType DEF UserDelete, TypeOK
  <2>4. ASSUME LoseSecret PROVE ApiTypeOK'
    BY <2>4 DEF LoseSecret, TypeOK, ApiTypeOK, api
  <2>5. QED BY <2>1, <2>2, <2>3, <2>4 DEF User
<1>5. QED BY <1>1, <1>2, <1>3, <1>4 DEF TypeOK

LEMMA RestoreSecretType ==
  ASSUME TypeOK, LocalsOK, RestoreSecret
  PROVE  TypeOK' /\ LocalsOK'
PROOF
<1>1. BackendTypeOK' /\ ApiTypeOK' /\ PassTypeOK' /\ EnvTypeOK' /\ MetricsTypeOK' /\ LocalsOK'
  BY DEF RestoreSecret, TypeOK, BackendTypeOK, DeviceTypeOK, ApiTypeOK, PassTypeOK, EnvTypeOK,
         MetricsTypeOK, LocalsOK, backend, device, frame, api, locals, metrics, bounds
<1>2. FlagsTypeOK'
  BY DEF RestoreSecret, TypeOK, FlagsTypeOK
<1>3. QED BY <1>1, <1>2 DEF TypeOK

LEMMA ForeignReleaseType ==
  ASSUME TypeOK, LocalsOK, ForeignRelease
  PROVE  TypeOK' /\ LocalsOK'
PROOF
<1>1. BackendTypeOK' /\ PassTypeOK' /\ EnvTypeOK' /\ MetricsTypeOK' /\ LocalsOK'
  BY DEF ForeignRelease, TypeOK, BackendTypeOK, DeviceTypeOK, PassTypeOK, EnvTypeOK,
         MetricsTypeOK, LocalsOK, backend, device, frame, locals, metrics, cluster, bounds
<1>2. FlagsTypeOK'
  BY DEF ForeignRelease, TypeOK, FlagsTypeOK, cluster
<1>3. ApiTypeOK'
  <2>1. [obj EXCEPT !.foreign = FALSE] \in Objects
    BY DEF ForeignRelease, TypeOK, ApiTypeOK, Objects
  <2>2. QED BY <2>1, StoreOrRemoveType DEF ForeignRelease, TypeOK
<1>4. QED BY <1>1, <1>2, <1>3 DEF TypeOK

LEMMA DeliverType ==
  ASSUME TypeOK, LocalsOK, Deliver
  PROVE  TypeOK' /\ LocalsOK'
PROOF
<1>1. BackendTypeOK' /\ PassTypeOK' /\ MetricsTypeOK' /\ LocalsOK'
  BY DEF Deliver, TypeOK, BackendTypeOK, DeviceTypeOK, PassTypeOK,
         MetricsTypeOK, LocalsOK, backend, device, frame, locals, metrics
<1>2. FlagsTypeOK'
  BY DEF Deliver, TypeOK, FlagsTypeOK, cluster
<1>3. Head(watch) \in Objects \cup {None} /\ Tail(watch) \in Seq(Objects \cup {None})
  BY DEF Deliver, TypeOK, ApiTypeOK
<1>4. ApiTypeOK' /\ EnvTypeOK'
  BY <1>3 DEF Deliver, TypeOK, ApiTypeOK, EnvTypeOK, cluster, bounds
<1>5. QED BY <1>1, <1>2, <1>4 DEF TypeOK

LEMMA NodesType ==
  ASSUME TypeOK, LocalsOK, NodeChange \/ NodeNotify
  PROVE  TypeOK' /\ LocalsOK'
PROOF
<1>1. BackendTypeOK' /\ ApiTypeOK' /\ PassTypeOK' /\ MetricsTypeOK' /\ LocalsOK'
  BY DEF NodeChange, NodeNotify, TypeOK, BackendTypeOK, DeviceTypeOK, ApiTypeOK, PassTypeOK,
         MetricsTypeOK, LocalsOK, backend, device, frame, api, locals, metrics
<1>2. FlagsTypeOK'
  BY DEF NodeChange, NodeNotify, TypeOK, FlagsTypeOK
<1>3. EnvTypeOK'
  <2>1. MaxNodeOps \in Nat
    BY EnvironmentAssumption
  <2>2. QED BY <2>1 DEF NodeChange, NodeNotify, TypeOK, EnvTypeOK, bounds
<1>4. QED BY <1>1, <1>2, <1>3 DEF TypeOK

LEMMA CrashType ==
  ASSUME TypeOK, LocalsOK, Crash
  PROVE  TypeOK' /\ LocalsOK'
PROOF
<1>1. BackendTypeOK' /\ PassTypeOK' /\ MetricsTypeOK' /\ LocalsOK'
  BY DEF Crash, EndPass, Return, TypeOK, BackendTypeOK, DeviceTypeOK, PassTypeOK,
         MetricsTypeOK, LocalsOK, device, Steps, PassSteps
<1>2. FlagsTypeOK'
  BY DEF Crash, TypeOK, FlagsTypeOK
<1>3. EnvTypeOK'
  <2>1. MaxCrashes \in Nat
    BY EnvironmentAssumption
  <2>2. QED BY <2>1 DEF Crash, TypeOK, EnvTypeOK, ApiTypeOK
<1>4. ApiTypeOK'
  BY DEF Crash, TypeOK, ApiTypeOK
<1>5. QED BY <1>1, <1>2, <1>3, <1>4 DEF TypeOK

(* The steps of a pass that only read and those that end it.               *)
LEMMA ReadStepsType ==
  ASSUME TypeOK, LocalsOK, Take \/ GetLB \/ GetSecret \/ ListNodes \/ Reget
  PROVE  TypeOK' /\ LocalsOK'
PROOF
<1>1. ApiTypeOK' /\ EnvTypeOK'
  BY DEF Take, GetLB, GetSecret, ListNodes, Reget, TypeOK, ApiTypeOK, EnvTypeOK, api,
         environment, cluster, bounds
<1>2. FlagsTypeOK'
  BY DEF Take, GetLB, GetSecret, ListNodes, Reget, Forget, Requeue, Continue, TypeOK,
         FlagsTypeOK, environment, cluster
<1>0. BackendTypeOK'
  BY FaultType
  DEF Take, GetLB, GetSecret, ListNodes, Reget, TypeOK, BackendTypeOK, DeviceTypeOK,
      backend, device, frame
<1>3. CASE Take \/ GetLB \/ GetSecret
  <2>1. PassTypeOK' /\ LocalsOK'
    BY <1>3 DEF Take, GetLB, GetSecret, Forget, Requeue, EndPass, Continue, TypeOK, PassTypeOK,
                EnvTypeOK, LocalsOK, PassSteps, Objects
  <2>2. MetricsTypeOK'
    BY <1>3 DEF Take, GetLB, GetSecret, TypeOK, MetricsTypeOK, metrics
  <2>3. QED BY <1>0, <1>1, <1>2, <2>1, <2>2 DEF TypeOK
<1>4. CASE ListNodes
  <2>1. PassTypeOK' /\ LocalsOK'
    BY <1>4 DEF ListNodes, Requeue, EndPass, TypeOK, PassTypeOK, EnvTypeOK, LocalsOK, PassSteps
  <2>2. MetricsTypeOK'
    BY <1>4, SpecType DEF ListNodes, TypeOK, MetricsTypeOK, LocalsOK
  <2>3. QED BY <1>0, <1>1, <1>2, <2>1, <2>2 DEF TypeOK
<1>5. CASE Reget
  <2>1. lb' \in Objects
    <3>1. PICK o \in Objects : NewStatus(o)
      BY <1>5 DEF Reget, TypeOK, EnvTypeOK, LocalsOK
    <3>2. o.spec.ports \in Seq(Ports) /\ cfg.ports \in Seq(Ports)
          /\ cfg.monitor \in Monitors /\ cfg.vip \in IPs /\ hosts \in SUBSET Hosts
      BY <1>5, SpecType DEF Reget, TypeOK, PassTypeOK, LocalsOK, Objects
    <3>3. [monitor |-> cfg.monitor, ip |-> cfg.vip, handled |-> cfg.ports,
           members |-> hosts, ports |-> o.spec.ports] \in Statuses
      BY <3>2 DEF Statuses
    <3>4. QED BY <3>1, <3>3 DEF NewStatus, Objects
  <2>2. PassTypeOK' /\ LocalsOK' /\ MetricsTypeOK'
    BY <1>5, <2>1 DEF Reget, TypeOK, PassTypeOK, MetricsTypeOK, LocalsOK, PassSteps, metrics
  <2>3. QED BY <1>0, <1>1, <1>2, <2>2 DEF TypeOK
<1>6. QED BY <1>3, <1>4, <1>5

(* The steps around the backend's operations.                              *)
LEMMA CallStepsType ==
  ASSUME TypeOK, LocalsOK,
         Connect \/ ConnectForCleanup \/ BackendFailed \/ MonitorDone \/ PoolDone \/ VIPDone
           \/ Close \/ CleanupDone
  PROVE  TypeOK' /\ LocalsOK'
PROOF
<1>1. ApiTypeOK' /\ EnvTypeOK' /\ MetricsTypeOK'
  BY DEF Connect, ConnectForCleanup, BackendFailed, MonitorDone, PoolDone, VIPDone, Close,
         CleanupDone, TypeOK, ApiTypeOK, EnvTypeOK, MetricsTypeOK, api, environment, cluster,
         bounds, metrics
<1>2. FlagsTypeOK'
  BY DEF Connect, ConnectForCleanup, BackendFailed, MonitorDone, PoolDone, VIPDone, Close,
         CleanupDone, Requeue, Continue, TypeOK, FlagsTypeOK, environment, cluster
<1>3. BackendTypeOK'
  BY FaultType
  DEF Connect, ConnectForCleanup, BackendFailed, MonitorDone, PoolDone, VIPDone, Close,
      CleanupDone, Call, TypeOK, BackendTypeOK, DeviceTypeOK, device, frame, Steps
<1>4. PassTypeOK' /\ LocalsOK'
  <2>0. CASE Connect
    <3>1. [lb EXCEPT !.named = TRUE] \in Objects /\ cfg \in Specs
      BY <2>0 DEF Connect, LocalsOK, Objects
    <3>2. \/ pc' = "monitor" /\ lb' \in Objects /\ UNCHANGED <<cfg, hosts, idx>>
          \/ EndPass
      BY <2>0, <3>1 DEF Connect, Requeue
    <3>3. QED BY <3>1, <3>2 DEF EndPass, TypeOK, PassTypeOK, LocalsOK, PassSteps
  <2>1. CASE ConnectForCleanup \/ BackendFailed \/ Close \/ CleanupDone
    BY <2>1
    DEF ConnectForCleanup, BackendFailed, Close, CleanupDone, Requeue, EndPass,
        Continue, TypeOK, PassTypeOK, LocalsOK, PassSteps
  <2>2. CASE MonitorDone \/ PoolDone \/ VIPDone
    <3>1. cfg \in Specs /\ Len(cfg.ports) \in Nat \ {0}
      BY <2>2, SpecType DEF MonitorDone, PoolDone, VIPDone, LocalsOK
    <3>2. QED
      BY <2>2, <3>1 DEF MonitorDone, PoolDone, VIPDone, TypeOK, PassTypeOK, LocalsOK, PassSteps
  <2>3. QED BY <2>0, <2>1, <2>2
<1>5. QED BY <1>1, <1>2, <1>3, <1>4 DEF TypeOK

LEMMA InBackendType ==
  ASSUME TypeOK, LocalsOK, InBackend
  PROVE  TypeOK' /\ LocalsOK'
PROOF
<1>1. ApiTypeOK' /\ PassTypeOK' /\ EnvTypeOK' /\ MetricsTypeOK' /\ LocalsOK'
  BY DEF InBackend, TypeOK, ApiTypeOK, PassTypeOK, EnvTypeOK, MetricsTypeOK, LocalsOK, api,
         locals, environment, cluster, bounds, metrics
<1>2. FlagsTypeOK'
  BY DEF InBackend, TypeOK, FlagsTypeOK, environment, cluster
<1>3. BackendTypeOK'
  <2>1. CASE pc = "monitor" /\ HandleMonitors(cfg.monitor)
    BY <2>1, SpecType, HandleMonitorsType DEF TypeOK, LocalsOK
  <2>2. CASE pc = "pools" /\ HandlePool(cfg.ports[idx], hosts)
    BY <2>2, SpecType, HandlePoolType DEF TypeOK, PassTypeOK, LocalsOK
  <2>3. CASE pc = "vips" /\ HandleVIP(cfg.ports[idx], cfg.vip)
    BY <2>3, SpecType, HandleVIPType DEF TypeOK, LocalsOK
  <2>4. CASE pc = "cleanup" /\ HandleCleanup(lb.status)
    BY <2>4, HandleCleanupType DEF TypeOK, LocalsOK, Objects
  <2>5. QED BY <2>1, <2>2, <2>3, <2>4 DEF InBackend
<1>4. QED BY <1>1, <1>2, <1>3 DEF TypeOK

LEMMA WriteStatusType ==
  ASSUME ApiTypeOK, lb \in Objects, obj \in Objects, WriteStatus
  PROVE  ApiTypeOK' /\ obj' \in Objects
PROOF
<1>1. [obj EXCEPT !.status = lb.status] \in Objects
  BY DEF Objects
<1>2. QED BY <1>1, StoreType DEF WriteStatus, ApiTypeOK, api

(* The steps that write to the API server or remove the metric.            *)
LEMMA WriteStepsType ==
  ASSUME TypeOK, LocalsOK,
         UpdateStatus \/ CloseAfterCleanup \/ RemoveFinalizer \/ AddFinalizer
  PROVE  TypeOK' /\ LocalsOK'
PROOF
<1>1. EnvTypeOK' /\ MetricsTypeOK'
  BY DEF UpdateStatus, CloseAfterCleanup, RemoveFinalizer, AddFinalizer, Update, TypeOK,
         EnvTypeOK, MetricsTypeOK, environment, cluster, bounds, metrics
<1>2. FlagsTypeOK'
  BY DEF UpdateStatus, CloseAfterCleanup, RemoveFinalizer, AddFinalizer, Update, Requeue,
         Forget, Continue, TypeOK, FlagsTypeOK, environment, cluster
<1>3. BackendTypeOK'
  BY FaultType
  DEF UpdateStatus, CloseAfterCleanup, RemoveFinalizer, AddFinalizer, Update, TypeOK,
      BackendTypeOK, DeviceTypeOK, device, frame
<1>4. ApiTypeOK' /\ PassTypeOK' /\ LocalsOK'
  <2>1. CASE CloseAfterCleanup
    BY <2>1 DEF CloseAfterCleanup, Requeue, EndPass, Continue, TypeOK, ApiTypeOK, PassTypeOK,
                LocalsOK, PassSteps, api
  <2>2. CASE UpdateStatus
    <3>1. lb \in Objects
      BY <2>2 DEF UpdateStatus, LocalsOK
    <3>2. ASSUME ~Conflict, WriteStatus PROVE ApiTypeOK' /\ obj' \in Objects
      <4>1. obj \in Objects
        BY <3>2 DEF Conflict, TypeOK, ApiTypeOK
      <4>2. QED BY <3>1, <3>2, <4>1, WriteStatusType DEF TypeOK
    <3>3. ApiTypeOK'
      BY <2>2, <3>2 DEF UpdateStatus, TypeOK, ApiTypeOK, api
    <3>4. PassTypeOK' /\ LocalsOK'
      BY <2>2, <3>1, <3>2, AnswerType
      DEF UpdateStatus, Requeue, Forget, EndPass, TypeOK, PassTypeOK, LocalsOK, PassSteps
    <3>5. QED BY <3>3, <3>4
  <2>3. CASE RemoveFinalizer \/ AddFinalizer
    <3>1. PICK f \in BOOLEAN : Update(f)
      BY <2>3 DEF RemoveFinalizer, AddFinalizer
    <3>2. lb \in Objects
      BY <2>3 DEF RemoveFinalizer, AddFinalizer, LocalsOK
    <3>3. ASSUME ~Conflict,
                 StoreOrRemove([obj EXCEPT !.spec = lb.spec, !.named = lb.named, !.fin = f])
          PROVE  ApiTypeOK'
      <4>1. obj \in Objects
        BY <3>3 DEF Conflict, TypeOK, ApiTypeOK
      <4>2. [obj EXCEPT !.spec = lb.spec, !.named = lb.named, !.fin = f] \in Objects
        BY <3>2, <4>1 DEF Objects
      <4>3. QED BY <3>3, <4>2, StoreOrRemoveType DEF TypeOK
    <3>4. ApiTypeOK'
      BY <3>1, <3>3 DEF Update, TypeOK, ApiTypeOK, api
    <3>5. PassTypeOK' /\ LocalsOK'
      BY <3>1 DEF Update, Requeue, Forget, EndPass, TypeOK, PassTypeOK, LocalsOK, PassSteps
    <3>6. QED BY <3>4, <3>5
  <2>4. QED BY <2>1, <2>2, <2>3
<1>5. QED BY <1>1, <1>2, <1>3, <1>4 DEF TypeOK

LEMMA StutterType ==
  ASSUME TypeOK, LocalsOK, UNCHANGED vars
  PROVE  TypeOK' /\ LocalsOK'
PROOF
<1>1. BackendTypeOK' /\ ApiTypeOK' /\ PassTypeOK' /\ EnvTypeOK' /\ MetricsTypeOK' /\ LocalsOK'
  BY DEF vars, TypeOK, BackendTypeOK, DeviceTypeOK, ApiTypeOK, PassTypeOK, EnvTypeOK,
         MetricsTypeOK, LocalsOK, backend, device, frame, api, locals, metrics, cluster, bounds
<1>2. FlagsTypeOK'
  BY DEF vars, TypeOK, FlagsTypeOK, cluster
<1>3. QED BY <1>1, <1>2 DEF TypeOK

(* Every reachable state of the operator and its environment is well       *)
(* typed, and every pass works on locals that are set: Reconcile never     *)
(* uses an lb or a port index it has not read.                             *)
THEOREM TypeCorrect == Spec => [](TypeOK /\ LocalsOK)
PROOF
<1>1. ASSUME Init PROVE TypeOK /\ LocalsOK
  BY <1>1, InitTypeOK
<1>2. ASSUME TypeOK /\ LocalsOK, [Next]_vars PROVE TypeOK' /\ LocalsOK'
  <2>1. CASE Reconcile
    BY <1>2, <2>1, ReadStepsType, CallStepsType, InBackendType, WriteStepsType DEF Reconcile
  <2>2. CASE UNCHANGED vars
    BY <1>2, <2>2, StutterType
  <2>3. QED
    BY <1>2, <2>1, <2>2, UserType, RestoreSecretType, ForeignReleaseType, DeliverType,
       NodesType, CrashType DEF Next
<1>3. QED BY <1>1, <1>2, PTL DEF Spec

----------------------------------------------------------------------------
(* The finalizer and HandleCleanup together leave nothing on the device.   *)

(* The conditions the operator needs; a configuration of MCReconciler      *)
(* shows what goes wrong without each: nobody deletes an object before its *)
(* first pass has added the finalizer, no pass starts from the cached copy *)
(* of an object that is gone, no other controller's finalizer keeps the    *)
(* object after ours is removed, and users never drop a port.              *)
CleanupConditions ==
  /\ EarlyDelete = FALSE
  /\ GhostReads = FALSE
  /\ ForeignFinalizer = FALSE
  /\ \A s \in Specs : \A p \in Ports : \E i \in DOMAIN s.ports : s.ports[i] = p

GoneIsClean == obj = None => DeviceEmpty /\ pc \in {"idle", "get"}

OnlyOurFinalizer == obj # None => obj.foreign = FALSE

(* From the second read on, lb's status lists all that may be configured.  *)
StatusCovers ==
  pc \in {"status", "fconnect", "cleanup", "fclose", "rmFinalizer"} => Covers(lb.status)

CleanupProgress == pc = "cleanup" /\ result = "none" => Cleaned(lb.status)

CleanedUp ==
  (pc = "cleanup" /\ result = "ok") \/ pc \in {"fclose", "rmFinalizer"} => DeviceEmpty

OrphanInv ==
  GoneIsClean /\ OnlyOurFinalizer /\ StatusCovers /\ CleanupProgress /\ CleanedUp

----------------------------------------------------------------------------
LEMMA InitOrphan ==
  ASSUME Init PROVE OrphanInv
  BY DEF Init, BackendInit, FrameInit, DeviceEmpty, OrphanInv, GoneIsClean, OnlyOurFinalizer,
         StatusCovers, CleanupProgress, CleanedUp

(* A write that keeps the object is a write to an object whose other       *)
(* fields are those given.                                                 *)
LEMMA StoreKeeps ==
  ASSUME NEW o \in Objects, Store(o)
  PROVE  obj' # None /\ obj'.foreign = o.foreign /\ obj'.status = o.status
PROOF
<1>0. NewVersion \in Nat
  BY NewVersionFresh DEF Store
<1>1. Version(o) \in Objects /\ Version(o).foreign = o.foreign /\ Version(o).status = o.status
  BY <1>0 DEF Version, Objects
<1>2. QED BY <1>1, NoneAssumption DEF Store

(* Steps that leave the object, the device and the pass alone.             *)
LEMMA QuietOrphan ==
  ASSUME OrphanInv, UNCHANGED <<obj, device, frame, pc, lb>>
  PROVE  OrphanInv'
  BY DEF OrphanInv, GoneIsClean, OnlyOurFinalizer, StatusCovers, CleanupProgress, CleanedUp,
         DeviceEmpty, DeviceInit, Covers, Cleaned, PortClean, device, frame

(* Users cannot remove an object that has our finalizer.                   *)
LEMMA UserOrphan ==
  ASSUME CleanupConditions, TypeOK, OrphanInv, User
  PROVE  OrphanInv'
PROOF
<1>1. UNCHANGED <<device, frame, pc, lb>>
  BY DEF User, UserCreate, UserUpdate, UserDelete, LoseSecret, UserOp, backend, locals
<1>2. CASE LoseSecret
  BY <1>1, <1>2, QuietOrphan DEF LoseSecret, api
<1>3. CASE ~LoseSecret
  <2>1. obj' # None /\ obj'.foreign = FALSE
    <3>1. CASE UserCreate
      <4>1. PICK s \in Specs, f \in BOOLEAN :
              /\ f => ForeignFinalizer
              /\ Store([rv |-> 0, spec |-> s, named |-> FALSE, status |-> EmptyStatus,
                        fin |-> FALSE, foreign |-> f, deleting |-> FALSE])
        BY <3>1 DEF UserCreate
      <4>2. [rv |-> 0, spec |-> s, named |-> FALSE, status |-> EmptyStatus, fin |-> FALSE,
             foreign |-> f, deleting |-> FALSE] \in Objects
        BY DEF Objects, EmptyStatus, Statuses
      <4>3. f = FALSE
        BY <4>1 DEF CleanupConditions
      <4>4. QED BY <4>1, <4>2, <4>3, StoreKeeps DEF TypeOK, ApiTypeOK
    <3>2. CASE UserUpdate
      <4>1. PICK s \in Specs, n \in {obj.named, FALSE} : Store([obj EXCEPT !.spec = s, !.named = n])
        BY <3>2 DEF UserUpdate
      <4>2. obj \in Objects /\ obj.foreign = FALSE
        BY <3>2 DEF UserUpdate, TypeOK, ApiTypeOK, OrphanInv, OnlyOurFinalizer
      <4>3. /\ [obj EXCEPT !.spec = s, !.named = n] \in Objects
            /\ [obj EXCEPT !.spec = s, !.named = n].foreign = FALSE
        BY <4>2 DEF Objects
      <4>4. QED BY <4>1, <4>3, StoreKeeps DEF TypeOK, ApiTypeOK
    <3>3. CASE UserDelete
      <4>1. obj \in Objects /\ obj.foreign = FALSE /\ obj.fin
        BY <3>3
        DEF UserDelete, CleanupConditions, TypeOK, ApiTypeOK, OrphanInv, OnlyOurFinalizer
      <4>2. /\ [obj EXCEPT !.deleting = TRUE] \in Objects
            /\ [obj EXCEPT !.deleting = TRUE].foreign = FALSE
            /\ [obj EXCEPT !.deleting = TRUE].fin
        BY <4>1 DEF Objects
      <4>3. Store([obj EXCEPT !.deleting = TRUE])
        BY <3>3, <4>2 DEF UserDelete, StoreOrRemove
      <4>4. QED BY <4>2, <4>3, StoreKeeps DEF TypeOK, ApiTypeOK
    <3>4. QED BY <1>3, <3>1, <3>2, <3>3 DEF User
  <2>2. QED
    BY <1>1, <2>1
    DEF OrphanInv, GoneIsClean, OnlyOurFinalizer, StatusCovers, CleanupProgress, CleanedUp,
        DeviceEmpty, DeviceInit, Covers, Cleaned, PortClean, device, frame
<1>4. QED BY <1>2, <1>3

(* The other environment steps.                                            *)
LEMMA EnvironmentOrphan ==
  ASSUME OrphanInv, RestoreSecret \/ ForeignRelease \/ Deliver \/ NodeChange \/ NodeNotify
  PROVE  OrphanInv'
PROOF
<1>1. ~ForeignRelease
  BY DEF ForeignRelease, OrphanInv, OnlyOurFinalizer
<1>2. UNCHANGED <<obj, device, frame, pc, lb>>
  BY <1>1 DEF RestoreSecret, Deliver, NodeChange, NodeNotify, backend, locals, api
<1>3. QED BY <1>2, QuietOrphan

(* Ending a pass is always safe as long as object and device stay.         *)
LEMMA EndOrphan ==
  ASSUME OrphanInv, UNCHANGED <<obj, device>>, pc' = "idle"
  PROVE  OrphanInv'
  BY DEF OrphanInv, GoneIsClean, OnlyOurFinalizer, StatusCovers, CleanupProgress, CleanedUp,
         DeviceEmpty, DeviceInit, device

(* Up to the second read, a pass only runs while the object exists.        *)
LEMMA EarlyStepsOrphan ==
  ASSUME CleanupConditions, TypeOK, OrphanInv,
         Take \/ GetLB \/ GetSecret \/ ListNodes \/ Connect \/ BackendFailed \/ MonitorDone
           \/ PoolDone \/ VIPDone \/ Close
  PROVE  OrphanInv'
PROOF
<1>1. UNCHANGED <<obj, device>>
  BY DEF Take, GetLB, GetSecret, ListNodes, Connect, BackendFailed, MonitorDone, PoolDone,
         VIPDone, Close, api, backend
<1>2. \/ pc' \in {"idle", "get"}
      \/ obj # None /\ pc' \in {"secret", "nodes", "connect", "monitor", "pools", "vips",
                                "close", "reget"}
  BY DEF Take, GetLB, GetSecret, ListNodes, Connect, BackendFailed, MonitorDone, PoolDone,
         VIPDone, Close, Requeue, Forget, EndPass, Continue, CleanupConditions, OrphanInv,
         GoneIsClean
<1>3. QED
  BY <1>1, <1>2
  DEF OrphanInv, GoneIsClean, OnlyOurFinalizer, StatusCovers, CleanupProgress, CleanedUp,
      DeviceEmpty, DeviceInit, device

LEMMA InBackendOrphan ==
  ASSUME TypeOK, LocalsOK, OrphanInv, InBackend
  PROVE  OrphanInv'
PROOF
<1>1. /\ UNCHANGED <<obj, lb, pc>> /\ result = "none" /\ obj # None
      /\ pc \in {"monitor", "pools", "vips", "cleanup"}
  BY DEF InBackend, api, locals, OrphanInv, GoneIsClean
<1>2. CASE pc # "cleanup"
  BY <1>1, <1>2
  DEF OrphanInv, GoneIsClean, OnlyOurFinalizer, StatusCovers, CleanupProgress, CleanedUp
<1>3. CASE pc = "cleanup"
  <2>1. lb.status \in Statuses /\ Covers(lb.status) /\ Cleaned(lb.status)
    BY <1>1, <1>3 DEF LocalsOK, Objects, OrphanInv, StatusCovers, CleanupProgress
  <2>2. HandleCleanup(lb.status)
    BY <1>3 DEF InBackend
  <2>3. /\ result' = "none" => Cleaned(lb.status)'
        /\ result' = "ok" => DeviceEmpty'
    BY <1>1, <2>1, <2>2, HandleCleanupEmpties DEF TypeOK, Cleaned
  <2>4. Covers(lb'.status)
    BY <1>1, <2>1
  <2>5. QED
    BY <1>1, <1>3, <2>3, <2>4
    DEF OrphanInv, GoneIsClean, OnlyOurFinalizer, StatusCovers, CleanupProgress, CleanedUp
<1>4. QED BY <1>2, <1>3

(* The new status lists the ports of the spec the pass worked for.         *)
LEMMA RegetOrphan ==
  ASSUME CleanupConditions, TypeOK, LocalsOK, OrphanInv, Reget
  PROVE  OrphanInv'
PROOF
<1>1. UNCHANGED <<obj, device>> /\ obj # None /\ pc' = "status"
  BY DEF Reget, api, OrphanInv, GoneIsClean
<1>2. PICK o \in Objects : NewStatus(o)
  BY DEF Reget, TypeOK, EnvTypeOK, LocalsOK
<1>3. lb'.status.monitor = cfg.monitor /\ lb'.status.handled = cfg.ports
  BY <1>2 DEF NewStatus, Objects
<1>4. cfg \in Specs /\ cfg.monitor # None
  BY SpecType, ProviderConstants DEF Reget, LocalsOK
<1>5. Covers(lb'.status)
  BY <1>3, <1>4 DEF Covers, CleanupConditions
<1>6. QED
  BY <1>1, <1>5
  DEF OrphanInv, GoneIsClean, OnlyOurFinalizer, StatusCovers, CleanupProgress, CleanedUp, device

LEMMA UpdateStatusOrphan ==
  ASSUME TypeOK, LocalsOK, OrphanInv, UpdateStatus
  PROVE  OrphanInv'
PROOF
<1>1. UNCHANGED device /\ obj # None /\ lb \in Objects /\ Covers(lb.status)
  BY DEF UpdateStatus, OrphanInv, GoneIsClean, StatusCovers, LocalsOK
<1>2. obj \in Objects /\ obj.foreign = FALSE
  BY <1>1 DEF TypeOK, ApiTypeOK, OrphanInv, OnlyOurFinalizer
<1>3. ASSUME WriteStatus
      PROVE  obj' # None /\ obj'.foreign = FALSE /\ obj'.status = lb.status
  <2>1. /\ [obj EXCEPT !.status = lb.status] \in Objects
        /\ [obj EXCEPT !.status = lb.status].foreign = FALSE
        /\ [obj EXCEPT !.status = lb.status].status = lb.status
    BY <1>1, <1>2 DEF Objects
  <2>2. QED BY <1>1, <1>2, <1>3, <2>1, StoreKeeps DEF WriteStatus, api, TypeOK, ApiTypeOK
<1>4. obj' # None /\ obj'.foreign = FALSE
  BY <1>1, <1>2, <1>3 DEF UpdateStatus, api
<1>5. \/ pc' \in {"idle", "addFinalizer"}
      \/ pc' = "fconnect" /\ Covers(lb'.status)
  <2>1. ASSUME WriteStatus PROVE Answer.status = lb.status
    BY <1>1, <1>2, <1>3, <2>1, AnswerType, WriteStatusType DEF TypeOK
  <2>2. QED BY <1>1, <2>1 DEF UpdateStatus, Requeue, Forget, EndPass
<1>6. QED
  BY <1>4, <1>5
  DEF OrphanInv, GoneIsClean, OnlyOurFinalizer, StatusCovers, CleanupProgress, CleanedUp

(* The steps of finalizeLoadBalancer around HandleCleanup.                 *)
LEMMA FinalizeOrphan ==
  ASSUME LocalsOK, OrphanInv, ConnectForCleanup \/ CleanupDone \/ CloseAfterCleanup
  PROVE  OrphanInv'
PROOF
<1>1. UNCHANGED <<obj, device>> /\ obj # None /\ Covers(lb.status)
  BY DEF ConnectForCleanup, CleanupDone, CloseAfterCleanup, api, OrphanInv, GoneIsClean,
         StatusCovers
<1>2. CASE pc' = "idle"
  BY <1>1, <1>2, EndOrphan
<1>3. CASE ConnectForCleanup /\ pc' # "idle"
  <2>1. pc' = "cleanup" /\ lb' = lb /\ step' = "cleanVIPs" /\ at' = 1
    BY <1>3 DEF ConnectForCleanup, Continue, Call, Requeue, EndPass
  <2>2. Cleaned(lb.status)'
    <3>1. lb.status.handled \in Seq(Ports)
      BY <1>3 DEF ConnectForCleanup, LocalsOK, Objects, Statuses
    <3>2. \A i \in DOMAIN lb'.status.handled : ~(i < 1)
      BY <2>1, <3>1
    <3>3. QED BY <2>1, <3>2 DEF Cleaned, CleanSteps
  <2>3. result' = "none"
    BY <1>3 DEF ConnectForCleanup, Call, Requeue, EndPass
  <2>4. QED
    BY <1>1, <2>1, <2>2, <2>3
    DEF OrphanInv, GoneIsClean, OnlyOurFinalizer, StatusCovers, CleanupProgress, CleanedUp
<1>4. CASE (CleanupDone \/ CloseAfterCleanup) /\ pc' # "idle"
  <2>1. pc' \in {"fclose", "rmFinalizer"} /\ lb' = lb /\ DeviceEmpty
    BY <1>4
    DEF CleanupDone, CloseAfterCleanup, Continue, Requeue, EndPass, OrphanInv, CleanedUp
  <2>2. DeviceEmpty'
    BY <1>1, <2>1 DEF DeviceEmpty, DeviceInit, device
  <2>3. QED
    BY <1>1, <2>1, <2>2
    DEF OrphanInv, GoneIsClean, OnlyOurFinalizer, StatusCovers, CleanupProgress, CleanedUp
<1>5. QED BY <1>2, <1>3, <1>4

(* The finalizer is only removed from an object whose device is empty.     *)
LEMMA FinalizerOrphan ==
  ASSUME TypeOK, LocalsOK, OrphanInv, RemoveFinalizer \/ AddFinalizer
  PROVE  OrphanInv'
PROOF
<1>1. /\ UNCHANGED device /\ pc' = "idle" /\ obj # None /\ lb \in Objects
      /\ obj \in Objects /\ obj.foreign = FALSE
  BY DEF RemoveFinalizer, AddFinalizer, Update, Requeue, Forget, EndPass, LocalsOK, TypeOK,
         ApiTypeOK, OrphanInv, GoneIsClean, OnlyOurFinalizer
<1>2. CASE UNCHANGED obj
  BY <1>1, <1>2, EndOrphan
<1>3. ASSUME NEW f \in BOOLEAN,
             StoreOrRemove([obj EXCEPT !.spec = lb.spec, !.named = lb.named, !.fin = f]),
             f = FALSE => DeviceEmpty
      PROVE  OrphanInv'
  <2>1. /\ [obj EXCEPT !.spec = lb.spec, !.named = lb.named, !.fin = f] \in Objects
        /\ [obj EXCEPT !.spec = lb.spec, !.named = lb.named, !.fin = f].foreign = FALSE
        /\ [obj EXCEPT !.spec = lb.spec, !.named = lb.named, !.fin = f].fin = f
    BY <1>1 DEF Objects
  <2>2. CASE Store([obj EXCEPT !.spec = lb.spec, !.named = lb.named, !.fin = f])
    <3>1. obj' # None /\ obj'.foreign = FALSE
      BY <2>1, <2>2, StoreKeeps DEF TypeOK, ApiTypeOK
    <3>2. QED
      BY <1>1, <3>1
      DEF OrphanInv, GoneIsClean, OnlyOurFinalizer, StatusCovers, CleanupProgress, CleanedUp
  <2>3. CASE Remove /\ f = FALSE
    <3>1. DeviceEmpty'
      BY <1>1, <1>3, <2>3 DEF DeviceEmpty, DeviceInit, device
    <3>2. QED
      BY <1>1, <2>3, <3>1
      DEF Remove, OrphanInv, GoneIsClean, OnlyOurFinalizer, StatusCovers, CleanupProgress,
          CleanedUp
  <2>4. QED BY <1>3, <2>1, <2>2, <2>3 DEF StoreOrRemove
<1>4. CASE RemoveFinalizer
  <2>1. DeviceEmpty
    BY <1>4 DEF RemoveFinalizer, OrphanInv, CleanedUp
  <2>2. QED BY <1>2, <1>3, <1>4, <2>1 DEF RemoveFinalizer, Update, api
<1>5. CASE AddFinalizer
  BY <1>2, <1>3, <1>5 DEF AddFinalizer, Update, api
<1>6. QED BY <1>4, <1>5

LEMMA CrashOrphan ==
  ASSUME OrphanInv, Crash
  PROVE  OrphanInv'
  BY EndOrphan DEF Crash, EndPass

(* No step breaks the invariant.                                           *)
LEMMA OrphanHolds == CleanupConditions => (Spec => []OrphanInv)
PROOF
<1> SUFFICES ASSUME CleanupConditions PROVE Spec => []OrphanInv
  OBVIOUS
<1>1. Init => OrphanInv
  BY InitOrphan
<1>2. TypeOK /\ LocalsOK /\ OrphanInv /\ [Next]_vars => OrphanInv'
  <2> SUFFICES ASSUME TypeOK, LocalsOK, OrphanInv, [Next]_vars PROVE OrphanInv'
    OBVIOUS
  <2>1. CASE Reconcile
    BY <2>1, EarlyStepsOrphan, InBackendOrphan, RegetOrphan, UpdateStatusOrphan,
       FinalizeOrphan, FinalizerOrphan DEF Reconcile
  <2>2. CASE UNCHANGED vars
    BY <2>2, QuietOrphan DEF vars, backend, api, locals
  <2>3. QED
    BY <2>1, <2>2, UserOrphan, EnvironmentOrphan, CrashOrphan DEF Next
<1>3. QED BY <1>1, <1>2, TypeCorrect, PTL DEF Spec

(* An object that is gone leaves nothing on the device: for any number of  *)
(* failed requests, lost answers, crashes, stale reads and conflicting     *)
(* writes, and for any ports, nodes and specs, the finalizer holds the     *)
(* object until HandleCleanup has removed everything.                      *)
THEOREM NothingOrphaned == CleanupConditions => (Spec => []NoOrphans)
PROOF
<1>1. OrphanInv => NoOrphans
  BY DEF OrphanInv, GoneIsClean, NoOrphans
<1>2. QED BY <1>1, OrphanHolds, PTL

----------------------------------------------------------------------------
(* The series of metric externallb_nodes.                                  *)

(* A finalizing pass removes the series of the last spec only, so no user  *)
(* may have changed the address or the ports (MCSpecChange.cfg).           *)
SameLabels == \A s, t \in Specs : Labels(s) = Labels(t)

SeriesOfSpecs == \A x \in series : \E s \in Specs : x = Labels(s)

SeriesRemoved == obj = None \/ pc = "rmFinalizer" => series = {}

SeriesInv == SeriesOfSpecs /\ SeriesRemoved

(* Our finalizer keeps the object while it may have a series.              *)
LEMMA ObjectKept ==
  ASSUME CleanupConditions, TypeOK, LocalsOK, OrphanInv, [Next]_vars, obj # None, obj' = None
  PROVE  RemoveFinalizer
PROOF
<1>1. obj \in Objects /\ obj.foreign = FALSE
  BY DEF TypeOK, ApiTypeOK, OrphanInv, OnlyOurFinalizer
<1>2. ~User
  BY UserOrphan, <1>1, StoreKeeps
  DEF User, UserCreate, UserUpdate, UserDelete, LoseSecret, CleanupConditions, TypeOK, ApiTypeOK,
      Objects, api, StoreOrRemove
<1>3. ~ForeignRelease
  BY <1>1 DEF ForeignRelease
<1>4. ~UpdateStatus
  <2>1. ASSUME UpdateStatus, WriteStatus PROVE FALSE
    <3>1. [obj EXCEPT !.status = lb.status] \in Objects
      BY <1>1, <2>1 DEF UpdateStatus, LocalsOK, Objects
    <3>2. QED BY <2>1, <3>1, StoreKeeps DEF WriteStatus, api, TypeOK, ApiTypeOK
  <2>2. QED BY <2>1 DEF UpdateStatus, api
<1>5. ~AddFinalizer
  <2>1. ASSUME AddFinalizer PROVE FALSE
    <3>1. /\ [obj EXCEPT !.spec = lb.spec, !.named = lb.named, !.fin = TRUE] \in Objects
          /\ [obj EXCEPT !.spec = lb.spec, !.named = lb.named, !.fin = TRUE].fin
      BY <1>1, <2>1 DEF AddFinalizer, LocalsOK, Objects
    <3>2. QED
      BY <2>1, <3>1, StoreKeeps DEF AddFinalizer, Update, StoreOrRemove, api, TypeOK, ApiTypeOK
  <2>2. QED BY <2>1
<1>6. QED
  BY <1>2, <1>3, <1>4, <1>5
  DEF Next, Reconcile, RestoreSecret, Deliver, NodeChange, NodeNotify, Crash,
      Take, GetLB, GetSecret, ListNodes, Connect, InBackend, BackendFailed, MonitorDone,
      PoolDone, VIPDone, Close, Reget, ConnectForCleanup, CleanupDone, CloseAfterCleanup, api,
      vars

LEMMA SeriesStep ==
  ASSUME CleanupConditions, SameLabels, TypeOK, LocalsOK, OrphanInv, SeriesInv, [Next]_vars
  PROVE  SeriesInv'
PROOF
<1>1. CASE ListNodes
  <2>1. obj' = obj /\ obj # None /\ pc' \in {"idle", "connect"} /\ cfg \in Specs
    BY <1>1 DEF ListNodes, Requeue, EndPass, api, OrphanInv, GoneIsClean, LocalsOK
  <2>2. series' \subseteq series \cup {Labels(cfg)}
    BY <1>1 DEF ListNodes
  <2>3. QED BY <2>1, <2>2 DEF SeriesInv, SeriesOfSpecs, SeriesRemoved
<1>2. CASE CloseAfterCleanup
  <2>1. obj' = obj /\ obj # None /\ lb.spec \in Specs
    BY <1>2 DEF CloseAfterCleanup, api, OrphanInv, GoneIsClean, LocalsOK, Objects
  <2>2. \/ pc' = "idle" /\ series' = series
        \/ series' = series \ {Labels(lb.spec)}
    BY <1>2 DEF CloseAfterCleanup, Requeue, EndPass
  <2>3. series \ {Labels(lb.spec)} = {}
    BY <2>1 DEF SameLabels, SeriesInv, SeriesOfSpecs
  <2>4. QED BY <2>1, <2>2, <2>3 DEF SeriesInv, SeriesOfSpecs, SeriesRemoved
<1>3. CASE Crash
  BY <1>3 DEF Crash, SeriesInv, SeriesOfSpecs, SeriesRemoved
<1>4. CASE ~ListNodes /\ ~CloseAfterCleanup /\ ~Crash
  <2>1. series' = series
    BY <1>4
    DEF Next, Reconcile, User, UserCreate, UserUpdate, UserDelete, LoseSecret, UserOp,
        RestoreSecret, ForeignRelease, Deliver, NodeChange, NodeNotify,
        Take, GetLB, GetSecret, Connect, InBackend, BackendFailed, MonitorDone,
        PoolDone, VIPDone, Close, Reget, UpdateStatus, ConnectForCleanup, CleanupDone,
        RemoveFinalizer, AddFinalizer, Update, metrics, vars
  <2>2. pc' = "rmFinalizer" => pc = "rmFinalizer"
    BY <1>4
    DEF Next, Reconcile, User, UserCreate, UserUpdate, UserDelete, LoseSecret, UserOp,
        RestoreSecret, ForeignRelease, Deliver, NodeChange, NodeNotify,
        Take, GetLB, GetSecret, Connect, InBackend, BackendFailed, MonitorDone,
        PoolDone, VIPDone, Close, Reget, UpdateStatus, ConnectForCleanup, CleanupDone,
        RemoveFinalizer, AddFinalizer, Update, Requeue, Forget, EndPass, Continue, locals, vars
  <2>3. obj' = None => obj = None \/ pc = "rmFinalizer"
    BY ObjectKept DEF RemoveFinalizer
  <2>4. QED BY <2>1, <2>2, <2>3 DEF SeriesInv, SeriesOfSpecs, SeriesRemoved
<1>5. QED BY <1>1, <1>2, <1>3, <1>4

(* A finalized object leaves no series behind: as long as nobody changed   *)
(* the labels of the series, the pass that removes the finalizer has       *)
(* removed the series before, whatever failed or crashed in between.       *)
THEOREM NoSeriesLeft == CleanupConditions /\ SameLabels => (Spec => []NoStaleSeries)
PROOF
<1> SUFFICES ASSUME CleanupConditions, SameLabels PROVE Spec => []NoStaleSeries
  OBVIOUS
<1>1. Init => SeriesInv
  BY DEF Init, SeriesInv, SeriesOfSpecs, SeriesRemoved
<1>2. TypeOK /\ LocalsOK /\ OrphanInv /\ SeriesInv /\ [Next]_vars => SeriesInv'
  BY SeriesStep
<1>3. SeriesInv => NoStaleSeries
  BY DEF SeriesInv, SeriesRemoved, NoStaleSeries
<1>4. QED BY <1>1, <1>2, <1>3, OrphanHolds, TypeCorrect, PTL DEF Spec
=============================================================================
