----------------------------- MODULE PassProofs -----------------------------
(***************************************************************************)
(* What a reconcile pass may rely on and what it achieves: the safety      *)
(* properties of Reconciler that no particular environment is needed for,  *)
(* for every set of specs, ports, hosts and addresses and any number of    *)
(* failures, crashes, node changes and user operations.                    *)
(***************************************************************************)
EXTENDS ReconcilerProofs, SequenceTheorems

----------------------------------------------------------------------------
(* The object and its copies.                                              *)

(* A copy with the object's resourceVersion, wherever it is, has its spec, *)
(* with the monitor named if the object's is.                              *)
Agrees(c) ==
  c # None /\ obj # None /\ obj.rv = c.rv =>
    obj.spec = c.spec /\ (obj.named => c.named)

Versions ==
  /\ Agrees(obj) /\ Agrees(cache) /\ Agrees(lb)
  /\ \A i \in DOMAIN watch : Agrees(watch[i])

(* Finalizing only goes on while the object is being deleted and held by   *)
(* our finalizer.                                                          *)
Finalizing == {"fconnect", "cleanup", "fclose", "rmFinalizer"}

FinalizerHeld == pc \in Finalizing => obj # None /\ obj.deleting /\ obj.fin

(* What a write stores.                                                    *)
LEMMA StoreFields ==
  ASSUME NEW o \in Objects, Store(o), watch \in Seq(Objects \cup {None})
  PROVE  /\ obj' \in Objects /\ obj' # None /\ obj'.rv \notin Held
         /\ obj'.spec = o.spec /\ obj'.named = o.named /\ obj'.status = o.status
         /\ obj'.fin = o.fin /\ obj'.deleting = o.deleting /\ obj'.foreign = o.foreign
         /\ watch' = Append(watch, obj') /\ watch' # <<>>
PROOF
<1>0. NewVersion \in Nat /\ NewVersion \notin Held
  BY NewVersionFresh DEF Store
<1>1. /\ Version(o) \in Objects /\ Version(o).rv = NewVersion
      /\ Version(o).spec = o.spec /\ Version(o).named = o.named
      /\ Version(o).status = o.status
      /\ Version(o).fin = o.fin /\ Version(o).deleting = o.deleting
      /\ Version(o).foreign = o.foreign
  BY <1>0 DEF Version, Objects
<1>2. watch' # <<>>
  BY <1>1 DEF Store
<1>3. QED BY <1>0, <1>1, <1>2, NoneAssumption DEF Store

(* No copy has the version a write takes.                                  *)
LEMMA StoreVersions ==
  ASSUME TypeOK, Versions, NEW o \in Objects, Store(o), cache' = cache,
         \/ lb' = None \/ lb' = lb
         \/ lb'.spec = obj'.spec /\ (obj'.named => lb'.named)
  PROVE  Versions'
PROOF
<1>1. watch \in Seq(Objects \cup {None})
  BY DEF TypeOK, ApiTypeOK
<1>2. obj'.rv \notin Held /\ watch' = Append(watch, obj') /\ obj' \in Objects
  BY <1>1, StoreFields
<1>3. /\ \A c \in {obj, cache, lb} : c # None => c.rv # obj'.rv
      /\ \A i \in DOMAIN watch : watch[i] # None => watch[i].rv # obj'.rv
  BY <1>2 DEF Held
<1>4. Agrees(cache)' /\ Agrees(lb)' /\ Agrees(obj)'
  BY <1>3 DEF Agrees
<1>5. ASSUME NEW i \in DOMAIN watch' PROVE Agrees(watch[i])'
  <2>1. CASE i \in DOMAIN watch
    <3>1. watch'[i] = watch[i]
      BY <1>1, <1>2, <2>1
    <3>2. QED BY <1>3, <2>1, <3>1 DEF Agrees
  <2>2. CASE i \notin DOMAIN watch
    <3>1. watch'[i] = obj'
      BY <1>1, <1>2, <1>5, <2>2
    <3>2. QED BY <3>1 DEF Agrees
  <2>3. QED BY <2>1, <2>2
<1>6. QED BY <1>4, <1>5 DEF Versions

(* Nothing is left to agree with.                                          *)
LEMMA RemoveVersions ==
  ASSUME Remove PROVE Versions'
  BY DEF Remove, Versions, Agrees

(* A step that writes nothing at most copies one of the copies.            *)
LEMMA ReadVersions ==
  ASSUME Versions, UNCHANGED obj,
         cache' = cache \/ cache' = obj \/ (\E i \in DOMAIN watch : cache' = watch[i]),
         \A i \in DOMAIN watch' : \E j \in DOMAIN watch : watch'[i] = watch[j],
         \/ lb' = None
         \/ \E c \in {lb, cache} : /\ c # None /\ lb'.rv = c.rv /\ lb'.spec = c.spec
                                   /\ (c.named => lb'.named)
         \/ lb' = lb
         \/ lb'.spec = obj.spec /\ (obj.named => lb'.named)
  PROVE  Versions'
PROOF
<1>1. Agrees(obj)' /\ Agrees(cache)' /\ Agrees(lb)'
  BY DEF Versions, Agrees
<1>2. \A i \in DOMAIN watch' : Agrees(watch[i])'
  BY DEF Versions, Agrees
<1>3. QED BY <1>1, <1>2 DEF Versions

(* Users change the spec, but not what an ongoing finalization relies on.  *)
LEMMA UserObject ==
  ASSUME TypeOK, LocalsOK, Versions, FinalizerHeld, User
  PROVE  Versions' /\ FinalizerHeld' /\ userOps' # userOps
PROOF
<1>0. UserOp
  BY DEF User, UserCreate, UserUpdate, UserDelete, LoseSecret
<1>1. UNCHANGED <<cache, pc, lb>> /\ userOps' # userOps
  BY <1>0 DEF UserOp, locals, TypeOK, EnvTypeOK
<1>2. CASE UserCreate
  <2>1. PICK s \in Specs, f \in BOOLEAN :
          Store([rv |-> 0, spec |-> s, named |-> FALSE, status |-> EmptyStatus, fin |-> FALSE,
                 foreign |-> f, deleting |-> FALSE])
    BY <1>2 DEF UserCreate
  <2>2. [rv |-> 0, spec |-> s, named |-> FALSE, status |-> EmptyStatus, fin |-> FALSE,
         foreign |-> f, deleting |-> FALSE] \in Objects
    BY DEF Objects, EmptyStatus, Statuses
  <2>3. Versions'
    BY <1>1, <2>1, <2>2, StoreVersions
  <2>4. QED BY <1>1, <1>2, <2>3 DEF UserCreate, FinalizerHeld
<1>3. CASE UserUpdate
  <2>1. PICK s \in Specs, n \in {obj.named, FALSE} : Store([obj EXCEPT !.spec = s, !.named = n])
    BY <1>3 DEF UserUpdate
  <2>2. obj \in Objects
    BY <1>3 DEF UserUpdate, TypeOK, ApiTypeOK
  <2>3. /\ [obj EXCEPT !.spec = s, !.named = n] \in Objects
        /\ [obj EXCEPT !.spec = s, !.named = n].deleting = obj.deleting
        /\ [obj EXCEPT !.spec = s, !.named = n].fin = obj.fin
    BY <2>2 DEF Objects
  <2>4. Versions'
    BY <1>1, <2>1, <2>3, StoreVersions
  <2>5. obj' # None /\ obj'.deleting = obj.deleting /\ obj'.fin = obj.fin
    BY <2>1, <2>3, StoreFields DEF TypeOK, ApiTypeOK
  <2>6. QED BY <1>1, <2>4, <2>5 DEF FinalizerHeld
<1>4. CASE UserDelete
  <2>1. obj \in Objects /\ ~obj.deleting
    BY <1>4 DEF UserDelete, TypeOK, ApiTypeOK
  <2>2. [obj EXCEPT !.deleting = TRUE] \in Objects
    BY <2>1 DEF Objects
  <2>3. Versions'
    BY <1>1, <1>4, <2>2, StoreVersions, RemoveVersions DEF UserDelete, StoreOrRemove
  <2>4. QED BY <1>1, <2>1, <2>3 DEF FinalizerHeld
<1>5. CASE LoseSecret
  <2>1. UNCHANGED <<obj, watch>>
    BY <1>5 DEF LoseSecret, api
  <2>2. QED BY <1>1, <2>1 DEF Versions, Agrees, FinalizerHeld
<1>6. QED BY <1>1, <1>2, <1>3, <1>4, <1>5 DEF User

(* A step that at most names the monitor.                                  *)
SpecKept == obj'.spec = obj.spec /\ (obj.named => obj'.named)

(* The other controller keeps the spec and our finalizer.                  *)
LEMMA ForeignReleaseObject ==
  ASSUME TypeOK, Versions, FinalizerHeld, ForeignRelease
  PROVE  Versions' /\ FinalizerHeld' /\ (obj' # None => SpecKept)
PROOF
<1>1. UNCHANGED <<cache, pc, lb>> /\ obj \in Objects
  BY DEF ForeignRelease, locals, TypeOK, ApiTypeOK
<1>2. /\ [obj EXCEPT !.foreign = FALSE] \in Objects
      /\ [obj EXCEPT !.foreign = FALSE].spec = obj.spec
      /\ [obj EXCEPT !.foreign = FALSE].named = obj.named
      /\ [obj EXCEPT !.foreign = FALSE].deleting = obj.deleting
      /\ [obj EXCEPT !.foreign = FALSE].fin = obj.fin
  BY <1>1 DEF Objects
<1>3. CASE Store([obj EXCEPT !.foreign = FALSE])
  <2>1. Versions'
    BY <1>1, <1>2, <1>3, StoreVersions
  <2>2. /\ obj' # None /\ SpecKept
        /\ obj'.deleting = obj.deleting /\ obj'.fin = obj.fin
    BY <1>2, <1>3, StoreFields DEF TypeOK, ApiTypeOK, SpecKept
  <2>3. QED BY <1>1, <2>1, <2>2 DEF FinalizerHeld
<1>4. CASE Remove /\ ~obj.fin
  BY <1>1, <1>4, RemoveVersions DEF Remove, FinalizerHeld
<1>5. QED BY <1>2, <1>3, <1>4 DEF ForeignRelease, StoreOrRemove

(* The other steps of the environment.                                     *)
LEMMA EnvironmentObject ==
  ASSUME TypeOK, Versions, FinalizerHeld,
         RestoreSecret \/ Deliver \/ NodeChange \/ NodeNotify \/ Crash \/ UNCHANGED vars
  PROVE  Versions' /\ FinalizerHeld' /\ UNCHANGED obj
PROOF
<1>1. watch \in Seq(Objects \cup {None})
  BY DEF TypeOK, ApiTypeOK
<1>2. CASE Deliver
  <2>1. cache' = watch[1] /\ 1 \in DOMAIN watch
    BY <1>1, <1>2 DEF Deliver
  <2>2. \A i \in DOMAIN watch' : i + 1 \in DOMAIN watch /\ watch'[i] = watch[i + 1]
    BY <1>1, <1>2 DEF Deliver
  <2>3. UNCHANGED <<obj, pc, lb>>
    BY <1>2 DEF Deliver, locals
  <2>4. Versions'
    BY <2>1, <2>2, <2>3, ReadVersions
  <2>5. QED BY <2>3, <2>4 DEF FinalizerHeld
<1>3. CASE Crash
  <2>1. UNCHANGED obj /\ cache' = obj /\ watch' = <<>> /\ lb' = None /\ pc' = "idle"
    BY <1>3 DEF Crash, EndPass
  <2>2. Versions'
    BY <2>1, ReadVersions
  <2>3. QED BY <2>1, <2>2 DEF FinalizerHeld, Finalizing
<1>4. CASE RestoreSecret \/ NodeChange \/ NodeNotify \/ UNCHANGED vars
  <2>1. UNCHANGED <<obj, watch, cache, pc, lb>>
    BY <1>4 DEF RestoreSecret, NodeChange, NodeNotify, vars, api, locals
  <2>2. QED BY <2>1 DEF Versions, Agrees, FinalizerHeld
<1>5. QED BY <1>2, <1>3, <1>4

(* Reconcile's steps that do not write to the API server.                  *)
LEMMA PassReadsObject ==
  ASSUME TypeOK, LocalsOK, Versions, FinalizerHeld,
         Take \/ GetLB \/ GetSecret \/ ListNodes \/ Connect \/ InBackend \/ BackendFailed
           \/ MonitorDone \/ PoolDone \/ VIPDone \/ Close \/ Reget \/ ConnectForCleanup
           \/ CleanupDone \/ CloseAfterCleanup
  PROVE  Versions' /\ FinalizerHeld' /\ UNCHANGED obj
PROOF
<1>1. UNCHANGED <<obj, watch, cache>>
  BY DEF Take, GetLB, GetSecret, ListNodes, Connect, InBackend, BackendFailed, MonitorDone,
         PoolDone, VIPDone, Close, Reget, ConnectForCleanup, CleanupDone, CloseAfterCleanup,
         api, environment
<1>2. \/ lb' = None \/ lb' = lb
      \/ \E c \in {lb, cache} : /\ c # None /\ lb'.rv = c.rv /\ lb'.spec = c.spec
                                /\ (c.named => lb'.named)
  <2>1. CASE Reget
    <3>1. PICK o \in {lb, cache} : o \in Objects /\ NewStatus(o)
      BY <2>1 DEF Reget, TypeOK, EnvTypeOK, LocalsOK
    <3>2. lb'.rv = o.rv /\ lb'.spec = o.spec /\ lb'.named = o.named /\ o # None
      BY <3>1, NoneAssumption DEF NewStatus, Objects
    <3>3. QED BY <3>2
  <2>2. CASE Connect
    <3>1. lb \in Objects
      BY <2>2 DEF Connect, LocalsOK
    <3>2. /\ [lb EXCEPT !.named = TRUE].rv = lb.rv /\ [lb EXCEPT !.named = TRUE].spec = lb.spec
          /\ [lb EXCEPT !.named = TRUE].named /\ lb # None
      BY <3>1, NoneAssumption DEF Objects
    <3>3. QED BY <2>2, <3>2 DEF Connect, Requeue, EndPass
  <2>3. CASE ~Reget /\ ~Connect
    BY <2>3
    DEF Take, GetLB, GetSecret, ListNodes, InBackend, BackendFailed, MonitorDone,
        PoolDone, VIPDone, Close, ConnectForCleanup, CleanupDone, CloseAfterCleanup,
        Requeue, Forget, EndPass, Continue, locals
  <2>4. QED BY <2>1, <2>2, <2>3
<1>3. Versions'
  BY <1>1, <1>2, ReadVersions
<1>4. pc' \in Finalizing => pc \in Finalizing
  BY DEF Take, GetLB, GetSecret, ListNodes, Connect, InBackend, BackendFailed, MonitorDone,
         PoolDone, VIPDone, Close, Reget, ConnectForCleanup, CleanupDone, CloseAfterCleanup,
         Requeue, Forget, EndPass, Continue, locals, Finalizing
<1>5. QED BY <1>1, <1>3, <1>4 DEF FinalizerHeld

(* A write that the server accepts carries the object's current version.   *)
LEMMA UpdateStatusObject ==
  ASSUME TypeOK, LocalsOK, Versions, FinalizerHeld, UpdateStatus
  PROVE  Versions' /\ FinalizerHeld' /\ (obj' # None => SpecKept)
PROOF
<1>1. UNCHANGED cache /\ lb \in Objects
  BY DEF UpdateStatus, environment, LocalsOK
<1>2. ASSUME ~Conflict, WriteStatus, lb' = None \/ lb' = Answer
      PROVE  /\ Versions' /\ obj' # None /\ SpecKept
             /\ obj'.deleting = obj.deleting /\ obj'.fin = obj.fin
  <2>1. obj \in Objects /\ obj # None
    BY <1>2, NoneAssumption DEF Conflict, TypeOK, ApiTypeOK
  <2>2. /\ [obj EXCEPT !.status = lb.status] \in Objects
        /\ [obj EXCEPT !.status = lb.status].spec = obj.spec
        /\ [obj EXCEPT !.status = lb.status].named = obj.named
        /\ [obj EXCEPT !.status = lb.status].deleting = obj.deleting
        /\ [obj EXCEPT !.status = lb.status].fin = obj.fin
    BY <1>1, <2>1 DEF Objects
  <2>0. lb' = None \/ (lb'.spec = obj'.spec /\ (obj'.named => lb'.named))
    BY <1>1, <1>2, <2>1, WriteStatusType, AnswerType DEF TypeOK
  <2>3. CASE UNCHANGED api
    <3>1. UNCHANGED <<obj, watch>>
      BY <2>3 DEF api
    <3>2. QED BY <1>1, <2>0, <2>1, <3>1, ReadVersions DEF SpecKept
  <2>4. CASE Store([obj EXCEPT !.status = lb.status])
    <3>1. Versions'
      BY <1>1, <2>0, <2>2, <2>4, StoreVersions
    <3>2. QED BY <2>2, <2>4, <3>1, StoreFields DEF SpecKept, TypeOK, ApiTypeOK
  <2>5. QED BY <1>2, <2>3, <2>4 DEF WriteStatus
<1>3. CASE UNCHANGED api /\ Requeue
  <2>1. UNCHANGED <<obj, watch>> /\ lb' = None /\ pc' = "idle"
    BY <1>3 DEF api, Requeue, EndPass
  <2>2. Versions'
    BY <1>1, <2>1, ReadVersions
  <2>3. QED BY <2>1, <2>2 DEF FinalizerHeld, Finalizing, SpecKept
<1>4. CASE ~Conflict /\ WriteStatus /\ pc' = "idle" /\ lb' = None
  BY <1>2, <1>4 DEF FinalizerHeld, Finalizing
<1>5. CASE /\ ~Conflict /\ WriteStatus /\ lb' = Answer /\ obj.deleting = obj.fin
           /\ pc' = IF obj.deleting THEN "fconnect" ELSE "addFinalizer"
  BY <1>2, <1>5 DEF FinalizerHeld, Finalizing
<1>6. QED
  BY <1>3, <1>4, <1>5 DEF UpdateStatus, Requeue, Forget, EndPass

LEMMA UpdateObject ==
  ASSUME TypeOK, LocalsOK, Versions, FinalizerHeld, RemoveFinalizer \/ AddFinalizer
  PROVE  Versions' /\ FinalizerHeld' /\ (obj' # None => SpecKept)
PROOF
<1>1. UNCHANGED cache /\ lb \in Objects /\ pc' = "idle" /\ lb' = None
  BY DEF RemoveFinalizer, AddFinalizer, Update, Requeue, Forget, EndPass, environment, LocalsOK
<1>2. PICK f \in BOOLEAN : Update(f)
  BY DEF RemoveFinalizer, AddFinalizer
<1>3. CASE UNCHANGED api
  <2>1. UNCHANGED <<obj, watch>>
    BY <1>3 DEF api
  <2>2. Versions'
    BY <1>1, <2>1, ReadVersions
  <2>3. QED BY <1>1, <2>1, <2>2 DEF FinalizerHeld, Finalizing, SpecKept
<1>4. CASE ~Conflict /\ StoreOrRemove([obj EXCEPT !.spec = lb.spec, !.named = lb.named, !.fin = f])
  <2>1. obj \in Objects /\ obj.rv = lb.rv /\ obj # None /\ lb # None
    BY <1>1, <1>4, NoneAssumption DEF Conflict, TypeOK, ApiTypeOK
  <2>2. obj.spec = lb.spec /\ (obj.named => lb.named)
    BY <2>1 DEF Versions, Agrees
  <2>3. /\ [obj EXCEPT !.spec = lb.spec, !.named = lb.named, !.fin = f] \in Objects
        /\ [obj EXCEPT !.spec = lb.spec, !.named = lb.named, !.fin = f].spec = obj.spec
        /\ [obj EXCEPT !.spec = lb.spec, !.named = lb.named, !.fin = f].named = lb.named
    BY <1>1, <2>1, <2>2 DEF Objects
  <2>4. Versions' /\ (obj' # None => SpecKept)
    <3>1. CASE Store([obj EXCEPT !.spec = lb.spec, !.named = lb.named, !.fin = f])
      BY <1>1, <2>2, <2>3, <3>1, StoreVersions, StoreFields DEF SpecKept, TypeOK, ApiTypeOK
    <3>2. CASE Remove
      BY <3>2, RemoveVersions DEF Remove
    <3>3. QED BY <1>4, <3>1, <3>2 DEF StoreOrRemove
  <2>5. QED BY <1>1, <2>4 DEF FinalizerHeld, Finalizing
<1>5. QED BY <1>2, <1>3, <1>4 DEF Update

(* Both facts, and who may change a spec, for every step.                  *)
LEMMA ObjectStep ==
  ASSUME TypeOK, LocalsOK, Versions, FinalizerHeld, [Next]_vars
  PROVE  /\ Versions' /\ FinalizerHeld'
         /\ obj # None /\ obj' # None /\ ~SpecKept => userOps' # userOps
PROOF
<1>1. CASE Reconcile
  BY <1>1, PassReadsObject, UpdateStatusObject, UpdateObject DEF Reconcile, SpecKept
<1>2. QED
  BY <1>1, UserObject, ForeignReleaseObject, EnvironmentObject DEF Next, SpecKept

LEMMA ObjectInv == Spec => [](TypeOK /\ LocalsOK /\ Versions /\ FinalizerHeld)
PROOF
<1>1. Init => Versions /\ FinalizerHeld
  BY DEF Init, Versions, Agrees, FinalizerHeld, Finalizing
<1>2. TypeOK /\ LocalsOK /\ Versions /\ FinalizerHeld /\ [Next]_vars => Versions' /\ FinalizerHeld'
  BY ObjectStep
<1>3. QED BY <1>1, <1>2, TypeCorrect, PTL DEF Spec

(* Only users change what they write in a spec.  The operator's Update     *)
(* writes the whole object, spec included, from a copy that may be old;    *)
(* the resourceVersion it carries makes sure that it writes back the spec  *)
(* that is there, at most with the monitor's name filled in.               *)
THEOREM SpecIsTheUsers == Spec => SpecOwnedByUser
PROOF
<1>1. TypeOK /\ LocalsOK /\ Versions /\ FinalizerHeld /\ [Next]_vars =>
        [obj # None /\ obj' # None /\ (obj'.spec # obj.spec \/ (obj.named /\ ~obj'.named))
           => userOps' # userOps]_vars
  BY ObjectStep DEF SpecKept
<1>2. QED BY <1>1, ObjectInv, PTL DEF Spec, SpecOwnedByUser

----------------------------------------------------------------------------
(* What a pass has achieved on the device when it gets to a step.          *)

AfterMonitor == {"pools", "vips", "close", "reget", "status"}
AfterPools == {"vips", "close", "reget", "status"}
AfterVIPs == {"close", "reget", "status"}

MonitorSet ==
  pc \in AfterMonitor \/ (pc = "monitor" /\ result = "ok") => monitor = cfg.monitor

(* The loops have handled the ports before idx, and that of idx once the   *)
(* operation has returned nil.                                             *)
Turned(i) == i < idx \/ (i = idx /\ result = "ok")

PoolsSet ==
  pc \in AfterPools \cup {"pools"} =>
    \A i \in DOMAIN cfg.ports : pc \in AfterPools \/ Turned(i) => PoolReady(cfg.ports[i], hosts)

VIPsSet ==
  pc \in AfterVIPs \cup {"vips"} =>
    \A i \in DOMAIN cfg.ports : pc \in AfterVIPs \/ Turned(i) => vips[cfg.ports[i]] = cfg.vip

(* The operation under way has come as far as its request says.            *)
PoolRuns == pc = "pools" /\ result = "none" => PoolFrame(cfg.ports[idx], hosts)

CleanupRuns == pc = "cleanup" /\ result = "none" => Cleaned(lb.status)

(* The status a pass writes describes this pass, and the one a cleanup     *)
(* works from describes some pass.                                         *)
StatusBuilt ==
  pc = "status" =>
    lb.status = [monitor |-> cfg.monitor, ip |-> cfg.vip, handled |-> cfg.ports,
                 members |-> hosts, ports |-> lb.spec.ports]

StatusOfPass ==
  pc \in {"fconnect", "cleanup"} =>
    \E s \in Specs : lb.status.monitor = s.monitor /\ lb.status.handled = s.ports

PassInv ==
  /\ PoolsOwn
  /\ MonitorSet /\ PoolsSet /\ VIPsSet
  /\ PoolRuns /\ CleanupRuns
  /\ StatusBuilt /\ StatusOfPass

(* Steps of others leave the device and the pass alone.                    *)
LEMMA QuietPass ==
  ASSUME PassInv, UNCHANGED <<device, frame, locals>>
  PROVE  PassInv'
PROOF
<1>1. UNCHANGED <<monitor, pools, bound, members, vips, step, toAdd, toDel, at, result,
                  pc, lb, cfg, hosts, idx>>
  BY DEF device, frame, locals
<1>2. PoolsOwn' /\ MonitorSet' /\ StatusBuilt' /\ StatusOfPass'
  BY <1>1 DEF PassInv, PoolsOwn, MonitorSet, StatusBuilt, StatusOfPass
<1>3. PoolsSet' /\ VIPsSet'
  BY <1>1 DEF PassInv, PoolsSet, VIPsSet, PoolReady, Turned
<1>4. PoolRuns' /\ CleanupRuns'
  BY <1>1 DEF PassInv, PoolRuns, CleanupRuns, PoolFrame, Cleaned, PortClean
<1>5. QED BY <1>2, <1>3, <1>4 DEF PassInv

(* Steps to where a pass promises nothing about the device.                *)
LEMMA FreePass ==
  ASSUME PassInv, UNCHANGED device,
         \/ pc' \in {"idle", "get", "secret", "nodes", "connect", "addFinalizer", "fclose",
                     "rmFinalizer"}
         \/ pc' = "monitor" /\ result' = "none"
  PROVE  PassInv'
  BY DEF PassInv, PoolsOwn, MonitorSet, PoolsSet, VIPsSet, PoolRuns, CleanupRuns, StatusBuilt,
         StatusOfPass, AfterMonitor, AfterPools, AfterVIPs, device

LEMMA EnvironmentPass ==
  ASSUME PassInv,
         User \/ RestoreSecret \/ ForeignRelease \/ Deliver \/ NodeChange \/ NodeNotify
           \/ UNCHANGED vars
  PROVE  PassInv' /\ UNCHANGED device
PROOF
<1>1. UNCHANGED <<device, frame, locals>>
  BY DEF User, UserCreate, UserUpdate, UserDelete, LoseSecret, UserOp, RestoreSecret,
         ForeignRelease, Deliver, NodeChange, NodeNotify, vars, backend
<1>2. QED BY <1>1, QuietPass

LEMMA EarlyStepsPass ==
  ASSUME PassInv,
         Take \/ GetLB \/ GetSecret \/ ListNodes \/ Connect \/ BackendFailed \/ CleanupDone
           \/ CloseAfterCleanup \/ RemoveFinalizer \/ AddFinalizer \/ Crash
  PROVE  PassInv' /\ UNCHANGED device
PROOF
<1>1. UNCHANGED device
  BY DEF Take, GetLB, GetSecret, ListNodes, Connect, BackendFailed, CleanupDone,
         CloseAfterCleanup, RemoveFinalizer, AddFinalizer, Update, Crash, backend
<1>2. \/ pc' \in {"idle", "get", "secret", "nodes", "connect", "fclose", "rmFinalizer"}
      \/ pc' = "monitor" /\ result' = "none"
  BY DEF Take, GetLB, GetSecret, ListNodes, Connect, BackendFailed, CleanupDone,
         CloseAfterCleanup, RemoveFinalizer, AddFinalizer, Update, Crash, Requeue, Forget,
         EndPass, Continue, Call
<1>3. QED BY <1>1, <1>2, FreePass

(* The loops' turns.                                                       *)
LEMMA LoopStepsPass ==
  ASSUME TypeOK, LocalsOK, PassInv, MonitorDone \/ PoolDone \/ VIPDone
  PROVE  PassInv' /\ UNCHANGED device
PROOF
<1>0. /\ cfg \in Specs /\ Len(cfg.ports) \in Nat \ {0} /\ idx \in Nat
      /\ DOMAIN cfg.ports = 1..Len(cfg.ports)
  BY SpecType DEF MonitorDone, PoolDone, VIPDone, LocalsOK, TypeOK, PassTypeOK
<1>1. UNCHANGED <<monitor, pools, bound, members, vips, lb, cfg, hosts>>
  BY DEF MonitorDone, PoolDone, VIPDone, device
<1>2. CASE MonitorDone
  <2>1. pc = "monitor" /\ result = "ok" /\ pc' = "pools" /\ idx' = 1 /\ step' = "getPool" /\ result' = "none"
    BY <1>2 DEF MonitorDone, Call
  <2>2. PoolRuns'
    BY <2>1 DEF PoolRuns, PoolFrame, PoolSteps
  <2>3. QED
    BY <1>0, <1>1, <2>1, <2>2
    DEF PassInv, PoolsOwn, MonitorSet, PoolsSet, VIPsSet, CleanupRuns, StatusBuilt,
        StatusOfPass, AfterMonitor, AfterPools, AfterVIPs, Turned, device
<1>3. CASE PoolDone
  <2>1. pc = "pools" /\ result = "ok" /\ idx \in 1..Len(cfg.ports) /\ result' = "none"
    BY <1>3 DEF PoolDone, Call, LocalsOK
  <2>2. \/ idx < Len(cfg.ports) /\ pc' = "pools" /\ idx' = idx + 1 /\ step' = "getPool"
        \/ idx = Len(cfg.ports) /\ pc' = "vips" /\ idx' = 1
    BY <1>0, <1>3, <2>1 DEF PoolDone, Call
  <2>3. \A i \in DOMAIN cfg.ports : i <= idx => PoolReady(cfg.ports[i], hosts)
    BY <1>0, <2>1 DEF PassInv, PoolsSet, Turned
  <2>4. PoolsSet'
    BY <1>0, <1>1, <2>1, <2>2, <2>3 DEF PoolsSet, PoolReady, Turned, AfterPools
  <2>5. PoolRuns' /\ MonitorSet' /\ VIPsSet'
    BY <1>0, <1>1, <2>1, <2>2
    DEF PassInv, PoolRuns, PoolFrame, PoolSteps, MonitorSet, VIPsSet, Turned, AfterMonitor,
        AfterVIPs
  <2>6. PoolsOwn' /\ CleanupRuns' /\ StatusBuilt' /\ StatusOfPass'
    BY <1>1, <2>2 DEF PassInv, PoolsOwn, CleanupRuns, StatusBuilt, StatusOfPass
  <2>7. QED BY <1>1, <2>4, <2>5, <2>6 DEF PassInv, device
<1>4. CASE VIPDone
  <2>1. pc = "vips" /\ result = "ok" /\ idx \in 1..Len(cfg.ports) /\ result' = "none"
    BY <1>4 DEF VIPDone, Call, LocalsOK
  <2>2. \/ idx < Len(cfg.ports) /\ pc' = "vips" /\ idx' = idx + 1
        \/ idx = Len(cfg.ports) /\ pc' = "close"
    BY <1>0, <1>4, <2>1 DEF VIPDone
  <2>3. \A i \in DOMAIN cfg.ports : i <= idx => vips[cfg.ports[i]] = cfg.vip
    BY <1>0, <2>1 DEF PassInv, VIPsSet, Turned
  <2>4. VIPsSet'
    BY <1>0, <1>1, <2>1, <2>2, <2>3 DEF VIPsSet, Turned, AfterVIPs
  <2>5. PoolsSet' /\ MonitorSet'
    BY <1>1, <2>1, <2>2
    DEF PassInv, PoolsSet, PoolReady, MonitorSet, AfterMonitor, AfterPools
  <2>6. PoolsOwn' /\ PoolRuns' /\ CleanupRuns' /\ StatusBuilt' /\ StatusOfPass'
    BY <1>1, <2>2 DEF PassInv, PoolsOwn, PoolRuns, CleanupRuns, StatusBuilt, StatusOfPass
  <2>7. QED BY <1>1, <2>4, <2>5, <2>6 DEF PassInv, device
<1>5. QED BY <1>2, <1>3, <1>4

(* From the last VIP to the status.                                        *)
LEMMA LateStepsPass ==
  ASSUME TypeOK, LocalsOK, PassInv, Close \/ Reget
  PROVE  PassInv' /\ UNCHANGED device
PROOF
<1>1. UNCHANGED <<monitor, pools, bound, members, vips>>
  BY DEF Close, Reget, device
<1>2. CASE pc' = "idle"
  BY <1>1, <1>2, FreePass DEF device
<1>3. CASE pc' # "idle"
  <2>1. UNCHANGED <<cfg, hosts>> /\ pc \in {"close", "reget"} /\ pc' \in {"reget", "status"}
    BY <1>3 DEF Close, Reget, Continue, Requeue, EndPass
  <2>2. StatusBuilt'
    <3>1. CASE Reget
      <4>1. PICK o \in Objects : NewStatus(o)
        BY <3>1 DEF Reget, TypeOK, EnvTypeOK, LocalsOK
      <4>2. /\ lb'.status = [monitor |-> cfg.monitor, ip |-> cfg.vip, handled |-> cfg.ports,
                             members |-> hosts, ports |-> o.spec.ports]
            /\ lb'.spec = o.spec
        BY <4>1 DEF NewStatus, Objects
      <4>3. QED BY <2>1, <4>2 DEF StatusBuilt
    <3>2. CASE Close
      BY <1>3, <3>2 DEF Close, Continue, Requeue, EndPass, StatusBuilt
    <3>3. QED BY <3>1, <3>2
  <2>3. MonitorSet' /\ PoolsSet' /\ VIPsSet'
    BY <1>1, <2>1
    DEF PassInv, MonitorSet, PoolsSet, VIPsSet, PoolReady, AfterMonitor, AfterPools, AfterVIPs
  <2>4. PoolsOwn' /\ PoolRuns' /\ CleanupRuns' /\ StatusOfPass'
    BY <1>1, <2>1 DEF PassInv, PoolsOwn, PoolRuns, CleanupRuns, StatusOfPass
  <2>5. QED BY <1>1, <2>2, <2>3, <2>4 DEF PassInv, device
<1>4. QED BY <1>2, <1>3

(* At the status' write, the device has what the status lists.             *)
LEMMA StatusDescribesDevice ==
  ASSUME LocalsOK, PassInv, pc = "status"
  PROVE  DeviceHas(lb.status)
PROOF
<1>1. /\ lb.status.monitor = cfg.monitor /\ lb.status.ip = cfg.vip
      /\ lb.status.handled = cfg.ports /\ lb.status.members = hosts
  BY DEF PassInv, StatusBuilt
<1>2. /\ monitor = cfg.monitor
      /\ \A i \in DOMAIN cfg.ports : /\ PoolReady(cfg.ports[i], hosts)
                                     /\ vips[cfg.ports[i]] = cfg.vip
  BY DEF PassInv, MonitorSet, PoolsSet, VIPsSet, AfterMonitor, AfterPools, AfterVIPs
<1>3. QED BY <1>1, <1>2 DEF DeviceHas, PoolReady

(* The cleanup works from the status that was just written.                *)
LEMMA UpdateStatusPass ==
  ASSUME TypeOK, LocalsOK, PassInv, UpdateStatus
  PROVE  /\ PassInv' /\ UNCHANGED device
         /\ obj # None /\ obj' # None /\ obj'.status # obj.status =>
              /\ ~Conflict /\ DeviceHas(obj'.status)
              /\ obj'.spec = obj.spec /\ obj'.status.ports = lb.spec.ports
PROOF
<1>1. UNCHANGED device /\ pc = "status" /\ lb \in Objects /\ cfg \in Specs
  BY DEF UpdateStatus, LocalsOK
<1>2. ASSUME ~Conflict, WriteStatus
      PROVE  obj' # None /\ obj'.status = lb.status /\ obj'.spec = obj.spec
  <2>1. obj \in Objects /\ obj # None
    BY <1>2, NoneAssumption DEF Conflict, TypeOK, ApiTypeOK
  <2>2. /\ [obj EXCEPT !.status = lb.status] \in Objects
        /\ [obj EXCEPT !.status = lb.status].status = lb.status
        /\ [obj EXCEPT !.status = lb.status].spec = obj.spec
    BY <1>1, <2>1 DEF Objects
  <2>3. QED BY <1>2, <2>1, <2>2, StoreFields DEF WriteStatus, api, TypeOK, ApiTypeOK
<1>3. \/ UNCHANGED obj
      \/ ~Conflict /\ obj' # None /\ obj'.status = lb.status /\ obj'.spec = obj.spec
  BY <1>2 DEF UpdateStatus, api
<1>4. \/ pc' \in {"idle", "addFinalizer"}
      \/ pc' = "fconnect" /\ lb'.status = lb.status
  <2>1. ASSUME ~Conflict, WriteStatus PROVE Answer.status = lb.status
    <3>1. obj \in Objects
      BY <2>1 DEF Conflict, TypeOK, ApiTypeOK
    <3>2. QED BY <1>1, <1>2, <2>1, <3>1, WriteStatusType, AnswerType DEF TypeOK
  <2>2. QED BY <2>1 DEF UpdateStatus, Requeue, Forget, EndPass
<1>5. obj # None /\ obj' # None /\ obj'.status # obj.status =>
        /\ ~Conflict /\ DeviceHas(obj'.status)
        /\ obj'.spec = obj.spec /\ obj'.status.ports = lb.spec.ports
  <2>1. DeviceHas(lb.status) /\ lb.status.ports = lb.spec.ports
    BY <1>1, StatusDescribesDevice DEF PassInv, StatusBuilt
  <2>2. QED BY <1>1, <1>3, <2>1 DEF DeviceHas, device
<1>6. CASE pc' \in {"idle", "addFinalizer"}
  BY <1>1, <1>5, <1>6, FreePass
<1>7. CASE pc' = "fconnect" /\ lb'.status = lb.status
  <2>1. StatusOfPass'
    BY <1>1, <1>7 DEF PassInv, StatusBuilt, StatusOfPass
  <2>2. QED
    BY <1>1, <1>5, <1>7, <2>1
    DEF PassInv, PoolsOwn, MonitorSet, PoolsSet, VIPsSet, PoolRuns, CleanupRuns, StatusBuilt,
        AfterMonitor, AfterPools, AfterVIPs, device
<1>8. QED BY <1>4, <1>6, <1>7

LEMMA ConnectForCleanupPass ==
  ASSUME LocalsOK, PassInv, ConnectForCleanup
  PROVE  PassInv' /\ UNCHANGED device
PROOF
<1>1. UNCHANGED device /\ pc = "fconnect" /\ lb \in Objects
  BY DEF ConnectForCleanup, LocalsOK
<1>2. CASE pc' = "idle"
  BY <1>1, <1>2, FreePass
<1>3. CASE pc' # "idle"
  <2>1. pc' = "cleanup" /\ lb' = lb /\ step' = "cleanVIPs" /\ at' = 1
    BY <1>3 DEF ConnectForCleanup, Continue, Call, Requeue, EndPass
  <2>2. \A i \in DOMAIN lb'.status.handled : ~(i < 1)
    BY <1>1, <2>1, StatusType DEF Objects
  <2>3. CleanupRuns'
    BY <2>1, <2>2 DEF CleanupRuns, Cleaned, CleanSteps
  <2>4. StatusOfPass'
    BY <1>1, <2>1 DEF PassInv, StatusOfPass
  <2>5. QED
    BY <1>1, <2>1, <2>3, <2>4
    DEF PassInv, PoolsOwn, MonitorSet, PoolsSet, VIPsSet, PoolRuns, StatusBuilt,
        AfterMonitor, AfterPools, AfterVIPs, device
<1>4. QED BY <1>2, <1>3

----------------------------------------------------------------------------
(* The backend's operations inside a pass.                                 *)

LEMMA InMonitorPass ==
  ASSUME TypeOK, LocalsOK, PassInv, InBackend, pc = "monitor"
  PROVE  /\ PassInv' /\ UNCHANGED <<pools, vips>>
         /\ NoDanglingReferences => NoDanglingReferences'
PROOF
<1>1. /\ HandleMonitors(cfg.monitor) /\ result = "none" /\ UNCHANGED <<pc, lb, cfg, hosts, idx>>
  BY DEF InBackend, locals
<1>2. /\ UNCHANGED <<pools, bound, members, vips>>
      /\ monitor' \in {monitor, cfg.monitor}
      /\ result' = "ok" => monitor' = cfg.monitor
  BY <1>1, HandleMonitorsEffect
<1>3. PassInv'
  BY <1>1, <1>2
  DEF PassInv, PoolsOwn, MonitorSet, PoolsSet, VIPsSet, PoolRuns, CleanupRuns, StatusBuilt,
      StatusOfPass, AfterMonitor, AfterPools, AfterVIPs
<1>4. cfg.monitor # None
  BY SpecType, ProviderConstants DEF LocalsOK
<1>5. QED BY <1>2, <1>3, <1>4 DEF NoDanglingReferences

LEMMA InPoolPass ==
  ASSUME TypeOK, LocalsOK, PassInv, InBackend, pc = "pools"
  PROVE  /\ PassInv' /\ UNCHANGED vips /\ pools \subseteq pools'
         /\ NoDanglingReferences => NoDanglingReferences'
PROOF
<1> DEFINE p == cfg.ports[idx]
<1>1. /\ HandlePool(p, hosts) /\ result = "none" /\ UNCHANGED <<pc, lb, cfg, hosts, idx>>
  BY DEF InBackend, locals
<1>2. /\ cfg \in Specs /\ p \in Ports /\ hosts \in SUBSET Hosts /\ BackendTypeOK /\ idx \in Nat
      /\ \A i \in DOMAIN cfg.ports : i \in Nat /\ cfg.ports[i] \in Ports
  BY SpecType DEF LocalsOK, TypeOK, PassTypeOK
<1>3. PoolsOwn /\ PoolFrame(p, hosts)
  BY <1>1 DEF PassInv, PoolRuns
<1>4. /\ result' = "none" => PoolFrame(p, hosts)'
      /\ result' = "ok" => PoolReady(p, hosts)'
      /\ PoolsOwn'
  BY <1>1, <1>2, <1>3, HandlePoolProgress
<1>5. /\ UNCHANGED <<monitor, vips>>
      /\ pools \subseteq pools' /\ pools' \subseteq pools \cup {p}
      /\ bound \subseteq bound' /\ bound' \subseteq bound \cup {p}
      /\ \A q \in Ports : q # p => members'[q] = members[q]
      /\ members[p] \cap hosts \subseteq members'[p]
      /\ members'[p] \subseteq members[p] \cup hosts
  BY <1>1, <1>2, <1>3, HandlePoolEffect
<1>6. \A q \in Ports : PoolReady(q, hosts) => PoolReady(q, hosts)'
  <2>1. SUFFICES ASSUME NEW q \in Ports, PoolReady(q, hosts) PROVE PoolReady(q, hosts)'
    OBVIOUS
  <2>2. members'[q] = hosts
    <3>1. CASE q = p
      <4>1. hosts \subseteq members'[q] /\ members'[q] \subseteq hosts
        BY <1>5, <2>1, <3>1 DEF PoolReady
      <4>2. QED BY <4>1
    <3>2. CASE q # p
      BY <1>5, <2>1, <3>2 DEF PoolReady
    <3>3. QED BY <3>1, <3>2
  <2>3. QED BY <1>1, <1>5, <2>1, <2>2 DEF PoolReady
<1>7. PoolsSet'
  <2>1. SUFFICES ASSUME NEW i \in DOMAIN cfg.ports, Turned(i)'
                 PROVE  PoolReady(cfg.ports[i], hosts)'
    BY <1>1 DEF PoolsSet, AfterPools
  <2>2. CASE i < idx
    BY <1>1, <1>2, <1>6, <2>2 DEF PassInv, PoolsSet, Turned
  <2>3. CASE i = idx /\ result' = "ok"
    BY <1>1, <1>4, <2>3
  <2>4. QED BY <1>1, <2>1, <2>2, <2>3 DEF Turned
<1>8. PassInv'
  BY <1>1, <1>4, <1>5, <1>7
  DEF PassInv, MonitorSet, VIPsSet, PoolRuns, CleanupRuns, StatusBuilt, StatusOfPass,
      AfterMonitor, AfterPools, AfterVIPs
<1>9. monitor # None
  BY <1>2, SpecType, ProviderConstants DEF PassInv, MonitorSet, AfterMonitor
<1>10. QED BY <1>4, <1>5, <1>8, <1>9 DEF NoDanglingReferences, PoolsOwn

LEMMA InVIPPass ==
  ASSUME TypeOK, LocalsOK, PassInv, InBackend, pc = "vips"
  PROVE  /\ PassInv' /\ UNCHANGED pools
         /\ \A q \in Ports : vips[q] # None => vips'[q] # None
         /\ NoDanglingReferences => NoDanglingReferences'
PROOF
<1> DEFINE p == cfg.ports[idx]
<1>1. /\ HandleVIP(p, cfg.vip) /\ result = "none" /\ UNCHANGED <<pc, lb, cfg, hosts, idx>>
  BY DEF InBackend, locals
<1>2. /\ cfg \in Specs /\ p \in Ports /\ DeviceTypeOK /\ idx \in DOMAIN cfg.ports
      /\ cfg.vip # None
      /\ \A i \in DOMAIN cfg.ports : i \in Nat /\ cfg.ports[i] \in Ports
  BY SpecType, ProviderConstants DEF LocalsOK, TypeOK, BackendTypeOK
<1>3. /\ UNCHANGED <<monitor, pools, bound, members>>
      /\ \A q \in Ports : q # p => vips'[q] = vips[q]
      /\ vips'[p] \in {vips[p], cfg.vip}
      /\ result' = "ok" => vips'[p] = cfg.vip
  BY <1>1, <1>2, HandleVIPEffect
<1>4. VIPsSet'
  <2>1. SUFFICES ASSUME NEW i \in DOMAIN cfg.ports, Turned(i)'
                 PROVE  vips'[cfg.ports[i]] = cfg.vip
    BY <1>1 DEF VIPsSet, AfterVIPs
  <2>2. CASE i < idx
    BY <1>1, <1>2, <1>3, <2>2 DEF PassInv, VIPsSet, Turned
  <2>3. CASE i = idx /\ result' = "ok"
    BY <1>1, <1>3, <2>3
  <2>4. QED BY <1>1, <2>1, <2>2, <2>3 DEF Turned
<1>5. PassInv'
  BY <1>1, <1>3, <1>4
  DEF PassInv, PoolsOwn, MonitorSet, PoolsSet, PoolReady, PoolRuns, CleanupRuns, StatusBuilt,
      StatusOfPass, AfterMonitor, AfterPools, AfterVIPs
<1>6. p \in pools
  BY <1>1, <1>2 DEF PassInv, PoolsSet, PoolReady, AfterPools
<1>7. QED BY <1>2, <1>3, <1>5, <1>6 DEF NoDanglingReferences

(* No pool outlives its monitor if the device refuses to delete a monitor  *)
(* in use, or if users never take a port out of the spec.                  *)
ReferenceConditions ==
  \/ StrictDelete
  \/ \A s \in Specs : \A p \in Ports : \E i \in DOMAIN s.ports : s.ports[i] = p

LEMMA InCleanupPass ==
  ASSUME TypeOK, LocalsOK, PassInv, InBackend, pc = "cleanup"
  PROVE  /\ PassInv'
         /\ ReferenceConditions /\ NoDanglingReferences => NoDanglingReferences'
PROOF
<1>1. /\ HandleCleanup(lb.status) /\ result = "none" /\ UNCHANGED <<pc, lb, cfg, hosts, idx>>
      /\ lb.status \in Statuses /\ BackendTypeOK
  BY DEF InBackend, locals, LocalsOK, Objects, TypeOK
<1>2. PoolsOwn /\ Cleaned(lb.status)
  BY <1>1 DEF PassInv, CleanupRuns
<1>3. (result' = "none" => Cleaned(lb.status)') /\ PoolsOwn'
  BY <1>1, <1>2, HandleCleanupProgress, HandleCleanupEffect
<1>4. PassInv'
  BY <1>1, <1>3
  DEF PassInv, MonitorSet, PoolsSet, VIPsSet, PoolRuns, CleanupRuns, StatusBuilt,
      StatusOfPass, AfterMonitor, AfterPools, AfterVIPs
<1>5. ASSUME ReferenceConditions PROVE StrictDelete \/ Covers(lb.status)
  <2>1. PICK s \in Specs : lb.status.monitor = s.monitor /\ lb.status.handled = s.ports
    BY DEF PassInv, StatusOfPass
  <2>2. s.monitor # None
    BY SpecType, ProviderConstants
  <2>3. QED BY <1>5, <2>1, <2>2 DEF ReferenceConditions, Covers
<1>6. QED BY <1>1, <1>2, <1>4, <1>5, HandleCleanupReferences

(* Every step of the operator and its environment.                         *)
LEMMA PassStep ==
  ASSUME TypeOK, LocalsOK, PassInv, [Next]_vars
  PROVE  /\ PassInv'
         /\ UNCHANGED device \/ InBackend
         /\ ReferenceConditions /\ NoDanglingReferences => NoDanglingReferences'
PROOF
<1>1. PassInv' /\ (UNCHANGED device \/ InBackend)
  <2>1. CASE InBackend
    BY <2>1, InMonitorPass, InPoolPass, InVIPPass, InCleanupPass DEF InBackend
  <2>2. CASE Reconcile /\ ~InBackend
    BY <2>2, EarlyStepsPass, LoopStepsPass, LateStepsPass, UpdateStatusPass,
       ConnectForCleanupPass DEF Reconcile
  <2>3. QED
    BY <2>1, <2>2, EnvironmentPass, EarlyStepsPass DEF Next
<1>2. ASSUME ReferenceConditions, NoDanglingReferences PROVE NoDanglingReferences'
  <2>1. CASE InBackend
    BY <1>2, <2>1, InMonitorPass, InPoolPass, InVIPPass, InCleanupPass DEF InBackend
  <2>2. CASE UNCHANGED device
    BY <1>2, <2>2 DEF NoDanglingReferences, device
  <2>3. QED BY <1>1, <2>1, <2>2
<1>3. QED BY <1>1, <1>2

LEMMA PassInvHolds == Spec => []PassInv
PROOF
<1>1. Init => PassInv
  BY DEF Init, BackendInit, DeviceInit, PassInv, PoolsOwn, MonitorSet, PoolsSet, VIPsSet,
         PoolRuns, CleanupRuns, StatusBuilt, StatusOfPass, AfterMonitor, AfterPools, AfterVIPs
<1>2. TypeOK /\ LocalsOK /\ PassInv /\ [Next]_vars => PassInv'
  BY PassStep
<1>3. QED BY <1>1, <1>2, TypeCorrect, PTL DEF Spec

(* Monitor before pools before VIPs on the way up and the opposite order   *)
(* on the way down: no failure, crash or change of mind between two        *)
(* requests leaves a VIP without its pool, a pool without its monitor or a *)
(* member without its pool.                                                *)
THEOREM NothingDangles == ReferenceConditions => (Spec => []NoDanglingReferences)
PROOF
<1> SUFFICES ASSUME ReferenceConditions PROVE Spec => []NoDanglingReferences
  OBVIOUS
<1>1. Init => NoDanglingReferences
  BY DEF Init, BackendInit, DeviceInit, NoDanglingReferences
<1>2. TypeOK /\ LocalsOK /\ PassInv /\ NoDanglingReferences /\ [Next]_vars
        => NoDanglingReferences'
  BY PassStep
<1>3. QED BY <1>1, <1>2, TypeCorrect, PassInvHolds, PTL DEF Spec

(* A status write reports what holds at that moment: whatever was read a   *)
(* second time in between, monitor, pools, members and VIPs are those this *)
(* pass has configured, to the last port, and the ports, which are those   *)
(* of the second read, are those of the spec in the server.                *)
THEOREM StatusReportsDevice == Spec => StatusIsObserved
PROOF
<1>1. TypeOK /\ LocalsOK /\ Versions /\ PassInv /\ [Next]_vars =>
        [obj # None /\ obj' # None /\ obj'.status # obj.status =>
           DeviceHas(obj'.status) /\ obj'.status.ports = obj'.spec.ports]_vars
  <2> SUFFICES ASSUME TypeOK, LocalsOK, Versions, PassInv, Next, obj # None, obj' # None,
                      obj'.status # obj.status
               PROVE  DeviceHas(obj'.status) /\ obj'.status.ports = obj'.spec.ports
    OBVIOUS
  <2>1. CASE UpdateStatus
    <3>1. lb \in Objects /\ lb # None
      BY <2>1, NoneAssumption DEF UpdateStatus, LocalsOK
    <3>2. /\ ~Conflict /\ DeviceHas(obj'.status)
          /\ obj'.spec = obj.spec /\ obj'.status.ports = lb.spec.ports
      BY <2>1, UpdateStatusPass
    <3>3. obj.spec = lb.spec
      BY <3>1, <3>2 DEF Conflict, Versions, Agrees
    <3>4. QED BY <3>2, <3>3
  <2>2. ASSUME NEW o, Store(o) \/ StoreOrRemove(o), o \in Objects, o.status = obj.status
        PROVE  FALSE
    BY <2>2, StoreFields DEF StoreOrRemove, Remove, TypeOK, ApiTypeOK
  <2>3. obj \in Objects
    BY DEF TypeOK, ApiTypeOK
  <2>4. CASE User \/ ForeignRelease
    <3>1. /\ \A x \in Specs, n \in {obj.named, FALSE} :
               /\ [obj EXCEPT !.spec = x, !.named = n] \in Objects
               /\ [obj EXCEPT !.spec = x, !.named = n].status = obj.status
          /\ [obj EXCEPT !.deleting = TRUE] \in Objects
          /\ [obj EXCEPT !.deleting = TRUE].status = obj.status
          /\ [obj EXCEPT !.foreign = FALSE] \in Objects
          /\ [obj EXCEPT !.foreign = FALSE].status = obj.status
      BY <2>3 DEF Objects
    <3>2. QED
      BY <2>2, <2>4, <3>1
      DEF User, UserCreate, UserUpdate, UserDelete, LoseSecret, ForeignRelease, api
  <2>5. CASE RemoveFinalizer \/ AddFinalizer
    <3>1. PICK f \in BOOLEAN : Update(f)
      BY <2>5 DEF RemoveFinalizer, AddFinalizer
    <3>2. /\ [obj EXCEPT !.spec = lb.spec, !.named = lb.named, !.fin = f] \in Objects
          /\ [obj EXCEPT !.spec = lb.spec, !.named = lb.named, !.fin = f].status = obj.status
      BY <2>3, <2>5 DEF RemoveFinalizer, AddFinalizer, LocalsOK, Objects
    <3>3. QED BY <2>2, <3>1, <3>2 DEF Update, api
  <2>6. CASE ~(UpdateStatus \/ User \/ ForeignRelease \/ RemoveFinalizer \/ AddFinalizer)
    BY <2>6
    DEF Next, Reconcile, RestoreSecret, Deliver, NodeChange, NodeNotify, Crash,
        Take, GetLB, GetSecret, ListNodes, Connect, InBackend, BackendFailed, MonitorDone,
        PoolDone, VIPDone, Close, Reget, ConnectForCleanup, CleanupDone, CloseAfterCleanup, api
  <2>7. QED BY <2>1, <2>4, <2>5, <2>6
<1>2. QED BY <1>1, ObjectInv, PassInvHolds, PTL DEF Spec, StatusIsObserved

(* A VIP or a pool that serves traffic is taken down only while its object *)
(* is being deleted: the finalizer holds the object from the decision to   *)
(* finalize until the cleanup is over, so nothing else can come in between.*)
THEOREM TeardownNeedsDeletion == Spec => TeardownOnlyWhenDeleting
PROOF
<1>1. TypeOK /\ LocalsOK /\ Versions /\ FinalizerHeld /\ PassInv /\ [Next]_vars =>
        [(\E p \in Ports : vips[p] # None /\ vips'[p] = None) \/ ~(pools \subseteq pools')
           => obj # None /\ obj.deleting]_vars
  <2> SUFFICES ASSUME TypeOK, LocalsOK, FinalizerHeld, PassInv, Next,
                      (\E p \in Ports : vips[p] # None /\ vips'[p] = None) \/ ~(pools \subseteq pools')
               PROVE  obj # None /\ obj.deleting
    OBVIOUS
  <2>1. InBackend
    BY PassStep DEF device
  <2>2. pc = "cleanup"
    BY <2>1, InMonitorPass, InPoolPass, InVIPPass DEF InBackend
  <2>3. QED BY <2>2 DEF FinalizerHeld, Finalizing
<1>2. QED BY <1>1, ObjectInv, PassInvHolds, PTL DEF Spec, TeardownOnlyWhenDeleting

----------------------------------------------------------------------------
(* Events, the work queue and the state at rest.                           *)

(* The last event the informer will apply is the object as it is.          *)
InformerCatchesUp ==
  IF watch = <<>> THEN cache = obj ELSE watch[Len(watch)] = obj

(* The metric counts the cached object, unless a pass is about to set it.  *)
Counted == ~queued /\ pc # "get" => (total = 1 <=> cache # None)

(* Unless another pass is queued, the one that runs works for the cached   *)
(* spec, and for the current nodes unless a node event is pending.         *)
SpecCurrent ==
  pc \notin {"idle", "get"} /\ ~queued => cache # None /\ cfg = cache.spec

NodesCurrent ==
  pc \in {"connect", "monitor", "pools", "vips", "close", "reget", "status"}
    /\ ~queued /\ nodeEvents = 0 => hosts = nodes

(* Without other controllers' finalizers, ours alone holds an object that  *)
(* is being deleted.                                                       *)
OnlyOurs == obj # None => ~obj.foreign /\ (obj.deleting => obj.fin)

EventInv == InformerCatchesUp /\ Counted /\ SpecCurrent /\ NodesCurrent

LEMMA StoreCatchesUp ==
  ASSUME TypeOK, NEW o \in Objects, StoreOrRemove(o) \/ Store(o)
  PROVE  InformerCatchesUp' /\ watch' # <<>>
PROOF
<1>1. watch \in Seq(Objects \cup {None})
  BY DEF TypeOK, ApiTypeOK
<1>2. PICK e \in Objects \cup {None} : watch' = Append(watch, e) /\ obj' = e
  BY <1>1, StoreFields DEF StoreOrRemove, Remove
<1>3. watch' # <<>> /\ watch'[Len(watch')] = e
  BY <1>1, <1>2
<1>4. QED BY <1>2, <1>3 DEF InformerCatchesUp

(* A write to the object sends its event.                                  *)
LEMMA UserEvents ==
  ASSUME TypeOK, EventInv, User \/ ForeignRelease
  PROVE  EventInv' /\ (LoseSecret \/ watch' # <<>>)
PROOF
<1>1. UNCHANGED <<cache, queued, pc, cfg, hosts, nodes, nodeEvents, total>>
  BY DEF User, UserCreate, UserUpdate, UserDelete, LoseSecret, UserOp, ForeignRelease, locals,
         cluster, metrics
<1>2. LoseSecret \/ (InformerCatchesUp' /\ watch' # <<>>)
  <2>1. CASE UserCreate
    <3>1. PICK s \in Specs, f \in BOOLEAN :
            Store([rv |-> 0, spec |-> s, named |-> FALSE, status |-> EmptyStatus, fin |-> FALSE,
                   foreign |-> f, deleting |-> FALSE])
      BY <2>1 DEF UserCreate
    <3>2. [rv |-> 0, spec |-> s, named |-> FALSE, status |-> EmptyStatus, fin |-> FALSE,
           foreign |-> f, deleting |-> FALSE] \in Objects
      BY DEF Objects, EmptyStatus, Statuses
    <3>3. QED BY <3>1, <3>2, StoreCatchesUp
  <2>2. CASE UserUpdate \/ UserDelete \/ ForeignRelease
    <3>1. obj \in Objects
      BY <2>2 DEF UserUpdate, UserDelete, ForeignRelease, TypeOK, ApiTypeOK
    <3>2. /\ \A x \in Specs, n \in {obj.named, FALSE} :
               [obj EXCEPT !.spec = x, !.named = n] \in Objects
          /\ [obj EXCEPT !.deleting = TRUE] \in Objects
          /\ [obj EXCEPT !.foreign = FALSE] \in Objects
      BY <3>1 DEF Objects
    <3>3. QED
      BY <2>2, <3>2, StoreCatchesUp DEF UserUpdate, UserDelete, ForeignRelease
  <2>3. QED BY <2>1, <2>2 DEF User
<1>3. InformerCatchesUp'
  BY <1>1, <1>2 DEF LoseSecret, api, EventInv, InformerCatchesUp
<1>4. Counted' /\ SpecCurrent' /\ NodesCurrent'
  BY <1>1 DEF EventInv, Counted, SpecCurrent, NodesCurrent
<1>5. QED BY <1>2, <1>3, <1>4 DEF EventInv

LEMMA DeliverEvents ==
  ASSUME TypeOK, EventInv, Deliver
  PROVE  EventInv' /\ queued'
PROOF
<1>1. /\ watch \in Seq(Objects \cup {None}) /\ watch # <<>> /\ cache' = Head(watch)
      /\ watch' = Tail(watch) /\ obj' = obj /\ queued'
  BY DEF TypeOK, ApiTypeOK, Deliver
<1>2. watch[Len(watch)] = obj
  BY <1>1 DEF EventInv, InformerCatchesUp
<1>3. CASE Len(watch) = 1
  <2>1. watch' = <<>> /\ cache' = watch[1]
    BY <1>1, <1>3
  <2>2. InformerCatchesUp'
    BY <1>1, <1>2, <1>3, <2>1 DEF InformerCatchesUp
  <2>3. QED BY <1>1, <2>2 DEF EventInv, Counted, SpecCurrent, NodesCurrent
<1>4. CASE Len(watch) # 1
  <2>0. Len(watch) \in Nat \ {0, 1}
    BY <1>1, <1>4, EmptySeq
  <2>1. watch' # <<>> /\ watch'[Len(watch')] = watch[Len(watch)]
    <3>1. /\ Len(watch') = Len(watch) - 1
          /\ \A i \in 1..Len(watch') : watch'[i] = watch[i + 1]
      BY <1>1, HeadTailProperties
    <3>2. Len(watch') \in 1..Len(watch') /\ Len(watch') + 1 = Len(watch)
      BY <2>0, <3>1
    <3>3. QED BY <3>1, <3>2
  <2>2. InformerCatchesUp'
    BY <1>1, <1>2, <2>1 DEF InformerCatchesUp
  <2>3. QED BY <1>1, <2>2 DEF EventInv, Counted, SpecCurrent, NodesCurrent
<1>5. QED BY <1>3, <1>4

LEMMA NodeEvents ==
  ASSUME TypeOK, EventInv, NodeChange \/ NodeNotify \/ RestoreSecret \/ UNCHANGED vars
  PROVE  EventInv'
PROOF
<1>1. UNCHANGED <<obj, watch, cache, pc, cfg, hosts, total>>
  BY DEF NodeChange, NodeNotify, RestoreSecret, vars, api, locals, metrics
<1>2. InformerCatchesUp'
  BY <1>1 DEF EventInv, InformerCatchesUp
<1>3. ~queued' => ~queued
  BY DEF NodeChange, NodeNotify, RestoreSecret, vars, TypeOK, FlagsTypeOK
<1>4. Counted' /\ SpecCurrent'
  BY <1>1, <1>3 DEF EventInv, Counted, SpecCurrent
<1>5. NodesCurrent'
  <2>1. CASE NodeChange
    <3>1. nodeEvents' # 0
      BY <2>1 DEF NodeChange, TypeOK, EnvTypeOK
    <3>2. QED BY <3>1 DEF NodesCurrent
  <2>2. CASE NodeNotify
    <3>1. nodes' = nodes /\ (cache # None => queued')
      BY <2>2 DEF NodeNotify, TypeOK, FlagsTypeOK
    <3>2. QED BY <1>1, <1>3, <3>1 DEF EventInv, SpecCurrent, NodesCurrent
  <2>3. CASE RestoreSecret \/ UNCHANGED vars
    <3>1. UNCHANGED <<nodes, nodeEvents, queued>>
      BY <2>3 DEF RestoreSecret, vars, cluster
    <3>2. QED BY <1>1, <3>1 DEF EventInv, NodesCurrent
  <2>4. QED BY <2>1, <2>2, <2>3
<1>6. QED BY <1>2, <1>4, <1>5 DEF EventInv

LEMMA PassReadsEvents ==
  ASSUME TypeOK, LocalsOK, EventInv,
         Take \/ GetLB \/ GetSecret \/ ListNodes \/ Connect \/ InBackend \/ BackendFailed
           \/ MonitorDone \/ PoolDone \/ VIPDone \/ Close \/ Reget \/ ConnectForCleanup
           \/ CleanupDone \/ CloseAfterCleanup
  PROVE  /\ EventInv'
         /\ UNCHANGED <<obj, watch, cache>>
         /\ pc' = "idle" => queued' \/ (cache = None /\ pc = "get")
PROOF
<1>1. UNCHANGED <<obj, watch, cache, nodes, nodeEvents>>
  BY DEF Take, GetLB, GetSecret, ListNodes, Connect, InBackend, BackendFailed, MonitorDone,
         PoolDone, VIPDone, Close, Reget, ConnectForCleanup, CleanupDone, CloseAfterCleanup,
         api, environment, cluster
<1>2. InformerCatchesUp'
  BY <1>1 DEF EventInv, InformerCatchesUp
<1>3. CASE Take
  BY <1>1, <1>2, <1>3 DEF Take, EventInv, Counted, SpecCurrent, NodesCurrent
<1>4. CASE GetLB
  <2>1. \/ queued' = TRUE
        \/ cache = None /\ total' = 0 /\ pc' = "idle" /\ pc = "get"
        \/ cache # None /\ total' = 1 /\ pc' = "secret" /\ cfg' = cache.spec
    BY <1>4 DEF GetLB, Requeue, Forget, EndPass
  <2>2. QED
    BY <1>1, <1>2, <2>1 DEF EventInv, Counted, SpecCurrent, NodesCurrent
<1>5. CASE ~Take /\ ~GetLB
  <2>1. \/ queued' = TRUE
        \/ /\ UNCHANGED <<total, cfg, queued>>
           /\ pc \notin {"idle", "get"} /\ pc' \notin {"idle", "get"}
           /\ hosts' = hosts \/ (pc' = "connect" /\ hosts' = nodes)
    <3>1. CASE InBackend \/ BackendFailed
      BY <3>1 DEF InBackend, BackendFailed, Requeue, locals, metrics
    <3>2. CASE GetSecret \/ ListNodes \/ Connect
      BY <3>2 DEF GetSecret, ListNodes, Connect, Requeue, Continue, metrics
    <3>3. CASE MonitorDone \/ PoolDone \/ VIPDone
      BY <3>3 DEF MonitorDone, PoolDone, VIPDone, metrics
    <3>4. CASE Close \/ Reget \/ ConnectForCleanup \/ CleanupDone \/ CloseAfterCleanup
      BY <3>4
      DEF Close, Reget, ConnectForCleanup, CleanupDone, CloseAfterCleanup, Requeue, Continue,
          metrics
    <3>5. QED BY <1>5, <3>1, <3>2, <3>3, <3>4
  <2>2. pc' \in {"connect", "monitor", "pools", "vips", "close", "reget", "status"} =>
          \/ pc \in {"connect", "monitor", "pools", "vips", "close", "reget", "status"}
          \/ pc' = "connect" /\ hosts' = nodes
    <3>1. CASE InBackend \/ BackendFailed \/ GetSecret \/ ListNodes \/ Connect
      BY <3>1
      DEF InBackend, BackendFailed, GetSecret, ListNodes, Connect, Requeue, EndPass, Continue,
          locals
    <3>2. CASE MonitorDone \/ PoolDone \/ VIPDone
      BY <3>2 DEF MonitorDone, PoolDone, VIPDone
    <3>3. CASE Close \/ Reget \/ ConnectForCleanup \/ CleanupDone \/ CloseAfterCleanup
      BY <3>3
      DEF Close, Reget, ConnectForCleanup, CleanupDone, CloseAfterCleanup, Requeue, EndPass,
          Continue
    <3>4. QED BY <1>5, <3>1, <3>2, <3>3
  <2>3. QED
    BY <1>1, <1>2, <2>1, <2>2 DEF EventInv, Counted, SpecCurrent, NodesCurrent
<1>6. QED BY <1>3, <1>4, <1>5

LEMMA PassWritesEvents ==
  ASSUME TypeOK, LocalsOK, EventInv, UpdateStatus \/ RemoveFinalizer \/ AddFinalizer
  PROVE  /\ EventInv'
         /\ \/ queued' = TRUE
            \/ watch' # <<>>
            \/ UpdateStatus /\ ~Conflict /\ UNCHANGED <<obj, queued>> /\ obj.status = lb.status
PROOF
<1>1. /\ UNCHANGED <<cache, nodes, nodeEvents, total>> /\ lb \in Objects
      /\ pc \notin {"idle", "get"} /\ pc' \in {"idle", "fconnect", "addFinalizer"}
  BY DEF UpdateStatus, RemoveFinalizer, AddFinalizer, Update, Requeue, Forget, EndPass,
         environment, cluster, metrics, LocalsOK
<1>2. (queued' = TRUE \/ UNCHANGED queued) /\ (UNCHANGED cfg \/ pc' = "idle")
  BY DEF UpdateStatus, RemoveFinalizer, AddFinalizer, Update, Requeue, Forget, EndPass
<1>3. CASE UpdateStatus
  <2>1. ASSUME ~Conflict, WriteStatus
        PROVE  \/ InformerCatchesUp' /\ watch' # <<>>
               \/ UNCHANGED api /\ obj.status = lb.status
    <3>1. [obj EXCEPT !.status = lb.status] \in Objects
      BY <1>1, <2>1 DEF Conflict, TypeOK, ApiTypeOK, Objects
    <3>2. QED BY <2>1, <3>1, StoreCatchesUp DEF WriteStatus
  <2>2. InformerCatchesUp'
    BY <1>1, <1>3, <2>1 DEF UpdateStatus, api, EventInv, InformerCatchesUp
  <2>3. \/ queued' = TRUE
        \/ watch' # <<>>
        \/ ~Conflict /\ UNCHANGED <<obj, queued>> /\ obj.status = lb.status
    BY <1>3, <2>1 DEF UpdateStatus, Requeue, Forget, api
  <2>4. QED
    BY <1>1, <1>2, <1>3, <2>2, <2>3 DEF EventInv, Counted, SpecCurrent, NodesCurrent
<1>4. CASE RemoveFinalizer \/ AddFinalizer
  <2>1. PICK f \in BOOLEAN : Update(f)
    BY <1>4 DEF RemoveFinalizer, AddFinalizer
  <2>2. ASSUME ~Conflict,
               StoreOrRemove([obj EXCEPT !.spec = lb.spec, !.named = lb.named, !.fin = f])
        PROVE  InformerCatchesUp' /\ watch' # <<>>
    <3>1. [obj EXCEPT !.spec = lb.spec, !.named = lb.named, !.fin = f] \in Objects
      BY <1>1, <2>2 DEF Conflict, TypeOK, ApiTypeOK, Objects
    <3>2. QED BY <2>2, <3>1, StoreCatchesUp
  <2>3. InformerCatchesUp'
    BY <1>1, <2>1, <2>2 DEF Update, api, EventInv, InformerCatchesUp
  <2>4. queued' = TRUE \/ watch' # <<>>
    BY <2>1, <2>2 DEF Update, Requeue
  <2>5. QED
    BY <1>1, <1>2, <2>3, <2>4 DEF EventInv, Counted, SpecCurrent, NodesCurrent
<1>5. QED BY <1>3, <1>4

LEMMA CrashEvents ==
  ASSUME TypeOK, Crash
  PROVE  EventInv' /\ (~queued' => obj' = None)
PROOF
<1>1. /\ cache' = obj /\ obj' = obj /\ watch' = <<>> /\ total' = 0 /\ pc' = "idle"
  BY DEF Crash, EndPass
<1>2. ~queued' => obj = None
  BY DEF Crash
<1>3. QED
  BY <1>1, <1>2 DEF EventInv, InformerCatchesUp, Counted, SpecCurrent, NodesCurrent

LEMMA EventStep ==
  ASSUME TypeOK, LocalsOK, EventInv, [Next]_vars
  PROVE  EventInv'
PROOF
<1>1. CASE Reconcile
  BY <1>1, PassReadsEvents, PassWritesEvents DEF Reconcile
<1>2. QED
  BY <1>1, UserEvents, DeliverEvents, NodeEvents, CrashEvents DEF Next

LEMMA EventInvHolds == Spec => []EventInv
PROOF
<1>1. Init => EventInv
  BY DEF Init, EventInv, InformerCatchesUp, Counted, SpecCurrent, NodesCurrent
<1>2. TypeOK /\ LocalsOK /\ EventInv /\ [Next]_vars => EventInv'
  BY EventStep
<1>3. QED BY <1>1, <1>2, TypeCorrect, PTL DEF Spec

(* The metric externallb_total is right whenever the operator is at rest,  *)
(* through failed reads, deletions, crashes and re-creations.              *)
THEOREM TotalIsRight == Spec => []TotalCounts
PROOF
<1>1. EventInv => TotalCounts
  BY DEF EventInv, InformerCatchesUp, Counted, TotalCounts, Quiescent
<1>2. QED BY <1>1, EventInvHolds, PTL

----------------------------------------------------------------------------
(* At rest, everything agrees.                                             *)

(* Nobody else's finalizer, and ours until the cleanup is over.            *)
LEMMA OnlyOursStep ==
  ASSUME ForeignFinalizer = FALSE, TypeOK, LocalsOK, FinalizerHeld, OnlyOurs, [Next]_vars
  PROVE  OnlyOurs'
PROOF
<1>1. CASE UNCHANGED obj
  BY <1>1 DEF OnlyOurs
<1>2. CASE UserCreate
  <2>1. PICK s \in Specs, f \in BOOLEAN :
          /\ f => ForeignFinalizer
          /\ Store([rv |-> 0, spec |-> s, named |-> FALSE, status |-> EmptyStatus, fin |-> FALSE,
                    foreign |-> f, deleting |-> FALSE])
    BY <1>2 DEF UserCreate
  <2>2. [rv |-> 0, spec |-> s, named |-> FALSE, status |-> EmptyStatus, fin |-> FALSE,
         foreign |-> f, deleting |-> FALSE] \in Objects
    BY DEF Objects, EmptyStatus, Statuses
  <2>3. f = FALSE
    BY <2>1
  <2>4. QED BY <2>1, <2>2, <2>3, StoreFields DEF OnlyOurs, TypeOK, ApiTypeOK
<1>3. CASE obj # None /\ UserUpdate
  <2>1. PICK s \in Specs, n \in {obj.named, FALSE} : Store([obj EXCEPT !.spec = s, !.named = n])
    BY <1>3 DEF UserUpdate
  <2>2. /\ [obj EXCEPT !.spec = s, !.named = n] \in Objects
        /\ [obj EXCEPT !.spec = s, !.named = n].deleting = obj.deleting
        /\ [obj EXCEPT !.spec = s, !.named = n].fin = obj.fin
        /\ [obj EXCEPT !.spec = s, !.named = n].foreign = obj.foreign
    BY <1>3 DEF TypeOK, ApiTypeOK, Objects
  <2>3. QED BY <1>3, <2>1, <2>2, StoreFields DEF OnlyOurs, TypeOK, ApiTypeOK
<1>4. CASE obj # None /\ UserDelete
  <2>1. /\ [obj EXCEPT !.deleting = TRUE] \in Objects
        /\ [obj EXCEPT !.deleting = TRUE].deleting
        /\ [obj EXCEPT !.deleting = TRUE].fin = obj.fin
        /\ [obj EXCEPT !.deleting = TRUE].foreign = obj.foreign
    BY <1>4 DEF TypeOK, ApiTypeOK, Objects
  <2>2. QED BY <1>4, <2>1, StoreFields
    DEF UserDelete, StoreOrRemove, Remove, OnlyOurs, TypeOK, ApiTypeOK
<1>5. CASE ForeignRelease
  BY <1>5 DEF ForeignRelease, OnlyOurs
<1>6. CASE UpdateStatus
  <2>1. lb \in Objects
    BY <1>6 DEF UpdateStatus, LocalsOK
  <2>2. ASSUME ~Conflict, WriteStatus PROVE OnlyOurs'
    <3>1. obj \in Objects /\ obj # None
      BY <2>2, NoneAssumption DEF Conflict, TypeOK, ApiTypeOK
    <3>2. /\ [obj EXCEPT !.status = lb.status] \in Objects
          /\ [obj EXCEPT !.status = lb.status].deleting = obj.deleting
          /\ [obj EXCEPT !.status = lb.status].fin = obj.fin
          /\ [obj EXCEPT !.status = lb.status].foreign = obj.foreign
      BY <2>1, <3>1 DEF Objects
    <3>3. QED BY <1>1, <2>2, <3>1, <3>2, StoreFields
      DEF WriteStatus, OnlyOurs, api, TypeOK, ApiTypeOK
  <2>3. QED BY <1>1, <1>6, <2>2 DEF UpdateStatus, api
<1>7. CASE RemoveFinalizer \/ AddFinalizer
  <2>1. PICK f \in BOOLEAN : Update(f) /\ (~f => obj # None /\ obj.deleting)
    BY <1>7 DEF RemoveFinalizer, AddFinalizer, FinalizerHeld, Finalizing
  <2>2. ASSUME ~Conflict,
               StoreOrRemove([obj EXCEPT !.spec = lb.spec, !.named = lb.named, !.fin = f])
        PROVE  OnlyOurs'
    <3>1. obj \in Objects /\ obj # None /\ lb \in Objects
      BY <1>7, <2>2, NoneAssumption
      DEF Conflict, TypeOK, ApiTypeOK, LocalsOK, RemoveFinalizer, AddFinalizer
    <3>2. /\ [obj EXCEPT !.spec = lb.spec, !.named = lb.named, !.fin = f] \in Objects
          /\ [obj EXCEPT !.spec = lb.spec, !.named = lb.named, !.fin = f].deleting = obj.deleting
          /\ [obj EXCEPT !.spec = lb.spec, !.named = lb.named, !.fin = f].fin = f
          /\ [obj EXCEPT !.spec = lb.spec, !.named = lb.named, !.fin = f].foreign = obj.foreign
      BY <3>1 DEF Objects
    <3>3. QED BY <2>1, <2>2, <3>1, <3>2, StoreFields
      DEF StoreOrRemove, Remove, OnlyOurs, TypeOK, ApiTypeOK
  <2>3. QED BY <1>1, <2>1, <2>2 DEF Update, api
<1>8. CASE ~(User \/ ForeignRelease \/ UpdateStatus \/ RemoveFinalizer \/ AddFinalizer)
  <2>1. UNCHANGED obj
    BY <1>8
    DEF Next, Reconcile, RestoreSecret, Deliver, NodeChange, NodeNotify, Crash,
        Take, GetLB, GetSecret, ListNodes, Connect, InBackend, BackendFailed, MonitorDone,
        PoolDone, VIPDone, Close, Reget, ConnectForCleanup, CleanupDone, CloseAfterCleanup, api,
        vars
  <2>2. QED BY <1>1, <2>1
<1>9. CASE User
  BY <1>1, <1>2, <1>3, <1>4, <1>9 DEF User, UserUpdate, UserDelete, LoseSecret, api
<1>10. QED BY <1>5, <1>6, <1>7, <1>8, <1>9

(* Steps that leave all that is compared alone.                            *)
LEMMA QuietRest ==
  ASSUME QuiescentInSync, UNCHANGED <<obj, device, nodes, pc, queued, watch, nodeEvents>>
  PROVE  QuiescentInSync'
PROOF
<1>1. UNCHANGED <<monitor, pools, bound, members, vips>>
  BY DEF device
<1>2. InSync => InSync'
  BY <1>1 DEF InSync, DeviceHas
<1>3. Quiescent' => Quiescent
  BY DEF Quiescent
<1>4. QED BY <1>2, <1>3 DEF QuiescentInSync

(* The one step that brings an existing object to rest: a status write     *)
(* that changes nothing, at the end of a pass for the current spec and     *)
(* nodes.                                                                  *)
LEMMA StatusRest ==
  ASSUME TypeOK, LocalsOK, Versions, OnlyOurs, PassInv, EventInv, UpdateStatus
  PROVE  QuiescentInSync'
PROOF
<1> SUFFICES ASSUME Quiescent' PROVE InSync'
  BY DEF QuiescentInSync
<1>1. /\ ~Conflict /\ UNCHANGED <<obj, queued>> /\ obj.status = lb.status
      /\ ~queued /\ watch' = <<>> /\ pc = "status" /\ pc' = "idle"
  <2>1. ~queued' /\ watch' = <<>> /\ pc' = "idle" /\ pc = "status"
    BY DEF Quiescent, UpdateStatus
  <2>2. ~Conflict /\ UNCHANGED <<obj, queued>> /\ obj.status = lb.status
    BY <2>1, PassWritesEvents
  <2>3. QED BY <2>1, <2>2
<1>2. UNCHANGED <<cache, nodes, nodeEvents, device>> /\ nodeEvents = 0
  BY DEF UpdateStatus, environment, cluster, Quiescent
<1>3. obj # None /\ obj.rv = lb.rv /\ obj \in Objects /\ lb \in Objects /\ lb # None
  BY <1>1, NoneAssumption DEF Conflict, TypeOK, ApiTypeOK, LocalsOK
<1>4. obj.spec = lb.spec
  BY <1>3 DEF Versions, Agrees
<1>5. cache = obj
  <2>1. InformerCatchesUp'
    BY PassWritesEvents DEF EventInv
  <2>2. QED BY <1>1, <1>2, <2>1 DEF InformerCatchesUp
<1>6. cfg = obj.spec /\ hosts = nodes
  BY <1>1, <1>2, <1>5 DEF EventInv, SpecCurrent, NodesCurrent
<1>7. ~obj.deleting /\ obj.fin
  <2>1. obj.deleting # obj.fin
    BY <1>1 DEF UpdateStatus, Requeue, Forget, EndPass, Quiescent
  <2>2. obj.deleting \in BOOLEAN /\ obj.fin \in BOOLEAN
    BY <1>3 DEF Objects
  <2>3. QED BY <1>3, <2>1, <2>2 DEF OnlyOurs
<1>8. DeviceHas(lb.status)
  BY <1>1, StatusDescribesDevice
<1>9. obj.status = [monitor |-> obj.spec.monitor, ip |-> obj.spec.vip,
                    handled |-> obj.spec.ports, members |-> nodes, ports |-> obj.spec.ports]
  BY <1>1, <1>4, <1>6 DEF PassInv, StatusBuilt
<1>10. DeviceHas(obj.status)'
  BY <1>1, <1>2, <1>8 DEF DeviceHas, device
<1>11. QED BY <1>1, <1>2, <1>7, <1>9, <1>10 DEF InSync

LEMMA RestStep ==
  ASSUME TypeOK, LocalsOK, Versions, OnlyOurs, PassInv, EventInv, QuiescentInSync, [Next]_vars
  PROVE  QuiescentInSync'
PROOF
<1>0. EventInv'
  BY EventStep
<1>1. CASE obj' = None
  BY <1>1 DEF QuiescentInSync, InSync
<1>2. CASE User \/ ForeignRelease
  <2>1. CASE LoseSecret
    <3>1. UNCHANGED <<obj, device, nodes, pc, queued, watch, nodeEvents>>
      BY <2>1 DEF LoseSecret, UserOp, api, backend, locals
    <3>2. QED BY <3>1, QuietRest
  <2>2. CASE ~LoseSecret
    <3>1. watch' # <<>>
      BY <1>2, <2>2, UserEvents
    <3>2. QED BY <3>1 DEF QuiescentInSync, Quiescent
  <2>3. QED BY <2>1, <2>2
<1>3. CASE RestoreSecret \/ UNCHANGED vars
  <2>1. UNCHANGED <<obj, device, nodes, pc, queued, watch, nodeEvents>>
    BY <1>3 DEF RestoreSecret, vars, api, backend, locals, cluster
  <2>2. QED BY <2>1, QuietRest
<1>4. CASE Deliver
  BY <1>4, DeliverEvents DEF QuiescentInSync, Quiescent
<1>5. CASE NodeChange
  <2>1. nodeEvents' # 0
    BY <1>5 DEF NodeChange, TypeOK, EnvTypeOK
  <2>2. QED BY <2>1 DEF QuiescentInSync, Quiescent
<1>6. CASE NodeNotify
  <2>1. UNCHANGED <<obj, cache, watch>> /\ (cache # None => queued')
    BY <1>6 DEF NodeNotify, api, TypeOK, FlagsTypeOK
  <2>2. QED
    BY <1>1, <2>1 DEF EventInv, InformerCatchesUp, QuiescentInSync, Quiescent
<1>7. CASE Crash
  BY <1>1, <1>7, CrashEvents DEF QuiescentInSync, Quiescent
<1>8. CASE Reconcile
  <2>1. CASE UpdateStatus
    BY <2>1, StatusRest
  <2>2. CASE RemoveFinalizer \/ AddFinalizer
    <3>1. ~UpdateStatus
      BY <2>2 DEF UpdateStatus, RemoveFinalizer, AddFinalizer
    <3>2. QED BY <2>2, <3>1, PassWritesEvents DEF QuiescentInSync, Quiescent
  <2>3. CASE ~(UpdateStatus \/ RemoveFinalizer \/ AddFinalizer)
    <3>1. UNCHANGED <<obj, watch, cache>> /\ (pc' = "idle" => queued' \/ cache = None)
      BY <1>8, <2>3, PassReadsEvents DEF Reconcile
    <3>2. QED
      BY <1>1, <3>1 DEF EventInv, InformerCatchesUp, QuiescentInSync, Quiescent
  <2>4. QED BY <2>1, <2>2, <2>3
<1>9. QED BY <1>2, <1>3, <1>4, <1>5, <1>6, <1>7, <1>8 DEF Next

(* No event is missed.  Whenever the operator has nothing left to do, the  *)
(* device, the status and the finalizer agree with the current spec and    *)
(* nodes, whatever was read from a stale cache, failed, conflicted or      *)
(* crashed before, and however often users and nodes changed in between.   *)
(* An object that another controller's finalizer keeps after our cleanup   *)
(* is the one exception (MCForeignFinalizer.cfg).                          *)
THEOREM AtRestInSync == ForeignFinalizer = FALSE => (Spec => []QuiescentInSync)
PROOF
<1> SUFFICES ASSUME ForeignFinalizer = FALSE PROVE Spec => []QuiescentInSync
  OBVIOUS
<1>1. Init => OnlyOurs /\ QuiescentInSync
  BY DEF Init, OnlyOurs, QuiescentInSync, InSync
<1>2. TypeOK /\ LocalsOK /\ Versions /\ FinalizerHeld /\ PassInv /\ EventInv
        /\ OnlyOurs /\ QuiescentInSync /\ [Next]_vars => OnlyOurs' /\ QuiescentInSync'
  BY OnlyOursStep, RestStep
<1>3. QED BY <1>1, <1>2, ObjectInv, PassInvHolds, EventInvHolds, PTL DEF Spec
=============================================================================
