----------------------------- MODULE Reconciler -----------------------------
(***************************************************************************)
(* ExternalLoadBalancerReconciler (externalloadbalancer_controller.go) for *)
(* one ExternalLoadBalancer: the object in the API server, the informer's  *)
(* cache and its pending watch events, the work queue, and the reconcile   *)
(* pass step by step, with the calls it makes to BackendController.        *)
(*                                                                         *)
(* One worker runs passes (MaxConcurrentReconciles is left at its default),*)
(* so there is one pass at a time; users, nodes, watch deliveries, failed  *)
(* requests and crashes interleave with its steps.                         *)
(***************************************************************************)
EXTENDS BackendController

CONSTANTS
  Specs,             \* the specs users write
  EarlyDelete,       \* users delete objects that have no finalizer yet
  GhostReads,        \* a pass may start from the cached copy of a deleted object
  ForeignFinalizer,  \* objects may carry another controller's finalizer
  SecretLoss,        \* the credentials secret may be missing for a while
  MaxUserOps,        \* bound on what users do
  MaxNodeOps,        \* bound on node changes
  MaxCrashes,        \* bound on restarts of the operator
  RVs                \* resourceVersions

ASSUME SpecsAssumption ==
  /\ Specs \subseteq [vip : IPs, monitor : Monitors, ports : Seq(Ports) \ {<<>>},
                      selects : BOOLEAN]
  /\ None \notin Specs

ASSUME EnvironmentAssumption ==
  /\ {EarlyDelete, GhostReads, ForeignFinalizer, SecretLoss} \subseteq BOOLEAN
  /\ {MaxUserOps, MaxNodeOps, MaxCrashes} \cup RVs \subseteq Nat

VARIABLES
  obj,        \* the object in the API server, or None
  watch,      \* watch events the informer has not yet applied
  cache,      \* the informer's copy, or None
  nodes,      \* hosts of the ready nodes that match (in the informer's cache)
  nodeEvents, \* node events whose handler has not run yet
  secret,     \* the provider's credentials secret exists
  queued,     \* the request is in the work queue
  pc,         \* where Reconcile is
  lb,         \* its local lb, or None
  cfg,        \* lb.Spec as first read: monitor, pools and vips come from it
  hosts,      \* its local nodes
  idx,        \* index of the port loops
  total,      \* metric externallb_total
  series,     \* label values <<vip, ports>> of metric externallb_nodes
  userOps, nodeOps, crashes

api == <<obj, watch>>
locals == <<pc, lb, cfg, hosts, idx>>
metrics == <<total, series>>
cluster == <<nodes, nodeEvents, secret>>
bounds == <<userOps, nodeOps, crashes>>
vars == <<backend, api, cache, cluster, queued, locals, metrics, bounds>>

(* spec is what users write; named: Spec.Monitor.Name is set, which the    *)
(* controller does (Connect).                                              *)
Objects ==
  [rv : Nat, spec : Specs, named : BOOLEAN, status : Statuses, fin : BOOLEAN,
   foreign : BOOLEAN, deleting : BOOLEAN]

ASSUME NoneAssumption == None \notin Objects

PassSteps == {"idle", "get", "secret", "nodes", "connect", "monitor", "pools",
              "vips", "close", "reget", "status", "fconnect", "cleanup",
              "fclose", "rmFinalizer", "addFinalizer"}

ApiTypeOK ==
  /\ obj \in Objects \cup {None}
  /\ watch \in Seq(Objects \cup {None})

PassTypeOK ==
  /\ pc \in PassSteps
  /\ lb \in Objects \cup {None}
  /\ cfg \in Specs \cup {None}
  /\ hosts \in SUBSET Hosts
  /\ idx \in Nat

EnvTypeOK ==
  /\ cache \in Objects \cup {None}
  /\ nodes \in SUBSET Hosts
  /\ nodeEvents \in Nat
  /\ userOps \in 0..MaxUserOps
  /\ nodeOps \in 0..MaxNodeOps
  /\ crashes \in 0..MaxCrashes

MetricsTypeOK ==
  /\ total \in {0, 1}
  /\ series \in SUBSET (IPs \X Seq(Ports))

FlagsTypeOK == secret \in BOOLEAN /\ queued \in BOOLEAN

(* Every variable holds a value of its type.                               *)
TypeOK ==
  /\ BackendTypeOK
  /\ ApiTypeOK
  /\ PassTypeOK
  /\ EnvTypeOK
  /\ MetricsTypeOK
  /\ FlagsTypeOK

Init ==
  /\ BackendInit
  /\ obj = None /\ watch = <<>> /\ cache = None
  /\ nodes \in SUBSET Hosts /\ nodeEvents = 0 /\ secret = TRUE
  /\ queued = FALSE
  /\ pc = "idle" /\ lb = None /\ cfg = None /\ hosts = {} /\ idx = 0
  /\ total = 0 /\ series = {}
  /\ userOps = 0 /\ nodeOps = 0 /\ crashes = 0

----------------------------------------------------------------------------
(* The API server.  A write gives the object a new resourceVersion and     *)
(* sends a watch event; removing the last finalizer of an object marked    *)
(* for deletion removes it.                                                *)

(* resourceVersions are only compared for equality, so a new one is any    *)
(* that no copy of the object carries.                                     *)
Held == {c.rv : c \in ({obj, cache, lb} \cup {watch[i] : i \in DOMAIN watch}) \ {None}}

NewVersion == CHOOSE v \in RVs : v \notin Held

Version(o) == [o EXCEPT !.rv = NewVersion]

Store(o) ==
  /\ ~(RVs \subseteq Held)
  /\ obj' = Version(o)
  /\ watch' = Append(watch, Version(o))

Remove ==
  /\ obj' = None
  /\ watch' = Append(watch, None)

StoreOrRemove(o) ==
  IF o.deleting /\ ~o.fin /\ ~o.foreign THEN Remove ELSE Store(o)

(* Update and Status().Update carry the resourceVersion that was read: the *)
(* server rejects the write if the object has another one, or is gone.     *)
(* Mutant: the write does not carry a resourceVersion. *)
Conflict_Unchecked == obj = None

Conflict == obj # None => obj.rv # lb.rv

----------------------------------------------------------------------------
(* Users.                                                                  *)

UserOp ==
  /\ userOps < MaxUserOps
  /\ userOps' = userOps + 1
  /\ UNCHANGED <<backend, cache, nodes, nodeEvents, queued, locals, metrics,
                 nodeOps, crashes>>

UserCreate ==
  /\ obj = None
  /\ \E s \in Specs, f \in BOOLEAN :
       /\ f => ForeignFinalizer
       /\ Store([rv |-> 0, spec |-> s, named |-> FALSE, status |-> EmptyStatus,
                 fin |-> FALSE, foreign |-> f, deleting |-> FALSE])
  /\ UserOp
  /\ UNCHANGED secret

(* A user's manifest may or may not keep the monitor's name.               *)
UserUpdate ==
  /\ obj # None
  /\ \E s \in Specs \ {obj.spec}, n \in {obj.named, FALSE} :
       Store([obj EXCEPT !.spec = s, !.named = n])
  /\ UserOp
  /\ UNCHANGED secret

UserDelete ==
  /\ obj # None
  /\ ~obj.deleting
  /\ EarlyDelete \/ obj.fin
  /\ StoreOrRemove([obj EXCEPT !.deleting = TRUE])
  /\ UserOp
  /\ UNCHANGED secret

LoseSecret ==
  /\ SecretLoss /\ secret
  /\ secret' = FALSE
  /\ UserOp
  /\ UNCHANGED api

RestoreSecret ==
  /\ ~secret
  /\ secret' = TRUE
  /\ UNCHANGED <<backend, api, cache, nodes, nodeEvents, queued, locals, metrics,
                 bounds>>

(* The other controller releases its finalizer.                            *)
ForeignRelease ==
  /\ obj # None
  /\ obj.deleting /\ obj.foreign
  /\ StoreOrRemove([obj EXCEPT !.foreign = FALSE])
  /\ UNCHANGED <<backend, cache, cluster, queued, locals, metrics, bounds>>

----------------------------------------------------------------------------
(* The informers and the work queue.                                       *)

(* A watch event of the object reaches the cache and enqueues the request. *)
Deliver ==
  /\ watch # <<>>
  /\ cache' = Head(watch)
  /\ watch' = Tail(watch)
  /\ queued' = TRUE
  /\ UNCHANGED <<backend, obj, cluster, locals, metrics, bounds>>

(* A node becomes ready or not, gets or loses the labels, joins or leaves. *)
NodeChange ==
  /\ nodeOps < MaxNodeOps
  /\ \E S \in (SUBSET Hosts) \ {nodes} : nodes' = S
  /\ nodeEvents' = nodeEvents + 1
  /\ nodeOps' = nodeOps + 1
  /\ UNCHANGED <<backend, api, cache, secret, queued, locals, metrics, userOps, crashes>>

(* The map function of the node watch: it lists the load balancers in the  *)
(* cache and enqueues those whose labels the node has.                     *)
NodeNotify ==
  /\ nodeEvents > 0
  /\ nodeEvents' = nodeEvents - 1
  /\ queued' = (queued \/ cache # None)
  /\ UNCHANGED <<backend, api, cache, nodes, secret, locals, metrics, bounds>>

----------------------------------------------------------------------------
(* Reconcile.  Leaving a pass ends the life of its locals.                 *)

EndPass == pc' = "idle" /\ lb' = None /\ cfg' = None /\ hosts' = {} /\ idx' = 0

(* A returned error puts the request back into the queue.                  *)
Requeue == EndPass /\ queued' = TRUE

(* A returned nil error does not.                                          *)
Forget == EndPass /\ UNCHANGED queued

Continue(s) == pc' = s /\ UNCHANGED <<lb, cfg, hosts, idx, queued>>

environment == <<cache, cluster, bounds>>

Take ==
  /\ pc = "idle" /\ queued
  /\ pc' = "get"
  /\ queued' = FALSE
  /\ UNCHANGED <<backend, api, environment, lb, cfg, hosts, idx, metrics>>

(* Mutant: the metric is only set for an object that exists. *)
GetLB_LateMetric ==
  /\ pc = "get"
  /\ GhostReads \/ cache = None \/ obj # None
  /\ IF cache = None
       THEN Forget /\ UNCHANGED total
       ELSE /\ pc' = "secret"
            /\ lb' = cache
            /\ cfg' = cache.spec
            /\ total' = 1
            /\ UNCHANGED <<hosts, idx, queued>>
  /\ UNCHANGED <<backend, api, environment, series>>

(* List, metric externallb_total, and Get.  Any of the reads may fail.     *)
GetLB ==
  /\ pc = "get"
  /\ GhostReads \/ cache = None \/ obj # None
  /\ \/ Fault /\ Requeue /\ UNCHANGED total
     \/ /\ total' = IF cache = None THEN 0 ELSE 1
        /\ \/ Fault /\ Requeue
           \/ cache = None /\ Forget /\ UNCHANGED faults
           \/ /\ cache # None
              /\ pc' = "secret"
              /\ lb' = cache
              /\ cfg' = cache.spec
              /\ UNCHANGED <<hosts, idx, queued, faults>>
  /\ UNCHANGED <<device, frame, api, environment, series>>

(* The credentials, and the check that the spec selects nodes at all.      *)
GetSecret ==
  /\ pc = "secret"
  /\ \/ Fault /\ Requeue
     \/ ~(secret /\ cfg.selects) /\ Requeue /\ UNCHANGED faults
     \/ secret /\ cfg.selects /\ Continue("nodes") /\ UNCHANGED faults
  /\ UNCHANGED <<device, frame, api, environment, metrics>>

Labels(spec) == <<spec.vip, spec.ports>>

(* Mutant: label values in the wrong order. *)
ListNodes_Swapped ==
  /\ pc = "nodes"
  /\ pc' = "connect"
  /\ hosts' = nodes
  /\ series' = series \cup {<<cfg.ports, cfg.vip>>}
  /\ UNCHANGED <<backend, api, environment, lb, cfg, idx, queued, total>>

(* List the nodes, and metric externallb_nodes.                            *)
ListNodes ==
  /\ pc = "nodes"
  /\ \/ Fault /\ Requeue /\ UNCHANGED series
     \/ /\ pc' = "connect"
        /\ hosts' = nodes
        /\ series' = series \cup {Labels(cfg)}
        /\ UNCHANGED <<lb, cfg, idx, queued, faults>>
  /\ UNCHANGED <<device, frame, api, environment, total>>

(* CreateBackend and Connect.  The monitor then gets its name, in lb.Spec. *)
Connect ==
  /\ pc = "connect"
  /\ \/ /\ pc' = "monitor"
        /\ lb' = [lb EXCEPT !.named = TRUE]
        /\ Call("getMonitor", 0, {})
        /\ UNCHANGED <<cfg, hosts, idx, queued>>
        /\ UNCHANGED faults
     \/ /\ Fault
        /\ Requeue
        /\ UNCHANGED frame
  /\ UNCHANGED <<device, api, environment, metrics>>

(* The step of Reconcile at which an operation of the backend runs.        *)
InBackend ==
  /\ result = "none"
  /\ \/ pc = "monitor" /\ HandleMonitors(cfg.monitor)
     \/ pc = "pools" /\ HandlePool(cfg.ports[idx], hosts)
     \/ pc = "vips" /\ HandleVIP(cfg.ports[idx], cfg.vip)
     \/ pc = "cleanup" /\ HandleCleanup(lb.status)
  /\ UNCHANGED <<api, environment, locals, queued, metrics>>

(* Mutant: the error is logged and dropped. *)
BackendFailed_Dropped ==
  /\ result = "err"
  /\ result' = "none"
  /\ Forget
  /\ UNCHANGED <<device, step, toAdd, toDel, at, faults, api, environment, metrics>>

(* Mutant: a failed cleanup does not keep the finalizer. *)
BackendFailed_Cleanup ==
  /\ result = "err"
  /\ result' = "none"
  /\ IF pc = "cleanup" THEN Continue("fclose") ELSE Requeue
  /\ UNCHANGED <<device, step, toAdd, toDel, at, faults, api, environment, metrics>>

(* The operation returned an error, and so does Reconcile.                 *)
BackendFailed ==
  /\ result = "err"
  /\ result' = "none"
  /\ Requeue
  /\ UNCHANGED <<device, step, toAdd, toDel, at, faults, api, environment, metrics>>

(* Mutant: VIPs are handled before pools. *)
MonitorDone_VIPs ==
  /\ pc = "monitor" /\ result = "ok"
  /\ pc' = "vips" /\ idx' = 1
  /\ Call("getVIP", 0, {})
  /\ UNCHANGED <<device, faults, api, environment, lb, cfg, hosts, queued, metrics>>

MonitorDone ==
  /\ pc = "monitor" /\ result = "ok"
  /\ pc' = "pools" /\ idx' = 1
  /\ Call("getPool", 0, {})
  /\ UNCHANGED <<device, faults, api, environment, lb, cfg, hosts, queued, metrics>>

(* One turn of the pool loop is over.                                      *)
PoolDone ==
  /\ pc = "pools" /\ result = "ok"
  /\ IF idx < Len(cfg.ports)
       THEN pc' = "pools" /\ idx' = idx + 1 /\ Call("getPool", 0, {})
       ELSE pc' = "vips" /\ idx' = 1 /\ Call("getVIP", 0, {})
  /\ UNCHANGED <<device, faults, api, environment, lb, cfg, hosts, queued, metrics>>

VIPDone ==
  /\ pc = "vips" /\ result = "ok"
  /\ IF idx < Len(cfg.ports)
       THEN /\ pc' = "vips" /\ idx' = idx + 1
            /\ Call("getVIP", 0, {})
       ELSE /\ pc' = "close" /\ idx' = 0
            /\ result' = "none" /\ UNCHANGED <<step, toAdd, toDel, at>>
  /\ UNCHANGED <<device, faults, api, environment, lb, cfg, hosts, queued, metrics>>

(* Close saves or commits what the pass did.                               *)
Close ==
  /\ pc = "close"
  /\ \/ Continue("reget") /\ UNCHANGED faults
     \/ Fault /\ Requeue
  /\ UNCHANGED <<device, frame, api, environment, metrics>>

NewStatus(o) ==
  lb' = [o EXCEPT !.status = [monitor |-> cfg.monitor, ip |-> cfg.vip,
                              handled |-> cfg.ports, members |-> hosts,
                              ports |-> o.spec.ports]]

(* Mutant: the whole status is built from the second read. *)
Reget_Second ==
  /\ pc = "reget"
  /\ LET o == IF cache = None THEN lb ELSE cache IN
       lb' = [o EXCEPT !.status = [monitor |-> o.spec.monitor, ip |-> o.spec.vip,
                                   handled |-> o.spec.ports, members |-> hosts,
                                   ports |-> o.spec.ports]]
  /\ pc' = "status"
  /\ UNCHANGED <<backend, api, environment, cfg, hosts, idx, queued, metrics>>

(* The second Get, whose error is ignored, and the new status: its VIPs,   *)
(* pools and monitor are those of this pass, its ports those just read.    *)
(* After an error lb is still the copy whose monitor Connect named.        *)
Reget ==
  /\ pc = "reget"
  /\ \/ cache # None /\ NewStatus(cache) /\ UNCHANGED faults
     \/ cache = None /\ NewStatus(lb) /\ UNCHANGED faults
     \/ Fault /\ NewStatus(lb)
  /\ pc' = "status"
  /\ UNCHANGED <<device, frame, api, environment, cfg, hosts, idx, queued, metrics>>

(* Writing what the object already holds changes nothing.  But nodes and   *)
(* members are lists, in the order the informer listed the nodes in: with  *)
(* two or more of them the same content may be in another order.           *)
WriteStatus ==
  \/ obj.status = lb.status /\ UNCHANGED api
  \/ /\ obj.status # lb.status \/ Cardinality(lb.status.members) > 1
     /\ Store([obj EXCEPT !.status = lb.status])

(* The server's answer is decoded over lb: a monitor's name that the       *)
(* server does not have stays.                                             *)
Answer == [obj' EXCEPT !.named = obj'.named \/ lb.named]

(* Mutant: the deletion timestamp is not looked at. *)
UpdateStatus_Always ==
  /\ pc = "status"
  /\ \/ Conflict /\ Requeue /\ UNCHANGED <<api, faults>>
     \/ /\ ~Conflict /\ WriteStatus /\ UNCHANGED faults
        /\ pc' = IF obj.fin THEN "fconnect" ELSE "addFinalizer"
        /\ lb' = Answer
        /\ UNCHANGED <<cfg, hosts, idx, queued>>
  /\ UNCHANGED <<device, frame, environment, metrics>>

(* Status().Update, then the decision to finalize, to add the finalizer or *)
(* to return, on the object the server answered with.                      *)
UpdateStatus ==
  /\ pc = "status"
  /\ \/ Conflict /\ Requeue /\ UNCHANGED <<api, faults>>
     \/ ~Conflict /\ Fault /\ Requeue /\ (UNCHANGED api \/ WriteStatus)
     \/ /\ ~Conflict /\ WriteStatus /\ UNCHANGED faults
        /\ IF obj.deleting = obj.fin
             THEN /\ pc' = IF obj.deleting THEN "fconnect" ELSE "addFinalizer"
                  /\ lb' = Answer
                  /\ UNCHANGED <<cfg, hosts, idx, queued>>
             ELSE Forget
  /\ UNCHANGED <<device, frame, environment, metrics>>

(* Mutant: the cleanup starts with the pools. *)
ConnectForCleanup_Pools ==
  /\ pc = "fconnect"
  /\ Continue("cleanup") /\ Call("cleanPools", 1, {}) /\ UNCHANGED faults
  /\ UNCHANGED <<device, api, environment, metrics>>

(* finalizeLoadBalancer: Connect, HandleCleanup (InBackend), Close and the *)
(* metric's removal.                                                       *)
ConnectForCleanup ==
  /\ pc = "fconnect"
  /\ \/ Continue("cleanup") /\ Call("cleanVIPs", 1, {}) /\ UNCHANGED faults
     \/ Fault /\ Requeue /\ UNCHANGED frame
  /\ UNCHANGED <<device, api, environment, metrics>>

CleanupDone ==
  /\ pc = "cleanup" /\ result = "ok"
  /\ result' = "none"
  /\ Continue("fclose")
  /\ UNCHANGED <<device, step, toAdd, toDel, at, faults, api, environment, metrics>>

(* Mutant: the metric of a deleted object is kept. *)
CloseAfterCleanup_Kept ==
  /\ pc = "fclose"
  /\ Continue("rmFinalizer")
  /\ UNCHANGED <<series, faults>>
  /\ UNCHANGED <<device, frame, api, environment, total>>

CloseAfterCleanup ==
  /\ pc = "fclose"
  /\ \/ /\ Continue("rmFinalizer")
        /\ series' = series \ {Labels(lb.spec)}
        /\ UNCHANGED faults
     \/ Fault /\ Requeue /\ UNCHANGED series
  /\ UNCHANGED <<device, frame, api, environment, total>>

(* Update writes the whole object but its status: spec and finalizers.     *)
Update(fin) ==
  LET write == StoreOrRemove([obj EXCEPT !.spec = lb.spec, !.named = lb.named, !.fin = fin]) IN
  /\ \/ Conflict /\ Requeue /\ UNCHANGED <<api, faults>>
     \/ ~Conflict /\ Fault /\ Requeue /\ (UNCHANGED api \/ write)
     \/ ~Conflict /\ write /\ Forget /\ UNCHANGED faults
  /\ UNCHANGED <<device, frame, environment, metrics>>

RemoveFinalizer == pc = "rmFinalizer" /\ Update(FALSE)

AddFinalizer == pc = "addFinalizer" /\ Update(TRUE)

(* The process dies and a new one starts: its informers list the current   *)
(* objects and every existing object is enqueued.                          *)
Crash ==
  /\ crashes < MaxCrashes
  /\ crashes' = crashes + 1
  /\ cache' = obj /\ watch' = <<>> /\ queued' = (obj # None) /\ nodeEvents' = 0
  /\ EndPass
  /\ Return("none")
  /\ total' = 0 /\ series' = {}
  /\ UNCHANGED <<device, faults, obj, nodes, secret, userOps, nodeOps>>

----------------------------------------------------------------------------
User == UserCreate \/ UserUpdate \/ UserDelete \/ LoseSecret

(* The single worker, one step of Reconcile at a time.                     *)
Reconcile ==
  \/ Take \/ GetLB \/ GetSecret \/ ListNodes \/ Connect
  \/ InBackend \/ BackendFailed \/ MonitorDone \/ PoolDone \/ VIPDone
  \/ Close \/ Reget \/ UpdateStatus
  \/ ConnectForCleanup \/ CleanupDone \/ CloseAfterCleanup
  \/ RemoveFinalizer \/ AddFinalizer

Next ==
  \/ User \/ RestoreSecret \/ ForeignRelease
  \/ Deliver \/ NodeChange \/ NodeNotify
  \/ Reconcile \/ Crash

(* The worker, the informer and the event handlers are goroutines the Go   *)
(* scheduler keeps running; nothing else is fair.  A request to the device *)
(* is assumed to return, with an answer or an error: no timeout ends one   *)
(* that does not, which is Fleet's matter (Hung).                          *)
Fairness ==
  /\ WF_vars(Reconcile)
  /\ WF_vars(Deliver)
  /\ WF_vars(NodeNotify)

Spec == Init /\ [][Next]_vars

FairSpec == Spec /\ Fairness

----------------------------------------------------------------------------
(* Properties.                                                             *)

(* No work is left: the operator does nothing until something changes.     *)
Quiescent == pc = "idle" /\ ~queued /\ watch = <<>> /\ nodeEvents = 0

(* The device holds what status st lists.                                  *)
DeviceHas(st) ==
  /\ monitor = st.monitor
  /\ \A i \in DOMAIN st.handled :
       LET p == st.handled[i] IN
         vips[p] = st.ip /\ p \in pools \cap bound /\ members[p] = st.members

(* Device and status follow the spec and the nodes, and the finalizer is   *)
(* in place.                                                               *)
InSync ==
  obj # None =>
    /\ ~obj.deleting /\ obj.fin
    /\ obj.status = [monitor |-> obj.spec.monitor, ip |-> obj.spec.vip,
                     handled |-> obj.spec.ports, members |-> nodes,
                     ports |-> obj.spec.ports]
    /\ DeviceHas(obj.status)

(* No event is missed: whenever the operator has nothing left to do, the   *)
(* device, the status and the finalizer agree with the current spec and    *)
(* nodes, whatever was read from a stale cache, failed or crashed before.  *)
QuiescentInSync == Quiescent => InSync

(* An object that is gone leaves nothing on the device: HandleCleanup and  *)
(* the finalizer together remove everything that was configured.           *)
NoOrphans == obj = None /\ Quiescent => DeviceEmpty

(* At rest, the device serves the spec's ports and no other: a port that   *)
(* was taken out of the spec is no longer exposed.                         *)
NoExtraPorts ==
  Quiescent /\ obj # None =>
    \A p \in Ports : vips[p] # None => p \in {obj.spec.ports[i] : i \in DOMAIN obj.spec.ports}

(* externallb_total counts the objects once the operator is at rest.       *)
TotalCounts == Quiescent => (total = 1 <=> obj # None)

(* An object that is gone leaves no series of externallb_nodes behind.     *)
NoStaleSeries == obj = None /\ Quiescent => series = {}

(* A status write reports what holds at that moment: its VIPs, pools,      *)
(* members and monitor are on the device, and its ports, which come from   *)
(* the second read, are those of the spec it is stored with (whether or    *)
(* not this pass configured them).                                         *)
StatusIsObserved ==
  [][obj # None /\ obj' # None /\ obj'.status # obj.status =>
       DeviceHas(obj'.status) /\ obj'.status.ports = obj'.spec.ports]_vars

(* The ports a status lists are served when it is written.                 *)
StatusPortsServed ==
  [][obj # None /\ obj' # None /\ obj'.status # obj.status =>
       \A i \in DOMAIN obj'.status.ports :
         LET p == obj'.status.ports[i] IN vips[p] # None /\ p \in pools]_vars

(* Only users change what users write in a spec: the resourceVersion check *)
(* keeps the operator's Update from writing back a spec it read earlier.   *)
(* All the operator may do to a spec is to name its monitor.               *)
SpecOwnedByUser ==
  [][obj # None /\ obj' # None /\ (obj'.spec # obj.spec \/ (obj.named /\ ~obj'.named))
       => userOps' # userOps]_vars

(* A VIP or pool is only ever removed while the object is being deleted.   *)
TeardownOnlyWhenDeleting ==
  [][(\E p \in Ports : vips[p] # None /\ vips'[p] = None) \/ ~(pools \subseteq pools')
       => obj # None /\ obj.deleting]_vars

(* Once users, nodes and failures leave it alone, the operator gets in     *)
(* sync and stays so, and an object being deleted goes away.  It rests,    *)
(* too, unless there are nodes whose order its status writes may change.   *)
Settles == <>[](InSync /\ (Quiescent \/ (obj # None /\ Cardinality(nodes) > 1)))

(* The operator comes to rest once users, nodes and failures leave it      *)
(* alone, whatever the number of nodes.                                    *)
Rests == <>[]Quiescent
=============================================================================
