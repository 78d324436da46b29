-------------------------------- MODULE Fleet --------------------------------
(***************************************************************************)
(* Several load balancers, the work queue between them, and the one value  *)
(* per vendor that RegisterProvider keeps for all of them: CreateBackend   *)
(* sets its host, Connect its session, and the requests of a pass go where *)
(* the session leads.  What a pass configures is reduced to Parts objects  *)
(* (monitor, pools, virtual servers) named after the load balancer.        *)
(***************************************************************************)
EXTENDS Integers, Sequences, FiniteSets

CONSTANTS
  LBs,          \* ExternalLoadBalancer objects
  Names, NameOf,   \* the name of each, without its namespace
  Devices,      \* the devices of one vendor
  Down,         \* those that refuse every request
  Hung,         \* those that accept requests and never answer
  Workers,      \* MaxConcurrentReconciles goroutines
  Parts,        \* objects a load balancer has on its device
  None,
  MaxEnvOps, MaxFaults, MaxCrashes

ASSUME FleetConstants ==
  /\ IsFiniteSet(LBs) /\ NameOf \in [LBs -> Names]
  /\ Down \cup Hung \subseteq Devices /\ Down \cap Hung = {}
  /\ None \notin LBs \cup Devices
  /\ Parts \in Nat \ {0}
  /\ {MaxEnvOps, MaxFaults, MaxCrashes} \subseteq Nat

VARIABLES
  dev,        \* dev[lb]: Spec.Provider
  deleting, gone,   \* load balancers being deleted; removed
  moved,      \* those whose Spec.Provider was changed (history)
  host,       \* the host of the provider value
  session,    \* where its client sends requests
  config,     \* config[d]: the objects on device d
  pass,       \* pass[w]: what worker w is doing
  queue,      \* the work queue
  dirty,      \* requests added while they were being handled
  delayed,    \* requests waiting out the rate limiter
  envOps, faults, crashes

object == <<dev, deleting, gone, moved>>
provider == <<host, session>>
requests == <<queue, dirty, delayed>>
bounds == <<envOps, faults, crashes>>
vars == <<object, provider, config, pass, requests, bounds>>

NoPass == [lb |-> None, dev |-> None, pc |-> "idle", i |-> 0]

Objects == [name : Names, part : 1..Parts, owner : LBs]
Passes == [lb : LBs, dev : Devices,
           pc : {"create", "connect", "write", "status", "reconnect", "clean"},
           i : 0..Parts]
InPass == {pass[w].lb : w \in Workers} \ {None}
Queued == {queue[i] : i \in DOMAIN queue}

----------------------------------------------------------------------------
(* The work queue of controller-runtime.                                   *)

(* The sequences that hold every member of S once.                         *)
Orders(S) ==
  {s \in [1..Cardinality(S) -> S] : \A i, j \in DOMAIN s : i # j => s[i] # s[j]}

(* Mutant: a request is queued once more each time. *)
Add_Again(S) ==
  /\ \E s \in Orders(S) : queue' = queue \o s
  /\ UNCHANGED dirty

(* S is added in any order; a request that is waiting is not added twice,   *)
(* one that is being handled is added when it is done.                     *)
Add(S) ==
  LET new == S \ (InPass \cup Queued) IN
  /\ \E s \in Orders(new) : queue' = queue \o s
  /\ dirty' = dirty \cup (S \cap InPass)

(* Worker w is done with its request.                                      *)
Done(w) ==
  LET lb == pass[w].lb IN
  /\ pass' = [pass EXCEPT ![w] = NoPass]
  /\ dirty' = dirty \ {lb}
  /\ queue' = IF lb \in dirty THEN Append(queue, lb) ELSE queue

(* Mutant: a failed request is tried again before all others. *)
Fail_First(w) ==
  /\ pass' = [pass EXCEPT ![w] = NoPass]
  /\ dirty' = dirty \ {pass[w].lb}
  /\ queue' = <<pass[w].lb>> \o queue
  /\ UNCHANGED <<object, provider, config, delayed, envOps, crashes>>

(* Reconcile returns an error: the request comes back after a delay.       *)
Fail(w) ==
  /\ Done(w)
  /\ delayed' = delayed \cup {pass[w].lb}
  /\ UNCHANGED <<object, provider, config, envOps, crashes>>

Retry(lb) ==
  /\ lb \in delayed
  /\ delayed' = delayed \ {lb}
  /\ Add({lb})
  /\ UNCHANGED <<object, provider, config, pass, bounds>>

----------------------------------------------------------------------------
(* A pass of Reconcile by worker w.                                        *)

GoTo(w, pc, i) == pass' = [pass EXCEPT ![w].pc = pc, ![w].i = i]

At(w, pc) == pass[w].pc = pc

(* The request is taken and the object read.                               *)
Take(w) ==
  /\ At(w, "idle") /\ queue # <<>>
  /\ LET lb == Head(queue) IN
       pass' = IF lb \in gone
                 THEN pass
                 ELSE [pass EXCEPT ![w] = [lb |-> lb, dev |-> dev[lb], pc |-> "create",
                                           i |-> 0]]
  /\ queue' = Tail(queue)
  /\ UNCHANGED <<object, provider, config, dirty, delayed, bounds>>

(* Mutant: a provider that has been created is used as it is. *)
CreateBackend_Cached(w) ==
  /\ At(w, "create")
  /\ host' = IF host = None THEN pass[w].dev ELSE host
  /\ GoTo(w, "connect", 0)
  /\ UNCHANGED <<object, session, config, requests, bounds>>

CreateBackend(w) ==
  /\ At(w, "create")
  /\ host' = pass[w].dev
  /\ GoTo(w, "connect", 0)
  /\ UNCHANGED <<object, session, config, requests, bounds>>

(* Connect opens a session to the provider's host; finalizeLoadBalancer    *)
(* does so once more.                                                      *)
Connect(w) ==
  /\ session' = host
  /\ \/ At(w, "connect") /\ GoTo(w, "write", 1)
     \/ At(w, "reconnect") /\ GoTo(w, "clean", Parts)
  /\ UNCHANGED <<object, host, config, requests, bounds>>

Same(o, w) == o.name = NameOf[pass[w].lb] /\ o.part = pass[w].i
Others(w) == {o \in config[session] : ~Same(o, w)}
Mine(w) == [name |-> NameOf[pass[w].lb], part |-> pass[w].i, owner |-> pass[w].lb]

(* HandleMonitors, HandlePool, HandleVIP: an object of the name that is     *)
(* found is edited, otherwise it is created.                               *)
Configure(w) ==
  /\ At(w, "write") /\ session \notin Down \cup Hung
  /\ config' = [config EXCEPT ![session] = Others(w) \cup {Mine(w)}]
  /\ IF pass[w].i < Parts THEN GoTo(w, "write", pass[w].i + 1) ELSE GoTo(w, "status", 0)
  /\ UNCHANGED <<object, provider, requests, bounds>>

(* After the status is written the deletion timestamp is looked at.        *)
WriteStatus(w) ==
  /\ At(w, "status")
  /\ IF pass[w].lb \in deleting
       THEN GoTo(w, "reconnect", 0) /\ UNCHANGED <<queue, dirty>>
       ELSE Done(w)
  /\ UNCHANGED <<object, provider, config, delayed, bounds>>

(* HandleCleanup, in the opposite order; then the finalizer is removed.    *)
Cleanup(w) ==
  /\ At(w, "clean") /\ session \notin Down \cup Hung
  /\ config' = [config EXCEPT ![session] = Others(w)]
  /\ IF pass[w].i > 1
       THEN GoTo(w, "clean", pass[w].i - 1) /\ UNCHANGED <<gone, queue, dirty>>
       ELSE gone' = gone \cup {pass[w].lb} /\ Done(w)
  /\ UNCHANGED <<dev, deleting, moved, provider, delayed, bounds>>

(* The request of a pass fails: the device is down, or for once.  One to a *)
(* device that hangs neither fails nor returns: the HAProxy and Netscaler   *)
(* clients are given no timeout, and Reconcile sets no deadline.           *)
Failure(w) ==
  /\ At(w, "write") \/ At(w, "clean")
  /\ session \notin Hung
  /\ Fail(w)
  /\ IF session \in Down
       THEN UNCHANGED faults
       ELSE faults < MaxFaults /\ faults' = faults + 1

Worker(w) ==
  \/ Take(w) \/ CreateBackend(w) \/ Connect(w) \/ Configure(w)
  \/ WriteStatus(w) \/ Cleanup(w) \/ Failure(w)

----------------------------------------------------------------------------
EnvOp(lb) ==
  /\ lb \notin gone
  /\ envOps < MaxEnvOps
  /\ envOps' = envOps + 1
  /\ Add({lb})
  /\ UNCHANGED <<gone, provider, config, pass, delayed, faults, crashes>>

UserDelete(lb) ==
  /\ lb \notin deleting
  /\ deleting' = deleting \cup {lb}
  /\ EnvOp(lb)
  /\ UNCHANGED <<dev, moved>>

(* Another device is named in Spec.Provider.                               *)
UserMove(lb) ==
  /\ \E d \in Devices \ {dev[lb]} : dev' = [dev EXCEPT ![lb] = d]
  /\ moved' = moved \cup {lb}
  /\ EnvOp(lb)
  /\ UNCHANGED deleting

(* The operator restarts; its informer lists every object.                 *)
Crash ==
  /\ crashes < MaxCrashes
  /\ crashes' = crashes + 1
  /\ pass' = [w \in Workers |-> NoPass]
  /\ host' = None /\ session' = None
  /\ dirty' = {} /\ delayed' = {}
  /\ queue' \in Orders(LBs \ gone)
  /\ UNCHANGED <<object, config, envOps, faults>>

----------------------------------------------------------------------------
Init ==
  /\ dev \in [LBs -> Devices] /\ deleting = {} /\ gone = {} /\ moved = {}
  /\ host = None /\ session = None
  /\ config = [d \in Devices |-> {}]
  /\ pass = [w \in Workers |-> NoPass]
  /\ queue \in Orders(LBs)
  /\ dirty = {} /\ delayed = {}
  /\ envOps = 0 /\ faults = 0 /\ crashes = 0

Next ==
  \/ \E w \in Workers : Worker(w)
  \/ \E lb \in LBs : Retry(lb) \/ UserDelete(lb) \/ UserMove(lb)
  \/ Crash

Spec == Init /\ [][Next]_vars

(* Workers go on, unless they wait for a device that hangs (no step of     *)
(* Worker is enabled then), and the rate limiter hands every request back. *)
FairSpec ==
  /\ Spec
  /\ \A w \in Workers : WF_vars(Worker(w))
  /\ \A lb \in LBs : WF_vars(Retry(lb))

----------------------------------------------------------------------------
(* Every variable is well typed; a request waits in the queue at most once  *)
(* and not while it is being handled, and no two workers handle the same    *)
(* one.                                                                    *)
TypeOK ==
  /\ dev \in [LBs -> Devices] /\ deleting \subseteq LBs /\ gone \subseteq deleting
  /\ moved \subseteq LBs
  /\ host \in Devices \cup {None} /\ session \in Devices \cup {None}
  /\ config \in [Devices -> SUBSET Objects]
  /\ pass \in [Workers -> Passes \cup {NoPass}]
  /\ \A v, w \in Workers : pass[v].lb = pass[w].lb /\ v # w => pass[v] = NoPass
  /\ queue \in Seq(LBs) /\ Len(queue) = Cardinality(Queued)
  /\ Queued \cap InPass = {} /\ dirty \subseteq InPass
  /\ delayed \subseteq LBs
  /\ envOps \in 0..MaxEnvOps /\ faults \in 0..MaxFaults /\ crashes \in 0..MaxCrashes

(* Load balancers stay apart although they share one provider value: an     *)
(* object appears on a device, changes hands or goes away only in a pass of *)
(* the load balancer that owns it, and only on the device that the pass     *)
(* read in the spec (docs: a backend never touches elements it did not      *)
(* create).                                                                *)
Touched(d) == (config[d] \ config'[d]) \cup (config'[d] \ config[d])

KeepsApart ==
  \A d \in Devices : \A o \in Touched(d) :
    \E w \in Workers : pass[w].lb = o.owner /\ pass[w].dev = d

Isolation == [][KeepsApart]_vars

Configured(lb) == \A i \in 1..Parts :
  [name |-> NameOf[lb], part |-> i, owner |-> lb] \in config[dev[lb]]

Owned(lb, d) == {o \in config[d] : o.owner = lb}

(* Every load balancer on a device that works is configured there, or      *)
(* removed with nothing left of it, unless it once had another device.     *)
Served ==
  \A lb \in LBs : dev[lb] \notin Down \cup Hung =>
    IF lb \in gone THEN lb \in moved \/ \A d \in Devices : Owned(lb, d) = {}
    ELSE lb \notin deleting /\ Configured(lb)

(* All workers wait for a device that hangs.                               *)
Stuck == \A w \in Workers : (At(w, "write") \/ At(w, "clean")) /\ session \in Hung

(* A device that refuses requests does not hold up the others: every load  *)
(* balancer on a device that works is finally served, unless the workers   *)
(* get stuck on a device that hangs.                                       *)
Independent == <>[](Served \/ Stuck)

(* Nor does a device that hangs.                                           *)
HangIsLocal == <>[]Served

(* A load balancer has objects on no device but the one its spec names.     *)
NothingElsewhere ==
  \A lb \in LBs : lb \notin InPass \cup Queued \cup delayed =>
    \A d \in Devices \ {dev[lb]} : Owned(lb, d) = {}
=============================================================================
