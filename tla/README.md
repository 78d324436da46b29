# Formal model of the external load balancer operator

TLA+ modules, TLC configurations and TLAPS proofs for `lbconfig-operator`, the
Kubernetes operator that keeps external load balancers (F5 BIG-IP, Citrix ADC,
HAProxy) in step with `ExternalLoadBalancer` objects and cluster nodes.

## 1. The system

| part | state it keeps | operations | talks to |
|---|---|---|---|
| Reconciler (`externalloadbalancer_controller.go`) | the locals of a pass, the metrics `externallb_total` and `externallb_nodes` | `Reconcile`, `finalizeLoadBalancer`, `addFinalizer` | API server through a cached client, BackendController |
| Node watch (`SetupWithManager`) | informer cache, work queue | event filter, map function from a node to requests | node informer, work queue |
| Node selection (`utility_functions.go`) | none | `getNodeIP`, `hasNodeChanged`, `computeLabels`, `containsLabels` | called by the two above |
| BackendController (`backend_controller.go`) | none between calls | `HandleMonitors`, `HandlePool`, `HandleVIP`, `HandleCleanup` | a `Provider` |
| Provider registry | one provider value per vendor | `RegisterProvider`, `CreateBackend` | providers |
| HAProxy provider | transaction, version and monitor of the pass | the 20 methods of `Provider` inside a Data Plane API transaction | HAProxy |
| F5 provider | host, session, balancing method | the same methods, one to three requests each | F5 BIG-IP |
| Netscaler provider | host, session, balancing method | the same methods, one or two requests each; `Close` saves | Citrix ADC |
| Dummy provider | none | logs | nothing |
| Work queue | requests waiting, being handled, delayed | add, take, retry | reconciler |
| Manager start-up (`cmd/main.go`) | flags | starts one manager, leader election off by default | controller-runtime |

One worker runs passes: `MaxConcurrentReconciles` is not set. A pass reads the
object, the secret and the nodes from the informer cache, configures monitor,
pools and virtual servers one request at a time, reads the object *again*,
writes the status, and only then looks at the deletion timestamp: it cleans up
and removes the finalizer, or adds the finalizer if it is missing. Any error
returns from the pass and requeues the request.

What is hard about it: cached reads are stale; users, nodes, watch events and
restarts interleave with every step; a request may fail before or after the
device has carried it out; a provider's method is often several requests, and some
reads drop their errors; one provider value per vendor serves all load balancers, and no
request to a device has a deadline; the cleanup works from a status that one pass wrote and
another may have left incomplete; the status is written with lists whose order may change
from pass to pass; the finalizer is written last. `PROJECT.json`
lists these hazards at their lines, with the properties that would catch them.

What makes each part correct: the backend changes only what it is asked to and
reports success only when it is true; the reconciler misses no event, reports
what it observed, never overwrites a user's change and leaves nothing behind;
the node watch drops no change that matters; the HAProxy provider is
all-or-nothing and leaves no transaction open; the other providers implement
the backend's contract although they work request by request; load balancers
never touch each other's objects, and none waits for another's refusing device.

## 2. Modules

| module | models | notes |
|---|---|---|
| `Provider` | the `Provider` interface's effect on the device | monitor, pools, monitor bindings, members and VIPs of one load balancer, keyed by port as the names `Pool-<lb>-<port>` are |
| `BackendController` | the four `Handle` operations, one action per request | `step`, `toAdd`, `toDel`, `at` are the operation's frame |
| `BackendContract` | abstract: what an operation promises | `Goal`, `Allowed` |
| `BackendCalls` | a caller that issues operations in any legal order | refines `BackendContract` |
| `Reconciler` | one object, API server, informer, queue, the pass, metrics | extends `BackendController`: its requests are steps of the pass |
| `NodeSelection` | the pure functions on labels and nodes | operators |
| `NodeWatch` | filter, map function, queue for several load balancers | a pass is reduced to the members it computes |
| `HAProxyProvider` | the transactional provider under configuring and cleaning passes | version, transaction, other clients |
| `ProviderPass` | the passes of one load balancer as a client of a provider | which method calls an answer leads to; `todo` holds the calls to come |
| `NetscalerProvider` | the Citrix ADC provider, one action per NITRO request | maps its device to `BackendContract` |
| `F5Provider` | the F5 BIG-IP provider, one action per iControl request | maps its device to `BackendContract` |
| `DummyProvider` | the provider without a device | |
| `Vendors` | composes the three with `ProviderPass`: the vendor of the spec selects the provider | the properties of the vendors |
| `Fleet` | several load balancers, work queue, devices and the shared provider value | what a pass configures is reduced to named objects |
| `BackendProofs` | lemmas on the `Handle` operations | used by the next three |
| `ContractProofs`, `ReconcilerProofs`, `PassProofs` | theorems about `BackendCalls` and `Reconciler` | section 5 |
| `NodeWatchProofs`, `HAProxyProofs`, `FleetProofs`, `VendorProofs` | theorems about the module each is named after | section 5 |
| `MC*` | TLC instances | |

State and code. `Reconciler` keeps the program counter `pc` and the locals `lb`,
`cfg` (the spec as first read), `hosts` and `idx`; each `pc` value is a stretch of
`Reconcile` between two calls that another actor can come between. `obj` is the
object in the API server, `cache` the informer's copy, `watch` the events between
them. `Store`, `Remove` and `Conflict` are the API server's optimistic concurrency
and finalizers, from how the code uses them. A status is abstracted to the ports
handled, the shared VIP address and members, the monitor and `Status.Ports`;
names are functions of the port and are left out, but for one: the pass puts the monitor's
name into its copy of the spec (line 289), and `named` says whether a copy has it, because
`Update` may write that copy back. Nodes and members are sets; in the code they are lists in
the order the informer's `List` answers in, and `WriteStatus` has what that changes: with two
or more nodes a status of the same content may still be a write, a new resourceVersion and an
event. resourceVersions are only compared for equality, so `NewVersion` is any member of
`RVs` that no copy in use carries (`RVs` is large enough that one is always free, the queues
being as short as the other bounds make them). Definitions named `X_Something`
below a `Mutant` comment are deliberately wrong variants of `X`; they show that a
property notices the mistake and are no part of any specification.

Abstractions worth knowing. Monitor parameters are one value. `StrictDelete`
selects a device that refuses to delete what is missing or in use. An operator
restart empties the informer, which then lists the current object. A node is its
address in `Reconciler` and is looked at in detail in `NodeWatch`. In
`HAProxyProvider` each provider method is one step, because what a failed method
has done stays in a transaction that is never committed. How HAProxy answers
(a taken server name and a nameless replace are refused) is modelled from how the
provider uses it; the nameless replace may also be accepted. `reply` is how it answers a
replaced backend, 200 or 202: `EditPool` goes on to the servers only after 200. An empty server
list may be answered as null, on which the pass panics with its transaction open (a branch
of `GetPool`, counted in `lost`).

The vendors. `ProviderPass` has the control of `HandleMonitors`, `HandlePool`,
`HandleVIP` and `HandleCleanup` once more, but as sequences of method calls, so that a
provider's module can split each call into the requests it makes; `at` counts the
requests a method has made. `MemberCalls` lists the members to add or to delete in one
order; in the code it is the order of the node list, which may differ in every pass. The calls for
different members are independent of one another, and the one thing the order does decide,
whether a status is written again, is in `WriteStatus`. `Vendors` shows that the result still implements
`BackendContract` (`NetscalerContract`, `F5Contract`: `INSTANCE ... WITH` the ADC's or the
BIG-IP's objects mapped to the interface's device; `SpecWithRestarts` adds the
abandonment of a call to the contract). A virtual server of the ADC counts as a VIP
only when its service group is bound. Taken from how the code and its tests use the
devices:

- The ADC's `AddResource` creates or updates (the tests expect `?idempotent=yes`), and a
  field that is left out of the request keeps its value.
- Deleting what is missing succeeds. A cleanup always follows a configuring pass, so it
  meets missing objects only after its own earlier attempts.
- The object carries the finalizer from the start; what happens before is
  `Reconciler`'s matter.
- `strings.Trim` and `TrimLeft` take a set of characters, so a path or a monitor name that
  begins or ends with one of them is read back too short and edited in every pass.
  `Clipped` holds such paths; `NameClipped` says that the load balancer's name has such
  an end.
- The F5 provider is modelled in its default partition, and `icmp` monitors like `http` ones.

`Fleet` takes from a pass only what load balancers share: the worker, the queue, the host
and the session of the provider value, and names on the devices. `Parts` objects stand
for monitor, pools and VIPs. Devices in `Down` refuse every request. Devices in `Hung` accept
requests and never answer: neither the HAProxy nor the NITRO client is given a timeout, so
the worker that has sent one waits for ever.

## 3. Runs

| run | question | bounds |
|---|---|---|
| `backend_contract` | do the operations implement the contract, and send only writes the device needs? | 2 ports, hosts, IPs, monitors, 1 failure, strict device |
| `reconciler` | is the device right whenever the operator rests, is nothing orphaned, is the status true, are users' specs safe? | 1 port, 1 host, 2 specs, 3 user operations, 1 node change, 1 failure, 1 restart, lenient device |
| `reconciler_hostile` | which of these hold with no restriction on the environment? | 2 ports, specs with different ports and an invalid one, early deletes, ghost reads, foreign finalizers, lost secrets, 1 restart, strict device |
| `reconciler_live` | does the operator get in sync for good, complete deletions, and rest with at most one node? | 1 spec with 1 port, 2 hosts, 2 user operations, 1 node change, 1 failure, 1 restart, strict device |
| `node_watch` | is a node change ever missed? | 1 node in 12 states, 2 load balancers, 2 pending events |
| `haproxy` | is HAProxy's configuration always complete, and finally the wanted one? | 1 port, 2 nodes, 2 monitors, answers 200 and 202, 2 changes, 1 failure, 1 lost deletion, lost start or null list, 1 commit by another client, 1 restart |
| `haproxy_hostile` | does every error path close its transaction? | 1 node that changes address, 2 VIPs, otherwise as above |
| `vendors` | do the request-by-request providers implement the contract, is the ADC saved at rest, and is the device finally as asked for good, or empty? | 3 vendors, 2 ports, 2 hosts, 2 specs, 2 changes, 1 failure, 1 restart (inside a method too on the F5) |
| `fleet` | do load balancers that share a worker and a provider value stay apart, and does a device that refuses hold up no other, unless the worker waits for one that hangs? | 2 load balancers, 4 devices of which 1 refuses and 1 hangs, 2 objects each, 2 user operations, 1 failure, 1 restart |

The bounds let each hazard happen at least once together with each other: one
failure is enough because after it the pass restarts from what it finds; three
user operations are create, change and delete; two ports are needed where loops
and partial work matter, one where interleavings do. `ListErrors`, `EarlyDelete`,
`GhostReads`, `ForeignFinalizer`, `SecretLoss`, `HostChange` and `VipChange` switch
parts of the environment on. In `vendors`, `MCFallible` lists the requests that may fail:
all but those whose failure the code never repairs, which the configurations below
take one at a time. `fleet` has no two load balancers of one name and one worker, as the code sets up.

`reconciler` uses a symmetry: its two specs differ in address and monitor only, and exchanging
both exchanges the specs. It checks no liveness, so this is sound.

Deadlock is not checked where the system may rest (all runs of `MCReconciler`,
`MCHAProxy`, `MCVendors` and `MCFleet`); it is in `backend_contract` and `node_watch`.

Runs that show a disagreement between the code and what the repository says of
it (each a finding in `PROJECT.json`):

- `early_delete`: an object deleted before its first pass has added the finalizer
  leaves its configuration on the device.
- `port_removed`: a port taken out of the spec stays exposed.
- `netscaler_half_pool`: a restart between the two requests of the Netscaler's `CreatePool`
  leaves a service group without a monitor; `GetPool` then panics in every pass (it takes
  element 0 of an empty list), although the next line handles a pool without a monitor.

Further configurations, to be run by hand (`tlc -config X.cfg M`); each one ends with
a counterexample. Where one serves several properties, it checks the first it names and lists
the others in comments, to be put in its place:

| cfg and module | property | what it shows |
|---|---|---|
| `MCGhostRead`, `MCReconciler` | `NoOrphans` | a pass that starts from the cached copy of an object that has just gone configures the device for nobody |
| `MCForeignFinalizer`, `MCReconciler` | `NoOrphans` | while another finalizer keeps the object, the pass after the removal of ours configures the device again and never cleans up |
| `MCTwicePort`, `MCReconciler` | `Settles` | a spec that lists a port twice cannot be deleted from a strict device: the second `DeleteVIP` fails in every pass |
| `MCSpecChange`, `MCReconciler` | `StatusPortsServed` | `Status.Ports` comes from the second read: it may list a port that no pass has configured yet |
| `MCNeverRests`, `MCReconciler` | `Rests` | with two nodes the operator may answer its own status writes for ever, each a permutation of the last |
| `MCSpecChange`, `MCReconciler` | `NoStaleSeries` | a changed spec leaves the metric series of its earlier labels behind |
| `MCNodeListError`, `MCNodeWatch` | `NoMissedNodeChange` | a failed list in the map function drops the node event |
| `MCNodeSameName`, `MCNodeWatch` | `NoMissedNodeChange` | of two load balancers of one name in two namespaces, one is not reconciled on a node change |
| `MCHAProxyPromises`, `MCHAProxy` | `StatusListsMembers` | after `EditPool` the status lists the pool's previous members |
| `MCHAProxyPromises`, `MCHAProxy` | `ServersFollowMonitor` | when HAProxy answers the replaced backend with 202, a changed monitor reaches no server |
| `MCHAProxyPromises`, `MCHAProxy` | `IdleClosed` | a server list answered as null ends the pass in a panic, with the transaction open |
| `MCHAProxyHostChange`, `MCHAProxy` | `Converges` | a node with a new address makes every later pass fail |
| `MCHAProxyVipChange`, `MCHAProxy` | `Converges` | `EditVIP` names no frontend, so a changed VIP never takes effect |
| `MCUnboundVIP`, `MCVendors` | `NetscalerContract` | a virtual server whose binding failed is reported with the wanted pool and never bound |
| `MCBlindPool`, `MCVendors` | `NetscalerContract` | a failed read of the service group is taken for its absence; members that should go stay |
| `MCMethod`, `MCVendors` | `MethodApplied` | a changed balancing method reaches no existing pool or virtual server; with the values its comment names: when the last request of the F5's `CreatePool` fails, the method is never set |
| `MCMonitorPort`, `MCVendors` | `Converges` | the F5's `EditMonitor` sends no port, so a changed monitor port never arrives |
| `MCMonitorType`, `MCVendors` | `Converges` | the ADC keeps the secure flag when a monitor changes from https to http |
| `MCFleetSameName`, `MCFleet` | `Isolation` | two load balancers of one name on one device overwrite and delete each other's objects |
| `MCFleetTwoWorkers`, `MCFleet` | `Isolation` | with two workers a pass would send its requests to the other's device: one worker is a condition of correctness, and nothing in the code states it |
| `MCFleetHung`, `MCFleet` | `HangIsLocal` | one device that never answers keeps the only worker, and with it all load balancers, waiting for ever |
| `MCFleetSameName`, `MCFleet` | `NothingElsewhere` | a changed provider in the spec leaves everything on the old device, also after deletion |

`reconciler` switches off what `early_delete`, `MCGhostRead`, `MCForeignFinalizer` and
`port_removed` show, so its `NoOrphans` says: apart from these, nothing is orphaned.

## 4. Fairness

`Reconciler!FairSpec` is weakly fair to the worker, to the delivery of watch
events and to the node event handler: they are goroutines of the running process
that block only on work. Users, nodes, failures and restarts are never forced, and
they are bounded, so liveness speaks about the time after the last of them. A
requeued request is taken again: controller-runtime's rate limiter delays a retry
and never drops it. `HAProxyProvider!FairSpec` and
`Vendors!FairSpec` are fair to the worker for the same reason.

A worker that has sent a request goes on only when the request returns, and the code sets no
deadline that would make it. The three specifications above therefore speak about devices
that answer or refuse. `Fleet` does not assume it: a worker's step on a device in `Hung`
is never enabled, so weak fairness does not force it. `Fleet!FairSpec` is fair to each worker
and to each delayed request; `Independent` needs that the rate limiter hands every failed
request back, behind those that wait, and says that all load balancers on working devices
are served unless the workers are stuck on a device that hangs.

What liveness says about rest. `Settles` and both `Converges` ask that the device (and in
`Reconciler` the status) agrees with spec and nodes *for good*; that the operator
also does nothing any more they ask only with at most one node. With more, nothing in the code
keeps the list order from changing between two passes, and `MCNeverRests` shows the loop.

## 5. Proofs

Every safety property that a passing run checks is also a theorem, for every value of the
constants: any sets of ports, nodes, specs, load balancers and devices, any number of
failures, restarts and changes by users. Only liveness is left to TLC (end of this section).

The proofs rest on the named assumptions of the modules, which TLC evaluates in every run:
sets are what their names say, ports and nodes are finitely many, bounds are natural
numbers (`ProviderConstants`, `MaxFaultsAssumption`, `SpecsAssumption`,
`EnvironmentAssumption`, `CleanStatusesAssumption`, `SelectionConstants`, `RoleAssumption`,
`WatchConstants`, `HAProxyConstants`, `PassConstants`, `NameClippedAssumption`,
`RegisteredAssumption`, `FleetConstants`); `None` is none of the values it stands beside
(`NoneAssumption`, `NoArgument`, `NoneIsNothing`, `NoneIsNoVserver`); and `MonitorFields`: any
type, path and port make a monitor, a monitor has a path, and the types of the API are not
`HTTP`, the ADC's name for a monitor without the secure flag.

Conditions beyond these are part of the theorem. Each names something the code does not
cope with, shown by the run or configuration named beside it.

**The backend** (`ContractProofs`, from the lemmas of `BackendProofs`)

- `CallsTypeCorrect`, `KeepsContract`, `WritesNeeded`: `BackendCalls` implements
  `BackendContract`, and every write about to be sent is one the device needs: no object that
  exists is created again, none that agrees is edited, no member added or deleted twice. (The
  contract does not say this: a redundant write leaves the device as it is.) The contract relates the end of a call to the state at its end only, so the invariant
  `CallInv` has to say what the operation has already achieved: what the read before a
  pending write has shown, which members are still to be added and deleted (`PoolFrame`),
  and which ports the cleanup has dealt with (`Cleaned`).

**The reconciler** (`ReconcilerProofs`, `PassProofs`)

- `TypeCorrect`: every reachable state is well typed, and a pass works only on locals it
  has set. `TypeOK` alone is not inductive: the status is built from `cfg`, so `LocalsOK`
  (from the first read on `lb` and `cfg` are set, and `idx` is inside the spec's list during
  the loops) is proved with it.
- `NothingOrphaned`: under `CleanupConditions`, `[]NoOrphans`. The conditions rule out what
  `early_delete`, `MCGhostRead` and `MCForeignFinalizer` show, and ask that every spec exposes
  all ports (`port_removed`). The inductive invariant `OrphanInv` says that an object that is
  gone has an empty device and no pass past the first read; that no foreign finalizer is
  present; that from the second read on the status lists every port and a monitor; how far
  the loops of the cleanup have come; and that the device is empty from the end of the
  cleanup to the removal of the finalizer. Its core is the lemma `HandleCleanupEmpties`:
  given a status that lists everything, `HandleCleanup` returns nil only on an empty device.
- `NoSeriesLeft`: under the same conditions, and if all specs have the same metric labels
  (`MCSpecChange`), no series outlives its object. `SeriesInv`: a series carries the labels of
  a spec, and there is none when the finalizer is about to be removed.
- `SpecIsTheUsers`: the operator never changes what a user wrote in a spec, although its
  updates write whole objects from copies that may be old; at most it adds the monitor's name.
  `Versions`: copies of the object, in the cache, in the watch and in the pass, that have its
  resourceVersion `Agree` with it: the same spec, and the name where the object has it. A write
  that does not conflict then keeps the spec (`SpecKept`).
- `TeardownNeedsDeletion`: needs `FinalizerHeld` (from the decision to finalize on the object
  is there, being deleted, and held by our finalizer).
- `StatusReportsDevice`: VIPs, pools, members and monitor of a status are on the device when it
  is written, and its ports are those of the spec it is stored with (`Status.Provider`, from the
  same read, goes with them; the module has one device). That the ports are also served is
  not so: `MCSpecChange`. `PassInv` carries what a pass has
  achieved to the write: the monitor, each pool and each VIP up to `idx`, and that the status
  being built is that of this pass and not of the object read again.
- `NothingDangles`: under `ReferenceConditions`, `[]NoDanglingReferences`: the device refuses to
  delete what is in use, or every spec exposes all ports. Otherwise a pool of a port that
  was taken out of the spec survives the cleanup and the monitor it refers to.
- `TotalIsRight` and `AtRestInSync`: nothing is missed. `EventInv` says that the last event
  under way to the informer is the object as it is; that, unless a request is queued, the
  pass works for the cached spec, and for the current nodes unless a node event is pending;
  and that the metric counts the cached object. `AtRestInSync` asks that there are no
  foreign finalizers (`MCForeignFinalizer`).

**The node watch** (`NodeWatchProofs`)

- `WatchTypeCorrect`, and `NoChangeMissed` for unique names and no failed list (`MCNodeSameName`,
  `MCNodeListError`). The lemmas say what the functions of `utility_functions.go` promise each
  other: an update the filter drops leaves the node's address as it was, and its
  eligibility for every load balancer, so no dropped event changes a member.

**HAProxy** (`HAProxyProofs`)

- `HAProxyTypeCorrect` and `NoTransactionLeaks`: without conditions. The property counts
  only transactions lost otherwise than by a restart, a failed deletion, an unanswered start or
  the panic on a null list (`MCHAProxyPromises`).
- `CommitsAllOrNothing`: while the VIP is not changed (`MCHAProxyVipChange`), a commit of the
  operator installs the whole configuration or none; the servers' check parameters count as part
  of it where HAProxy answers 200 (`MCHAProxyPromises`). `Configured` and `CleanedUp` say how
  far the transaction has come at each method call: every wanted node has a server or is
  still to be added, and what is still to be deleted is exactly what is not wanted.

**Several load balancers** (`FleetProofs`)

- `FleetTypeCorrect`, for any number of workers: `QueueInv` says that a request waits at most
  once and not while it is handled, and that no two workers have the same object.
- `Isolated`: with one worker and unique names. `ApartInv`: between `CreateBackend` and the
  end of the pass the provider's host, and after `Connect` its session, are the device that
  the running pass read; and an object on a device bears the name of its owner. The first
  says where a request goes, the second that an object found by name is the pass's own.
  Both conditions are needed: `MCFleetTwoWorkers` and `MCFleetSameName`.

**The request-by-request providers** (`VendorProofs`)

- `VendorsTypeCorrect`: `VendorInv` adds to the types that the calls to come belong to the
  operation under way, and that the F5's `EditMonitor` finds the monitor it edits.
- `SavesWhenDone`: without conditions. `SaveInv`: what is unsaved is ahead of a `Close`, or the
  object is queued again.
- `NetscalerKeepsContract` and `F5KeepsContract`: each provider implements `BackendContract`. The
  method calls to come are a list, so the invariant (`ADCPlan`, `F5Plan`) is a statement about
  the plan: carried out, the calls that are left lead to the goal (`PoolPlan`,
  `CleanupPlan`). The calls that add members come before those that delete (so that no pool
  is drained), no pool is deleted before its VIP, and between two requests of a method the
  first has had its effect. One set of lemmas (`PoolPopped`, `MemberPopped`, `CleanupPopped`,
  `PoolTodo`) serves both devices; each request is then shown to pop the plan or to fail.
  `ADCState` and `F5State` say what holds between operations.
  - `NetscalerConditions`: users do not change the monitor's type (`MCMonitorType`: the edit is
    reported done and is not); `FindGroup`
    does not fail (`MCBlindPool`: its failure is taken for the absence of the pool);
    `AddVserver` and `BindGroup` do not fail and no restart comes between them (`MCUnboundVIP`:
    a virtual server without its group is never repaired). Every other request may fail,
    before or after it took effect.
  - `F5Conditions`: users change neither type nor port of the monitor (`MCMonitorPort`, again
    an edit that is reported done; and two types are two monitors, of which the old one stays). Any request may fail and the operator may die between any two.

How lists are reasoned about. Induction is only available through theorems that take an
operator as parameter, which no installed backend instantiates. Where a list is built by
a fold (`FlattenSeq` over the ports of a cleanup), the lemma `Induct` derives induction over a
*set* of numbers from the well-foundedness of `<`, and the set of lengths for which the claim
holds is the instance.

Only model-checked: `Settles`, `Converges` (HAProxy and vendors) and `Independent`, because
liveness under fairness is beyond the prover; and of course the runs that end in a violation.

## 6. Not modelled

- `cmd/main.go`: flags, TLS, tracing, metrics server and probes are plain set-up. Leader
  election is off by default and is controller-runtime's; with it on, an old and a new
  leader may overlap, which is `MCFleetTwoWorkers`.
- `EditPoolMember` of F5 and Netscaler and HAProxy's `HealthCheck` have no caller.
- F5 partitions other than the default: the names then depend on what the device makes of
  names with and without a partition, which the repository does not show.
- Spec changes that switch the vendor while the other device keeps objects: `Fleet` has the
  change of device within a vendor, where the same thing happens.
- `zz_generated.deepcopy.go`, manifests, bundle, CRD validation, logs, the rate limiter's delays.
- The labels and `Provider` of a status, and how often the informer's order really changes: any
  write may permute it.

## 7. Plan

Done: provider, backend with its contract, reconciler, node watch, all four providers,
several load balancers, and a theorem for every safety property of a passing run.

Left:

1. Facts that the liveness properties rest on and that are safety: a pass that meets no
   failure ends with the goal (HAProxy, vendors), and every error requeues the object.
2. A theorem that `Reconciler`'s backend steps implement `BackendContract`, as those of
   `BackendCalls` do; the lemmas of `ContractProofs` cover the steps.
3. Weaker conditions where a proof asks for more than the counterexamples need.
