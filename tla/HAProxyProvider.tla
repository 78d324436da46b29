--------------------------- MODULE HAProxyProvider ---------------------------
(***************************************************************************)
(* The HAProxy provider (backend/haproxy/haproxy_controller.go) under the  *)
(* passes of one load balancer.  All requests of a pass are made inside a  *)
(* transaction of the HAProxy Data Plane API, which Connect starts and     *)
(* Close commits; CloseError deletes it after a failed request.            *)
(*                                                                         *)
(* HAProxy has no monitors: EditMonitor keeps the monitor in a field and   *)
(* pools and servers carry its parameters.  Servers are named after nodes. *)
(* A failed request's partial work is invisible, because its transaction   *)
(* is never committed, so each provider method is one step.                *)
(***************************************************************************)
EXTENDS Integers, FiniteSets

CONSTANTS
  Ports, Names, Hosts, IPs, Monitors,
  None,         \* no backend, no frontend, no server, no transaction
  HostOf,       \* HostOf[n]: the address node n usually has
  HostChange,   \* nodes may get another address
  VipChange,    \* users may change the virtual address
  MaxFaults,    \* bound on failed requests
  MaxLost,      \* bound on failed deletions and lost starts of a transaction,
                \* and on empty server lists answered as null
  MaxEnvOps,    \* bound on changes of spec and nodes
  MaxOthers,    \* bound on commits by other clients of the HAProxy
  MaxCrashes    \* bound on restarts of the operator

ASSUME HAProxyConstants ==
  /\ None \notin IPs \cup Monitors \cup Hosts
  /\ HostOf \in [Names -> Hosts]
  /\ \A m, n \in Names : HostOf[m] = HostOf[n] => m = n
  /\ {HostChange, VipChange} \subseteq BOOLEAN
  /\ {MaxFaults, MaxLost, MaxEnvOps, MaxOthers, MaxCrashes} \subseteq Nat

VARIABLES
  version, body,  \* the committed configuration and its version
  reply,          \* how this HAProxy answers a ReplaceBackend: 200 or 202
  tx,             \* the transaction p.transaction names, or None if it is gone
  leaked,         \* open transactions that no p.transaction names
  verRead,        \* p.version
  pmonitor,       \* p.monitor
  pc, mode,       \* where the pass is; "configure" or "cleanup"
  want, goal,     \* the nodes and the spec the pass works for
  rest, port,     \* ports the current loop still has to handle, and this one
  toAdd, toDel,   \* servers HandlePool adds and removes
  listed,         \* listed[p]: Members of the pool the pass puts into the status
  status,         \* listed, as last written to the object
  spec, nodes,    \* the object's spec and the ready nodes
  deleting, gone, \* the object is being deleted; it is gone
  dirty,          \* a request is in the work queue
  faults, lost, envOps, others, crashes

haproxy == <<version, body, leaked, reply>>
pass == <<pc, mode, want, goal, rest, port, toAdd, toDel, listed>>
object == <<spec, nodes, deleting, gone, status>>
bounds == <<envOps, others, crashes>>
vars == <<haproxy, tx, verRead, pmonitor, pass, object, dirty, faults, lost, bounds>>

NodeMaps == [Names -> Hosts \cup {None}]
Servers == [Names -> [host : Hosts, check : Monitors] \cup {None}]
Backends == [check : Monitors, servers : Servers]
Frontends == [ip : IPs, pool : BOOLEAN]
Bodies == [pools : [Ports -> Backends \cup {None}],
           fronts : [Ports -> Frontends \cup {None}]]

ASSUME NoneIsNothing ==
  None \notin Frontends \cup Backends \cup [host : Hosts, check : Monitors]
              \cup [version : Nat, body : Bodies] \cup [ip : IPs, monitor : Monitors]

EmptyBody == [pools |-> [p \in Ports |-> None], fronts |-> [p \in Ports |-> None]]
NoServers == [n \in Names |-> None]
NoNodes == [n \in Names |-> None]

(* Every variable holds a value of its type.                               *)
TypeOK ==
  /\ version \in Nat /\ body \in Bodies /\ leaked \in Nat /\ reply \in {200, 202}
  /\ tx \in [version : Nat, body : Bodies] \cup {None}
  /\ verRead \in Nat
  /\ pmonitor \in Monitors \cup {None}
  /\ pc \in {"idle", "sites", "start", "monitor", "pool", "edit", "create", "add",
             "del", "vip", "commit", "status", "cvip", "cmember", "cpool", "rmFinalizer"}
  /\ mode \in {"configure", "cleanup"}
  /\ want \in NodeMaps /\ nodes \in NodeMaps
  /\ spec \in [ip : IPs, monitor : Monitors] /\ goal \in [ip : IPs, monitor : Monitors] \cup {None}
  /\ rest \subseteq Ports /\ port \in Ports \cup {None}
  /\ toAdd \subseteq Names /\ toDel \subseteq Names
  /\ listed \in [Ports -> NodeMaps] /\ status \in [Ports -> NodeMaps]
  /\ {deleting, gone, dirty} \subseteq BOOLEAN
  /\ faults \in 0..MaxFaults /\ lost \in 0..MaxLost

Init ==
  /\ version = 1 /\ body = EmptyBody /\ leaked = 0
  /\ reply \in {200, 202}
  /\ tx = None /\ verRead = 0 /\ pmonitor = None
  /\ pc = "idle" /\ mode = "configure"
  /\ spec \in [ip : IPs, monitor : Monitors]
  /\ nodes \in [Names -> Hosts \cup {None}]
  /\ \A n \in Names : nodes[n] \in {None, HostOf[n]}
  /\ want = NoNodes /\ goal = None
  /\ rest = {} /\ port = None /\ toAdd = {} /\ toDel = {}
  /\ listed = [p \in Ports |-> NoNodes] /\ status = [p \in Ports |-> NoNodes]
  /\ deleting = FALSE /\ gone = FALSE /\ dirty = TRUE
  /\ faults = 0 /\ lost = 0 /\ envOps = 0 /\ others = 0 /\ crashes = 0

----------------------------------------------------------------------------
(* The environment: users, nodes and other clients of the HAProxy.         *)

EnvOp ==
  /\ envOps < MaxEnvOps /\ ~gone
  /\ envOps' = envOps + 1
  /\ dirty' = TRUE
  /\ UNCHANGED <<haproxy, tx, verRead, pmonitor, pass, gone, status, faults, lost, others,
                 crashes>>

ChangeSpec ==
  /\ \E s \in [ip : IPs, monitor : Monitors] \ {spec} :
       /\ s.ip # spec.ip => VipChange
       /\ spec' = s
  /\ EnvOp
  /\ UNCHANGED <<nodes, deleting>>

(* Two nodes never have the same address.                                  *)
ChangeNode ==
  /\ \E n \in Names : \E h \in (Hosts \cup {None}) \ {nodes[n]} :
       /\ h \in {None, HostOf[n]} \/ HostChange
       /\ \A m \in Names : nodes[m] = h => h = None
       /\ nodes' = [nodes EXCEPT ![n] = h]
  /\ EnvOp
  /\ UNCHANGED <<spec, deleting>>

Delete ==
  /\ ~deleting
  /\ deleting' = TRUE
  /\ EnvOp
  /\ UNCHANGED <<spec, nodes>>

(* Versions are only compared for equality: a new one differs from every   *)
(* version somebody still holds (at most three).                           *)
Versions == 1..4

NewVersion ==
  CHOOSE v \in Versions : v \notin {version, verRead} /\ (tx # None => v # tx.version)

(* Somebody else commits a change to other parts of the configuration.     *)
OtherCommit ==
  /\ others < MaxOthers
  /\ others' = others + 1
  /\ version' = NewVersion
  /\ UNCHANGED <<body, leaked, reply, tx, verRead, pmonitor, pass, object, dirty, faults, lost,
                 envOps, crashes>>

----------------------------------------------------------------------------
(* Passes.                                                                 *)

EndPass ==
  /\ pc' = "idle" /\ mode' = "configure" /\ want' = NoNodes /\ goal' = None
  /\ rest' = {} /\ port' = None /\ toAdd' = {} /\ toDel' = {}
  /\ listed' = [p \in Ports |-> NoNodes]

(* The process restarts: p.transaction is forgotten, while HAProxy keeps   *)
(* the transaction open.                                                   *)
Crash ==
  /\ crashes < MaxCrashes
  /\ crashes' = crashes + 1
  /\ leaked' = IF tx = None THEN leaked ELSE leaked + 1
  /\ tx' = None /\ verRead' = 0 /\ pmonitor' = None
  /\ EndPass
  /\ dirty' = ~gone
  /\ UNCHANGED <<version, body, reply, object, faults, lost, envOps, others>>

(* Deleting the transaction may fail as well; its error is ignored.        *)
CloseError ==
  \/ tx' = None /\ UNCHANGED lost
  \/ /\ tx # None /\ lost < MaxLost
     /\ lost' = lost + 1
     /\ UNCHANGED tx

(* Mutant: the transaction is left open on an error. *)
Abort_Open == EndPass /\ dirty' = TRUE /\ UNCHANGED <<tx, lost>>

(* The method returns an error: so do the Handle operation and the pass.   *)
Abort == CloseError /\ EndPass /\ dirty' = TRUE

Fails == faults < MaxFaults /\ faults' = faults + 1

(* One request inside the transaction.  It fails if ok is false (HAProxy   *)
(* refuses it), if the transaction is gone, or for an outside reason.      *)
Request(ok, newBody, next) ==
  \/ /\ tx # None /\ ok
     /\ tx' = [tx EXCEPT !.body = newBody]
     /\ next
     /\ UNCHANGED <<dirty, faults, lost>>
  \/ ~(tx # None /\ ok) /\ Abort /\ UNCHANGED faults
  \/ Fails /\ Abort

(* Groups of variables a step leaves alone together.                       *)
calm == <<haproxy, verRead, object, bounds>>
outside == <<calm, tx, dirty, faults, lost>>
task == <<mode, want, goal>>
pending == <<toAdd, toDel>>

(* The pass reads spec and nodes.                                          *)
StartPass ==
  /\ pc = "idle" /\ dirty /\ ~gone
  /\ pc' = "sites" /\ mode' = "configure"
  /\ want' = nodes /\ goal' = spec
  /\ dirty' = FALSE
  /\ UNCHANGED <<calm, tx, pmonitor, rest, port, pending, listed, faults, lost>>

(* Mutant: the version is read once and kept. *)
ConnectSites_Once ==
  /\ pc = "sites"
  /\ verRead' = IF verRead = 0 THEN version ELSE verRead
  /\ pc' = "start"
  /\ UNCHANGED <<task, rest, port, pending, listed, dirty, faults>>
  /\ UNCHANGED <<haproxy, tx, pmonitor, object, lost, bounds>>

(* Connect: read the version, then start a transaction on it.  If the      *)
(* answer to the start is lost, nobody knows the transaction it opened.    *)
ConnectSites ==
  /\ pc = "sites"
  /\ \/ /\ verRead' = version
        /\ pc' = "start"
        /\ UNCHANGED <<task, rest, port, pending, listed, dirty, faults>>
     \/ Fails /\ EndPass /\ dirty' = TRUE /\ UNCHANGED verRead
  /\ UNCHANGED <<haproxy, tx, pmonitor, object, lost, bounds>>

ConnectStart ==
  /\ pc = "start"
  /\ \/ /\ verRead = version
        /\ leaked' = IF tx = None THEN leaked ELSE leaked + 1
        /\ tx' = [version |-> version, body |-> body]
        /\ pc' = IF mode = "configure" THEN "monitor" ELSE "cvip"
        /\ rest' = Ports
        /\ UNCHANGED <<task, port, pending, listed, dirty, faults, lost>>
     \/ verRead # version /\ Abort /\ UNCHANGED <<leaked, faults>>
     \/ Fails /\ Abort /\ UNCHANGED leaked
     \/ /\ verRead = version /\ lost < MaxLost
        /\ lost' = lost + 1
        /\ leaked' = leaked + 1
        /\ tx' = None
        /\ EndPass /\ dirty' = TRUE
        /\ UNCHANGED faults
  /\ UNCHANGED <<version, body, reply, verRead, pmonitor, object, bounds>>

(* HandleMonitors: GetMonitor always answers with an empty monitor, so     *)
(* EditMonitor is called and keeps the wanted one.                         *)
EditMonitor ==
  /\ pc = "monitor"
  /\ pmonitor' = goal.monitor
  /\ pc' = "pool"
  /\ UNCHANGED <<outside, task, rest, port, pending, listed>>

(* The addresses of a pool's servers or of the wanted nodes.               *)
ServerHosts(servers) == {servers[n].host : n \in {m \in Names : servers[m] # None}}
NodeHosts(ns) == {ns[n] : n \in Names} \ {None}

(* HandlePool: GetPool and GetPoolMembers; members are compared by host.   *)
(* For an empty list that HAProxy answers as null GetPoolMembers returns a *)
(* nil pool, which HandlePool dereferences: the panic is recovered and the *)
(* request retried, but the transaction stays open.                        *)
GetPool ==
  /\ pc = "pool"
  /\ \E p \in rest :
       \/ /\ port' = p
          /\ rest' = rest \ {p}
          /\ listed' = [listed EXCEPT ![p] = want]
          /\ IF tx.body.pools[p] = None
               THEN /\ pc' = "create"
                    /\ toAdd' = {n \in Names : want[n] # None}
                    /\ toDel' = {}
               ELSE LET servers == tx.body.pools[p].servers IN
                    /\ pc' = "edit"
                    /\ toAdd' = {n \in Names : want[n] \notin ServerHosts(servers) \cup {None}}
                    /\ toDel' = {n \in Names : /\ servers[n] # None
                                               /\ servers[n].host \notin NodeHosts(want)}
          /\ UNCHANGED <<tx, task, dirty, faults, lost>>
       \/ /\ tx.body.pools[p] # None
          /\ tx.body.pools[p].servers = NoServers
          /\ lost < MaxLost /\ lost' = lost + 1
          /\ EndPass /\ dirty' = TRUE
          /\ UNCHANGED <<tx, faults>>
       \/ Fails /\ Abort
  /\ UNCHANGED <<calm, pmonitor>>

PoolsHandled ==
  /\ pc = "pool" /\ rest = {}
  /\ pc' = "vip" /\ rest' = Ports
  /\ UNCHANGED <<outside, pmonitor, task, port, pending, listed>>

SetPool(b) == [tx.body EXCEPT !.pools[port] = b]
SetServer(n, s) == [tx.body EXCEPT !.pools[port].servers[n] = s]
ToServers == pc' = "add" /\ UNCHANGED <<task, rest, port, pending>>

CreatePool ==
  /\ pc = "create"
  /\ Request(TRUE, SetPool([check |-> pmonitor, servers |-> NoServers]),
             ToServers /\ UNCHANGED listed)
  /\ UNCHANGED <<calm, pmonitor>>

(* Mutant: only the backend is replaced, not its servers. *)
EditPool_BackendOnly ==
  /\ pc = "edit"
  /\ Request(TRUE, SetPool([tx.body.pools[port] EXCEPT !.check = pmonitor]),
             ToServers /\ UNCHANGED listed)
  /\ UNCHANGED <<calm, pmonitor>>

(* GetPool's "changed" monitor makes HandlePool call EditPool every time.  *)
(* EditPool replaces the backend and, if that is answered with 200, every  *)
(* server it has, after reading them into the Members of the pool it was   *)
(* given: these are the members Reconcile lists in the status (an empty    *)
(* list answered as null leaves them alone).  202 ends the method early.   *)
(* If reading the servers fails, its error message dereferences a nil pool *)
(* after a second CloseError: recovered, this too ends the pass in error.  *)
EditPool ==
  LET b == tx.body.pools[port]
      edited == [n \in Names |-> IF b.servers[n] = None THEN None
                                 ELSE [b.servers[n] EXCEPT !.check = pmonitor]]
      read == [n \in Names |-> IF b.servers[n] = None THEN None ELSE b.servers[n].host] IN
  /\ pc = "edit"
  /\ \/ /\ reply = 202
        /\ Request(TRUE, SetPool([b EXCEPT !.check = pmonitor]), ToServers /\ UNCHANGED listed)
     \/ /\ reply = 200
        /\ Request(TRUE, SetPool([check |-> pmonitor, servers |-> edited]),
             /\ ToServers
             /\ \/ listed' = [listed EXCEPT ![port] = read]
                \/ b.servers = NoServers /\ UNCHANGED listed)
  /\ UNCHANGED <<calm, pmonitor>>

KeepPass == UNCHANGED <<pc, task, rest, port, listed>>

(* Mutant: the node's name is used as its address. *)
CreatePoolMember_Name ==
  /\ pc = "add"
  /\ \E n \in toAdd :
       Request(tx.body.pools[port].servers[n] = None,
               SetServer(n, [host |-> n, check |-> pmonitor]),
               KeepPass /\ toAdd' = toAdd \ {n} /\ UNCHANGED toDel)
  /\ UNCHANGED <<calm, pmonitor>>

(* A server of that name must not exist yet.                               *)
CreatePoolMember ==
  /\ pc = "add"
  /\ \E n \in toAdd :
       Request(tx.body.pools[port].servers[n] = None,
               SetServer(n, [host |-> want[n], check |-> pmonitor]),
               KeepPass /\ toAdd' = toAdd \ {n} /\ UNCHANGED toDel)
  /\ UNCHANGED <<calm, pmonitor>>

MembersAdded ==
  /\ pc = "add" /\ toAdd = {}
  /\ pc' = "del"
  /\ UNCHANGED <<outside, pmonitor, task, rest, port, pending, listed>>

DeletePoolMember ==
  /\ pc = "del"
  /\ \E n \in toDel :
       Request(TRUE, SetServer(n, None), KeepPass /\ toDel' = toDel \ {n} /\ UNCHANGED toAdd)
  /\ UNCHANGED <<calm, pmonitor>>

PoolHandled ==
  /\ pc = "del" /\ toDel = {}
  /\ pc' = "pool" /\ port' = None
  /\ UNCHANGED <<outside, pmonitor, task, rest, pending, listed>>

SetFront(p, f) == [tx.body EXCEPT !.fronts[p] = f]
NextPort(p) == rest' = rest \ {p} /\ UNCHANGED <<pc, task, port, pending, listed>>

(* HandleVIP.  EditVIP names no frontend in its request, which HAProxy     *)
(* refuses; were it accepted, the frontend would lose its default backend. *)
HandleVIP ==
  /\ pc = "vip"
  /\ \E p \in rest :
       LET f == tx.body.fronts[p] IN
       CASE f = None -> Request(TRUE, SetFront(p, [ip |-> goal.ip, pool |-> TRUE]), NextPort(p))
         [] f # None /\ f = [ip |-> goal.ip, pool |-> TRUE] ->
              Request(TRUE, tx.body, NextPort(p))
         [] OTHER -> \E ok \in BOOLEAN :
              Request(ok, SetFront(p, [ip |-> goal.ip, pool |-> FALSE]), NextPort(p))
  /\ UNCHANGED <<calm, pmonitor>>

VIPsHandled ==
  /\ pc = "vip" /\ rest = {}
  /\ pc' = "commit"
  /\ UNCHANGED <<outside, pmonitor, task, rest, port, pending, listed>>

(* Close: the commit is refused if the configuration has another version   *)
(* than the transaction.  Its answer may be lost.                          *)
Close ==
  /\ pc = "commit"
  /\ \/ /\ tx # None /\ tx.version = version
        /\ version' = NewVersion /\ body' = tx.body /\ tx' = None
        /\ \/ /\ pc' = IF mode = "configure" THEN "status" ELSE "rmFinalizer"
              /\ UNCHANGED <<task, rest, port, pending, listed, dirty, faults>>
           \/ Fails /\ EndPass /\ dirty' = TRUE
        /\ UNCHANGED lost
     \/ ~(tx # None /\ tx.version = version) /\ Abort /\ UNCHANGED <<version, body, faults>>
     \/ Fails /\ Abort /\ UNCHANGED <<version, body>>
  /\ UNCHANGED <<leaked, reply, verRead, pmonitor, object, bounds>>

(* Reconcile writes the status, which raises an event if it changed, and   *)
(* goes on to the cleanup if the object is being deleted.  The lists of    *)
(* the status are in the order the informer listed the nodes in, which two *)
(* or more may change from pass to pass: the status is another one then.   *)
WriteStatus ==
  /\ pc = "status"
  /\ status' = listed
  /\ IF deleting
       THEN /\ pc' = "sites" /\ mode' = "cleanup"
            /\ UNCHANGED <<want, goal, rest, port, pending, listed>>
       ELSE EndPass
  /\ \E reordered \in BOOLEAN :
       /\ reordered => Cardinality(NodeHosts(want)) > 1
       /\ dirty' = (dirty \/ status # listed \/ reordered)
  /\ UNCHANGED <<haproxy, tx, verRead, pmonitor, spec, nodes, deleting, gone, faults, lost, bounds>>

----------------------------------------------------------------------------
(* HandleCleanup on the status just written, in a transaction of its own.  *)

DeleteVIP ==
  /\ pc = "cvip"
  /\ \E p \in rest : Request(tx.body.fronts[p] # None, SetFront(p, None), NextPort(p))
  /\ UNCHANGED <<calm, pmonitor>>

VIPsDeleted ==
  /\ pc = "cvip" /\ rest = {}
  /\ pc' = "cmember" /\ rest' = Ports
  /\ UNCHANGED <<outside, pmonitor, task, port, pending, listed>>

(* The members the status lists for one pool.  A refused deletion is       *)
(* ignored by HandleCleanup, but CloseError has deleted the transaction.   *)
CleanMembers ==
  /\ pc = "cmember"
  /\ \E p \in rest :
       LET names == {n \in Names : status[p][n] # None}
           b == tx.body.pools[p]
           has(n) == b # None /\ b.servers[n] # None
           kept == [n \in Names |-> IF n \in names THEN None ELSE b.servers[n]] IN
       /\ \/ /\ tx # None /\ \A n \in names : has(n)
             /\ tx' = [tx EXCEPT !.body.pools[p] =
                         IF b = None THEN None ELSE [b EXCEPT !.servers = kept]]
             /\ UNCHANGED <<faults, lost>>
          \/ /\ tx # None /\ \E n \in names : ~has(n)
             /\ CloseError /\ UNCHANGED faults
          \/ /\ tx = None
             /\ UNCHANGED <<tx, faults, lost>>
          \/ names # {} /\ Fails /\ CloseError
       /\ NextPort(p)
  /\ UNCHANGED <<calm, pmonitor, dirty>>

MembersDeleted ==
  /\ pc = "cmember" /\ rest = {}
  /\ pc' = "cpool" /\ rest' = Ports
  /\ UNCHANGED <<outside, pmonitor, task, port, pending, listed>>

DeletePool ==
  /\ pc = "cpool"
  /\ \E p \in rest :
       Request(tx.body.pools[p] # None, [tx.body EXCEPT !.pools[p] = None], NextPort(p))
  /\ UNCHANGED <<calm, pmonitor>>

DeleteMonitor ==
  /\ pc = "cpool" /\ rest = {}
  /\ pmonitor' = None
  /\ pc' = "commit"
  /\ UNCHANGED <<outside, task, rest, port, pending, listed>>

RemoveFinalizer ==
  /\ pc = "rmFinalizer"
  /\ gone' = TRUE
  /\ EndPass
  /\ UNCHANGED <<haproxy, tx, verRead, pmonitor, spec, nodes, deleting, status, dirty, faults, lost, bounds>>

----------------------------------------------------------------------------
Environment == ChangeSpec \/ ChangeNode \/ Delete \/ OtherCommit \/ Crash

Work ==
  \/ StartPass \/ ConnectSites \/ ConnectStart \/ EditMonitor
  \/ GetPool \/ PoolsHandled \/ CreatePool \/ EditPool
  \/ CreatePoolMember \/ MembersAdded \/ DeletePoolMember \/ PoolHandled
  \/ HandleVIP \/ VIPsHandled \/ Close \/ WriteStatus
  \/ DeleteVIP \/ VIPsDeleted \/ CleanMembers \/ MembersDeleted
  \/ DeletePool \/ DeleteMonitor \/ RemoveFinalizer

Next == Environment \/ Work

Spec == Init /\ [][Next]_vars

(* The worker keeps running passes while requests are queued, provided     *)
(* HAProxy answers them or fails: the client has no timeout (Fleet: Hung). *)
FairSpec == Spec /\ WF_vars(Work)

----------------------------------------------------------------------------
(* Configuration b serves exactly the nodes ns with the parameters of s.   *)
(* The servers' own check parameters are only kept up to date by a HAProxy *)
(* that never answers 202.                                                 *)
Serves(b, s, ns) ==
  \A p \in Ports :
    /\ b.fronts[p] = [ip |-> s.ip, pool |-> TRUE]
    /\ b.pools[p] # None
    /\ b.pools[p].check = s.monitor
    /\ ServerHosts(b.pools[p].servers) = NodeHosts(ns)
    /\ reply # 202 =>
         \A n \in Names : b.pools[p].servers[n] # None =>
                            b.pools[p].servers[n].check = s.monitor

(* The transaction makes a pass atomic: whatever fails in between, HAProxy *)
(* only ever runs with a complete configuration, the one a pass was asked  *)
(* for, or with none after a cleanup.                                      *)
AllOrNothing ==
  [][body' # body => IF mode = "configure" THEN Serves(body', goal, want)
                                           ELSE body' = EmptyBody]_vars

(* Every pass, failed or not, ends without an open transaction, unless     *)
(* the process died, deleting the transaction failed, the answer to its    *)
(* start was lost or an empty server list was answered as null.            *)
NoLeakedTransaction ==
  pc = "idle" /\ crashes = 0 /\ lost = 0 => tx = None /\ leaked = 0

(* Between two passes the provider holds no open transaction.              *)
IdleClosed == pc = "idle" => tx = None

(* When a pass writes the status, the members it lists are the pool's.     *)
StatusListsMembers ==
  [][pc = "status" /\ pc' # "status" /\ crashes' = crashes =>
       \A p \in Ports : NodeHosts(status'[p]) = ServerHosts(body.pools[p].servers)]_vars

(* A commit of a pass that configures leaves every server with the check   *)
(* parameters of the spec: EditPool exists to bring them there.            *)
ServersFollowMonitor ==
  [][body' # body /\ mode = "configure" =>
       \A p \in Ports, n \in Names :
         body'.pools[p].servers[n] # None => body'.pools[p].servers[n].check = goal.monitor]_vars

(* Once nothing changes and nothing fails, HAProxy serves the spec and the *)
(* nodes for good, or the object and its configuration are gone.  The      *)
(* operator comes to rest too, unless it may answer the changing order of  *)
(* its own status writes.                                                  *)
Converges ==
  <>[](IF gone THEN pc = "idle" /\ body = EmptyBody
               ELSE /\ ~deleting /\ Serves(body, spec, nodes)
                    /\ (pc = "idle" /\ ~dirty) \/ Cardinality(NodeHosts(nodes)) > 1)
=============================================================================
