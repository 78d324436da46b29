---------------------------- MODULE HAProxyProofs ----------------------------
(***************************************************************************)
(* Proofs about HAProxyProvider: the type invariant, that no transaction   *)
(* leaks and that a pass changes HAProxy's configuration as a whole or not *)
(* at all, for every set of ports, nodes and addresses and any number of   *)
(* failed requests, commits by others and restarts.                        *)
(***************************************************************************)
EXTENDS HAProxyProvider, TLAPS

(* Where a pass configures and where it cleans up, inside a transaction.   *)
OnPool == {"edit", "create", "add", "del"}
Configuring == OnPool \cup {"monitor", "pool", "vip"}
Cleaning == {"cvip", "cmember", "cpool"}

(* What the provider's methods find when they are called.  Only a cleanup  *)
(* goes on after its transaction was deleted.                              *)
LocalsOK ==
  /\ pc \in Configuring \cup {"status"} => mode = "configure"
  /\ pc \in Cleaning \cup {"rmFinalizer"} => mode = "cleanup"
  /\ pc # "idle" => goal # None
  /\ pc \in Configuring \cup {"cvip"} => tx # None
  /\ pc \in OnPool \cup {"pool"} => pmonitor = goal.monitor
  /\ pc \in OnPool => port \in Ports /\ toAdd \subseteq {n \in Names : want[n] # None}
  /\ pc \in {"edit", "add", "del"} => tx.body.pools[port] # None
  /\ crashes \in Nat

(* No transaction is open between Connect and Close of different passes.   *)
NothingOpen ==
  crashes = 0 /\ lost = 0 =>
    /\ leaked = 0
    /\ pc \in {"idle", "sites", "start", "status", "rmFinalizer"} => tx = None

(* Without VipChange every frontend is of the address of the spec.         *)
Front(s) == [ip |-> s.ip, pool |-> TRUE]

OurFronts(b) == \A p \in Ports : b.fronts[p] \in {None, Front(spec)}

FrontsOurs ==
  /\ pc # "idle" => goal.ip = spec.ip
  /\ OurFronts(body)
  /\ tx # None => OurFronts(tx.body)

(* A pool that is as the pass wants it, and one that will be once toAdd    *)
(* and toDel are done: every wanted node has a server or is in toAdd, and  *)
(* toDel holds exactly the servers at an address that is not wanted.       *)
Covered(ss) ==
  \A n \in Names : want[n] # None =>
    n \in toAdd \/ \E k \in Names : ss[k] # None /\ ss[k].host = want[n]

Unwanted(ss) ==
  {n \in Names : ss[n] # None /\ \A k \in Names : want[k] # ss[n].host}

Checked(b) ==
  /\ b # None
  /\ b.check = goal.monitor
  /\ reply # 202 =>
       \A n \in Names : b.servers[n] # None => b.servers[n].check = goal.monitor

PoolServes(b) == Checked(b) /\ ServerHosts(b.servers) = NodeHosts(want)

PoolsServe(P) == \A p \in P : PoolServes(tx.body.pools[p])
FrontsServe(P) == \A p \in P : tx.body.fronts[p] = Front(goal)

(* How far the transaction is when the pass configures ...                 *)
Configured ==
  /\ pc = "monitor" => rest = Ports
  /\ pc = "pool" => PoolsServe(Ports \ rest)
  /\ pc \in OnPool => PoolsServe(Ports \ (rest \cup {port}))
  /\ pc = "create" => toDel = {} /\ toAdd = {n \in Names : want[n] # None}
  /\ pc \in {"edit", "add", "del"} =>
       LET ss == tx.body.pools[port].servers IN Covered(ss) /\ toDel = Unwanted(ss)
  /\ pc \in {"add", "del"} => Checked(tx.body.pools[port])
  /\ pc = "del" => toAdd = {}
  /\ pc = "vip" => PoolsServe(Ports) /\ FrontsServe(Ports \ rest)
  /\ pc = "commit" /\ mode = "configure" /\ tx # None => PoolsServe(Ports) /\ FrontsServe(Ports)

(* ... and when it cleans up.                                              *)
NoFronts(P) == \A p \in P : tx.body.fronts[p] = None
NoPools(P) == \A p \in P : tx.body.pools[p] = None

CleanedUp ==
  /\ pc = "cvip" => NoFronts(Ports \ rest)
  /\ pc = "cmember" /\ tx # None => NoFronts(Ports)
  /\ pc = "cpool" /\ tx # None => NoFronts(Ports) /\ NoPools(Ports \ rest)
  /\ pc = "commit" /\ mode = "cleanup" /\ tx # None => NoFronts(Ports) /\ NoPools(Ports)

(* The step ends the pass after an error.                                  *)
Ended ==
  /\ Abort
  /\ Fails \/ UNCHANGED faults
  /\ UNCHANGED <<calm, pmonitor>>

----------------------------------------------------------------------------
(* Types of what the methods send.                                         *)

LEMMA BodyType ==
  ASSUME NEW b \in Bodies, NEW p \in Ports
  PROVE  /\ b.pools \in [Ports -> Backends \cup {None}]
         /\ b.fronts \in [Ports -> Frontends \cup {None}]
         /\ \A x \in Backends \cup {None} :
              /\ [b EXCEPT !.pools[p] = x] \in Bodies
              /\ [b EXCEPT !.pools[p] = x].pools = [b.pools EXCEPT ![p] = x]
              /\ [b EXCEPT !.pools[p] = x].fronts = b.fronts
         /\ \A x \in Frontends \cup {None} :
              /\ [b EXCEPT !.fronts[p] = x] \in Bodies
              /\ [b EXCEPT !.fronts[p] = x].pools = b.pools
              /\ [b EXCEPT !.fronts[p] = x].fronts = [b.fronts EXCEPT ![p] = x]
  BY DEF Bodies

LEMMA ServerType ==
  ASSUME NEW b \in Bodies, NEW p \in Ports, b.pools[p] # None, NEW n \in Names,
         NEW x \in [host : Hosts, check : Monitors] \cup {None}
  PROVE  /\ [b.pools[p] EXCEPT !.servers[n] = x] \in Backends
         /\ [b.pools[p] EXCEPT !.servers[n] = x].check = b.pools[p].check
         /\ [b.pools[p] EXCEPT !.servers[n] = x].servers = [b.pools[p].servers EXCEPT ![n] = x]
         /\ [b EXCEPT !.pools[p].servers[n] = x]
              = [b EXCEPT !.pools[p] = [b.pools[p] EXCEPT !.servers[n] = x]]
PROOF
<1>1. b.pools[p] \in Backends
  BY DEF Bodies
<1>2. QED BY <1>1 DEF Bodies, Backends, Servers

LEMMA ConstantTypes ==
  /\ EmptyBody \in Bodies
  /\ NoNodes \in NodeMaps
  /\ NoServers \in Servers
  BY DEF EmptyBody, Bodies, NoNodes, NodeMaps, NoServers, Servers

(* A version nobody holds exists.                                          *)
LEMMA NewVersionType ==
  ASSUME TypeOK
  PROVE  NewVersion \in Nat
PROOF
<1>1. PICK x : x = IF tx # None THEN tx.version ELSE version
  OBVIOUS
<1>2. \E v \in 1..4 : v # version /\ v # verRead /\ v # x
  OBVIOUS
<1>3. \E v \in Versions : v \notin {version, verRead} /\ (tx # None => v # tx.version)
  BY <1>1, <1>2 DEF Versions
<1>4. NewVersion \in Versions
  BY <1>3 DEF NewVersion
<1>5. QED BY <1>4 DEF Versions

LEMMA CountType ==
  ASSUME TypeOK
  PROVE  /\ Fails => faults' \in 0..MaxFaults
         /\ lost < MaxLost => lost + 1 \in 0..MaxLost
  BY HAProxyConstants DEF TypeOK, Fails

----------------------------------------------------------------------------
(* Types and locals.                                                       *)

LEMMA EndPassOK ==
  ASSUME TypeOK, LocalsOK, EndPass
  PROVE  /\ want' \in NodeMaps /\ goal' = None /\ rest' = {} /\ port' = None
         /\ toAdd' = {} /\ toDel' = {} /\ listed' \in [Ports -> NodeMaps]
         /\ pc' = "idle" /\ mode' = "configure"
  BY ConstantTypes DEF EndPass

LEMMA EndedOK ==
  ASSUME TypeOK, LocalsOK, Ended
  PROVE  TypeOK' /\ LocalsOK'
PROOF
<1>1. /\ faults' \in 0..MaxFaults /\ lost' \in 0..MaxLost
      /\ tx' \in {tx, None}
  BY CountType DEF Ended, Abort, CloseError, TypeOK
<1>2. EndPass /\ dirty' = TRUE /\ UNCHANGED <<haproxy, verRead, object, bounds, pmonitor>>
  BY DEF Ended, Abort, calm
<1>3. TypeOK'
  BY <1>1, <1>2, EndPassOK DEF haproxy, object, TypeOK
<1>4. LocalsOK'
  BY <1>2, EndPassOK DEF bounds, LocalsOK, OnPool, Configuring, Cleaning
<1>5. QED BY <1>3, <1>4

LEMMA EnvironmentOK ==
  ASSUME TypeOK, LocalsOK, Environment
  PROVE  TypeOK' /\ LocalsOK'
PROOF
<1>1. CASE ChangeSpec \/ ChangeNode \/ Delete
  <2>1. spec' \in [ip : IPs, monitor : Monitors] /\ nodes' \in NodeMaps /\ deleting' \in BOOLEAN
    <3>1. CASE ChangeSpec
      BY <3>1 DEF ChangeSpec, TypeOK
    <3>2. CASE ChangeNode
      <4>1. \E n \in Names, h \in Hosts \cup {None} : nodes' = [nodes EXCEPT ![n] = h]
        BY <3>2 DEF ChangeNode
      <4>2. nodes' \in NodeMaps
        BY <4>1 DEF TypeOK, NodeMaps
      <4>3. QED BY <3>2, <4>2 DEF ChangeNode, TypeOK
    <3>3. CASE Delete
      BY <3>3 DEF Delete, TypeOK
    <3>4. QED BY <1>1, <3>1, <3>2, <3>3
  <2>2. EnvOp
    BY <1>1 DEF ChangeSpec, ChangeNode, Delete
  <2>3. QED
    BY <2>1, <2>2 DEF EnvOp, haproxy, pass, TypeOK, LocalsOK, OnPool, Configuring, Cleaning
<1>2. CASE OtherCommit
  BY <1>2, NewVersionType
  DEF OtherCommit, object, pass, TypeOK, LocalsOK, OnPool, Configuring, Cleaning
<1>3. CASE Crash
  BY <1>3, EndPassOK DEF Crash, object, TypeOK, LocalsOK, OnPool, Configuring, Cleaning
<1>4. QED BY <1>1, <1>2, <1>3 DEF Environment

(* The start of a pass and Connect.                                        *)
LEMMA ConnectOK ==
  ASSUME TypeOK, LocalsOK, StartPass \/ ConnectSites \/ ConnectStart
  PROVE  TypeOK' /\ LocalsOK'
PROOF
<1>1. CASE StartPass
  <2>1. TypeOK'
    BY <1>1 DEF StartPass, calm, haproxy, object, pending, TypeOK
  <2>2. LocalsOK'
    BY <1>1, NoneIsNothing
    DEF StartPass, calm, bounds, TypeOK, LocalsOK, OnPool, Configuring, Cleaning
  <2>3. QED BY <2>1, <2>2
<1>2. CASE ConnectSites
  <2>1. CASE pc' = "start"
    BY <1>2, <2>1
    DEF ConnectSites, EndPass, haproxy, object, bounds, task, pending, TypeOK, LocalsOK, OnPool,
        Configuring, Cleaning
  <2>2. CASE pc' # "start"
    <3>1. EndPass /\ Fails /\ dirty' = TRUE
          /\ UNCHANGED <<haproxy, tx, verRead, pmonitor, object, lost, bounds>>
      BY <1>2, <2>2 DEF ConnectSites
    <3>2. TypeOK'
      BY <3>1, EndPassOK, CountType DEF haproxy, object, TypeOK
    <3>3. LocalsOK'
      BY <3>1, EndPassOK DEF bounds, LocalsOK, OnPool, Configuring, Cleaning
    <3>4. QED BY <3>2, <3>3
  <2>3. QED BY <2>1, <2>2
<1>3. CASE ConnectStart
  <2>1. UNCHANGED <<version, body, reply, verRead, pmonitor, object, bounds>>
    BY <1>3 DEF ConnectStart
  <2>2. CASE Ended
    BY <2>2, EndedOK
  <2>3. CASE /\ leaked' = IF tx = None THEN leaked ELSE leaked + 1
             /\ tx' = [version |-> version, body |-> body]
             /\ pc' = IF mode = "configure" THEN "monitor" ELSE "cvip"
             /\ rest' = Ports
             /\ UNCHANGED <<task, port, pending, listed, dirty, faults, lost>>
    <3>1. tx' \in [version : Nat, body : Bodies] /\ tx' # None
      BY <2>3, NoneIsNothing DEF TypeOK
    <3>2. QED
      BY <1>3, <2>1, <2>3, <3>1
      DEF ConnectStart, object, bounds, task, pending, TypeOK, LocalsOK, OnPool, Configuring,
          Cleaning
  <2>4. CASE /\ lost < MaxLost /\ lost' = lost + 1 /\ leaked' = leaked + 1 /\ tx' = None
             /\ EndPass /\ dirty' = TRUE /\ UNCHANGED faults
    <3>1. TypeOK'
      BY <2>1, <2>4, EndPassOK, CountType DEF object, TypeOK
    <3>2. LocalsOK'
      BY <2>1, <2>4, EndPassOK DEF bounds, LocalsOK, OnPool, Configuring, Cleaning
    <3>3. QED BY <3>1, <3>2
  <2>5. QED
    BY <1>3, <2>2, <2>3, <2>4 DEF ConnectStart, Ended, Abort, calm, haproxy
<1>4. QED BY <1>1, <1>2, <1>3

(* The steps that only move on.                                            *)
LEMMA MoveOK ==
  ASSUME TypeOK, LocalsOK,
         \/ EditMonitor \/ PoolsHandled \/ MembersAdded \/ PoolHandled \/ VIPsHandled
         \/ VIPsDeleted \/ MembersDeleted \/ DeleteMonitor
  PROVE  TypeOK' /\ LocalsOK'
PROOF
<1>1. UNCHANGED <<haproxy, verRead, object, bounds, tx, dirty, faults, lost, task, pending, listed>>
  BY DEF EditMonitor, PoolsHandled, MembersAdded, PoolHandled, VIPsHandled, VIPsDeleted,
         MembersDeleted, DeleteMonitor, outside, calm
<1>2. CASE EditMonitor
  BY <1>1, <1>2
  DEF EditMonitor, haproxy, object, bounds, task, pending, TypeOK, LocalsOK, OnPool, Configuring,
      Cleaning
<1>3. CASE PoolsHandled \/ MembersAdded \/ PoolHandled \/ VIPsHandled
  BY <1>1, <1>3
  DEF PoolsHandled, MembersAdded, PoolHandled, VIPsHandled, haproxy, object, bounds, task,
      pending, TypeOK, LocalsOK, OnPool, Configuring, Cleaning
<1>4. CASE VIPsDeleted \/ MembersDeleted \/ DeleteMonitor
  BY <1>1, <1>4
  DEF VIPsDeleted, MembersDeleted, DeleteMonitor, haproxy, object, bounds, task,
      pending, TypeOK, LocalsOK, OnPool, Configuring, Cleaning
<1>5. QED BY <1>2, <1>3, <1>4

----------------------------------------------------------------------------
(* What the requests do inside the transaction, unless they end the pass.  *)

Sent ==
  /\ tx # None /\ tx' # None /\ tx' \in [version : Nat, body : Bodies]
  /\ UNCHANGED <<reply, calm, pmonitor, dirty, faults, lost>>

PoolSet(p, b) ==
  /\ Sent
  /\ tx'.body.pools = [tx.body.pools EXCEPT ![p] = b] /\ tx'.body.fronts = tx.body.fronts

FrontSet(p, f) ==
  /\ Sent
  /\ tx'.body.fronts = [tx.body.fronts EXCEPT ![p] = f] /\ tx'.body.pools = tx.body.pools

LEMMA PoolSent ==
  ASSUME TypeOK, tx # None, NEW p \in Ports, NEW b \in Backends \cup {None},
         tx' = [tx EXCEPT !.body = [tx.body EXCEPT !.pools[p] = b]],
         UNCHANGED <<calm, pmonitor, dirty, faults, lost>>
  PROVE  PoolSet(p, b)
PROOF
<1>1. tx \in [version : Nat, body : Bodies]
  BY DEF TypeOK
<1>2. [tx.body EXCEPT !.pools[p] = b] \in Bodies
  BY <1>1, BodyType
<1>3. tx' \in [version : Nat, body : Bodies] /\ tx'.body = [tx.body EXCEPT !.pools[p] = b]
  BY <1>1, <1>2
<1>4. tx' # None
  BY <1>3, NoneIsNothing
<1>5. /\ [tx.body EXCEPT !.pools[p] = b].pools = [tx.body.pools EXCEPT ![p] = b]
      /\ [tx.body EXCEPT !.pools[p] = b].fronts = tx.body.fronts
  BY <1>1 DEF Bodies
<1>6. QED BY <1>3, <1>4, <1>5 DEF PoolSet, Sent, calm, haproxy

LEMMA FrontSent ==
  ASSUME TypeOK, tx # None, NEW p \in Ports, NEW f \in Frontends \cup {None},
         tx' = [tx EXCEPT !.body = [tx.body EXCEPT !.fronts[p] = f]],
         UNCHANGED <<calm, pmonitor, dirty, faults, lost>>
  PROVE  FrontSet(p, f)
PROOF
<1>1. tx \in [version : Nat, body : Bodies]
  BY DEF TypeOK
<1>2. [tx.body EXCEPT !.fronts[p] = f] \in Bodies
  BY <1>1, BodyType
<1>3. tx' \in [version : Nat, body : Bodies] /\ tx'.body = [tx.body EXCEPT !.fronts[p] = f]
  BY <1>1, <1>2
<1>4. tx' # None
  BY <1>3, NoneIsNothing
<1>5. /\ [tx.body EXCEPT !.fronts[p] = f].fronts = [tx.body.fronts EXCEPT ![p] = f]
      /\ [tx.body EXCEPT !.fronts[p] = f].pools = tx.body.pools
  BY <1>1 DEF Bodies
<1>6. QED BY <1>3, <1>4, <1>5 DEF FrontSet, Sent, calm, haproxy

(* CreatePool puts an empty backend in place.                              *)
LEMMA CreatePoolStep ==
  ASSUME TypeOK, LocalsOK, CreatePool, ~Ended
  PROVE  /\ pc = "create" /\ ToServers /\ UNCHANGED listed
         /\ [check |-> pmonitor, servers |-> NoServers] \in Backends
         /\ PoolSet(port, [check |-> pmonitor, servers |-> NoServers])
PROOF
<1> DEFINE b == [check |-> pmonitor, servers |-> NoServers]
<1>1. /\ pc = "create" /\ tx # None /\ tx' = [tx EXCEPT !.body = SetPool(b)]
      /\ ToServers /\ UNCHANGED listed /\ UNCHANGED <<calm, pmonitor, dirty, faults, lost>>
  BY DEF CreatePool, Request, Ended
<1>2. port \in Ports /\ pmonitor \in Monitors
  BY <1>1, HAProxyConstants DEF LocalsOK, TypeOK, OnPool
<1>3. b \in Backends
  BY <1>2, ConstantTypes DEF Backends
<1>4. QED BY <1>1, <1>2, <1>3, PoolSent DEF SetPool

(* EditPool replaces the backend, and its servers unless 202 ends it.      *)
Edited(b) ==
  IF reply = 202
    THEN [b EXCEPT !.check = pmonitor]
    ELSE [check |-> pmonitor,
          servers |-> [n \in Names |-> IF b.servers[n] = None THEN None
                                       ELSE [b.servers[n] EXCEPT !.check = pmonitor]]]

LEMMA EditPoolStep ==
  ASSUME TypeOK, LocalsOK, EditPool, ~Ended
  PROVE  /\ pc = "edit" /\ ToServers /\ listed' \in [Ports -> NodeMaps]
         /\ tx.body.pools[port] \in Backends
         /\ Edited(tx.body.pools[port]) \in Backends
         /\ PoolSet(port, Edited(tx.body.pools[port]))
PROOF
<1> DEFINE b == tx.body.pools[port]
           hosts == [n \in Names |-> IF b.servers[n] = None THEN None ELSE b.servers[n].host]
<1>1. /\ pc = "edit" /\ tx # None /\ tx' = [tx EXCEPT !.body = SetPool(Edited(b))]
      /\ ToServers /\ (listed' = [listed EXCEPT ![port] = hosts] \/ listed' = listed)
      /\ UNCHANGED <<calm, pmonitor, dirty, faults, lost>>
  BY DEF EditPool, Request, Ended, Edited
<1>2. port \in Ports /\ pmonitor \in Monitors /\ b \in Backends
  BY <1>1, HAProxyConstants DEF LocalsOK, TypeOK, OnPool, Bodies
<1>3. Edited(b) \in Backends /\ hosts \in NodeMaps
  <2>1. CASE reply = 202
    BY <1>2, <2>1 DEF Edited, Backends, Servers, NodeMaps
  <2>2. CASE reply # 202
    BY <1>2, <2>2 DEF Edited, Backends, Servers, NodeMaps
  <2>3. QED BY <2>1, <2>2
<1>4. QED BY <1>1, <1>2, <1>3, PoolSent DEF SetPool, TypeOK

(* CreatePoolMember and DeletePoolMember change one server.                *)
LEMMA CreatePoolMemberStep ==
  ASSUME TypeOK, LocalsOK, CreatePoolMember, ~Ended
  PROVE  /\ pc = "add" /\ KeepPass /\ tx.body.pools[port] \in Backends
         /\ \E n \in toAdd :
              /\ tx.body.pools[port].servers[n] = None /\ toAdd' = toAdd \ {n} /\ UNCHANGED toDel
              /\ [tx.body.pools[port] EXCEPT !.servers[n] = [host |-> want[n], check |-> pmonitor]] \in Backends
              /\ PoolSet(port, [tx.body.pools[port] EXCEPT !.servers[n] = [host |-> want[n], check |-> pmonitor]])
PROOF
<1>1. /\ port \in Ports /\ pmonitor \in Monitors /\ tx.body \in Bodies
      /\ tx.body.pools[port] # None
  BY HAProxyConstants DEF CreatePoolMember, LocalsOK, TypeOK, OnPool, Configuring
<1>2. tx.body.pools[port] \in Backends
  BY <1>1 DEF Bodies
<1>3. PICK n \in toAdd :
        /\ tx.body.pools[port].servers[n] = None /\ toAdd' = toAdd \ {n} /\ UNCHANGED toDel
        /\ KeepPass /\ tx # None /\ tx' = [tx EXCEPT !.body = SetServer(n, [host |-> want[n], check |-> pmonitor])]
        /\ UNCHANGED <<calm, pmonitor, dirty, faults, lost>>
  BY DEF CreatePoolMember, Request, Ended
<1> DEFINE x == [host |-> want[n], check |-> pmonitor]
           b == [tx.body.pools[port] EXCEPT !.servers[n] = x]
<1>4. n \in Names /\ x \in [host : Hosts, check : Monitors] \cup {None}
  BY <1>1 DEF CreatePoolMember, LocalsOK, OnPool, TypeOK, NodeMaps
<1>5. b \in Backends /\ SetServer(n, x) = [tx.body EXCEPT !.pools[port] = b]
  BY <1>1, <1>4, ServerType DEF SetServer
<1>6. PoolSet(port, b)
  BY <1>1, <1>3, <1>5, PoolSent
<1>7. QED BY <1>2, <1>3, <1>5, <1>6 DEF CreatePoolMember

LEMMA DeletePoolMemberStep ==
  ASSUME TypeOK, LocalsOK, DeletePoolMember, ~Ended
  PROVE  /\ pc = "del" /\ KeepPass /\ tx.body.pools[port] \in Backends
         /\ \E n \in toDel :
              /\ toDel' = toDel \ {n} /\ UNCHANGED toAdd
              /\ [tx.body.pools[port] EXCEPT !.servers[n] = None] \in Backends
              /\ PoolSet(port, [tx.body.pools[port] EXCEPT !.servers[n] = None])
PROOF
<1>1. /\ port \in Ports /\ pmonitor \in Monitors /\ tx.body \in Bodies
      /\ tx.body.pools[port] # None
  BY HAProxyConstants DEF DeletePoolMember, LocalsOK, TypeOK, OnPool, Configuring
<1>2. tx.body.pools[port] \in Backends
  BY <1>1 DEF Bodies
<1>3. PICK n \in toDel :
        /\ toDel' = toDel \ {n} /\ UNCHANGED toAdd
        /\ KeepPass /\ tx # None /\ tx' = [tx EXCEPT !.body = SetServer(n, None)]
        /\ UNCHANGED <<calm, pmonitor, dirty, faults, lost>>
  BY DEF DeletePoolMember, Request, Ended
<1> DEFINE x == None
           b == [tx.body.pools[port] EXCEPT !.servers[n] = x]
<1>4. n \in Names /\ x \in [host : Hosts, check : Monitors] \cup {None}
  BY <1>1 DEF DeletePoolMember, LocalsOK, OnPool, TypeOK, NodeMaps
<1>5. b \in Backends /\ SetServer(n, x) = [tx.body EXCEPT !.pools[port] = b]
  BY <1>1, <1>4, ServerType DEF SetServer
<1>6. PoolSet(port, b)
  BY <1>1, <1>3, <1>5, PoolSent
<1>7. QED BY <1>2, <1>3, <1>5, <1>6 DEF DeletePoolMember

(* HandleVIP creates the frontend, keeps it or edits one that differs.     *)
LEMMA HandleVIPStep ==
  ASSUME TypeOK, LocalsOK, HandleVIP, ~Ended
  PROVE  /\ pc = "vip"
         /\ \E p \in rest, f \in Frontends :
              /\ NextPort(p) /\ FrontSet(p, f)
              /\ tx.body.fronts[p] \in {None, Front(goal)} => f = Front(goal)
PROOF
<1>1. pc = "vip" /\ tx \in [version : Nat, body : Bodies] /\ goal \in [ip : IPs, monitor : Monitors]
  BY DEF HandleVIP, LocalsOK, TypeOK, Configuring
<1>2. PICK p \in rest :
        LET f == tx.body.fronts[p] IN
        CASE f = None -> Request(TRUE, SetFront(p, Front(goal)), NextPort(p))
          [] f # None /\ f = Front(goal) -> Request(TRUE, tx.body, NextPort(p))
          [] OTHER -> \E ok \in BOOLEAN :
               Request(ok, SetFront(p, [ip |-> goal.ip, pool |-> FALSE]), NextPort(p))
  BY DEF HandleVIP, Front
<1>3. p \in Ports /\ UNCHANGED <<calm, pmonitor>>
  BY DEF TypeOK, HandleVIP
<1> DEFINE f0 == tx.body.fronts[p]
           f1 == [ip |-> goal.ip, pool |-> FALSE]
<1>4. Front(goal) \in Frontends /\ f1 \in Frontends
  BY <1>1 DEF Front, Frontends
<1>5. CASE f0 = None
  <2>1. Request(TRUE, SetFront(p, Front(goal)), NextPort(p))
    BY <1>2, <1>5
  <2>2. FrontSet(p, Front(goal)) /\ NextPort(p)
    BY <1>3, <1>4, <2>1, FrontSent DEF Request, Ended, SetFront
  <2>3. QED BY <1>1, <1>4, <2>2
<1>6. CASE f0 # None /\ f0 = Front(goal)
  <2>1. Request(TRUE, tx.body, NextPort(p))
    BY <1>2, <1>6
  <2>2. [tx.body EXCEPT !.fronts[p] = f0] = tx.body
    BY <1>1, <1>3 DEF Bodies
  <2>3. FrontSet(p, f0) /\ NextPort(p)
    BY <1>3, <1>4, <1>6, <2>1, <2>2, FrontSent DEF Request, Ended
  <2>4. QED BY <1>1, <1>4, <1>6, <2>3
<1>7. CASE f0 # None /\ f0 # Front(goal)
  <2>1. PICK ok \in BOOLEAN : Request(ok, SetFront(p, f1), NextPort(p))
    BY <1>2, <1>7
  <2>2. FrontSet(p, f1) /\ NextPort(p)
    BY <1>3, <1>4, <2>1, FrontSent DEF Request, Ended, SetFront
  <2>3. QED BY <1>1, <1>4, <1>7, <2>2
<1>8. QED BY <1>5, <1>6, <1>7

LEMMA DeleteVIPStep ==
  ASSUME TypeOK, LocalsOK, DeleteVIP, ~Ended
  PROVE  pc = "cvip" /\ \E p \in rest : NextPort(p) /\ FrontSet(p, None)
PROOF
<1>1. PICK p \in rest :
        /\ tx # None /\ tx' = [tx EXCEPT !.body = SetFront(p, None)] /\ NextPort(p)
        /\ UNCHANGED <<calm, pmonitor, dirty, faults, lost>>
  BY DEF DeleteVIP, Request, Ended
<1>2. p \in Ports
  BY DEF TypeOK
<1>3. QED BY <1>1, <1>2, FrontSent DEF DeleteVIP, SetFront

LEMMA DeletePoolStep ==
  ASSUME TypeOK, LocalsOK, DeletePool, ~Ended
  PROVE  pc = "cpool" /\ \E p \in rest : NextPort(p) /\ PoolSet(p, None)
PROOF
<1>1. PICK p \in rest :
        /\ tx # None /\ tx' = [tx EXCEPT !.body = [tx.body EXCEPT !.pools[p] = None]]
        /\ NextPort(p) /\ UNCHANGED <<calm, pmonitor, dirty, faults, lost>>
  BY DEF DeletePool, Request, Ended
<1>2. p \in Ports
  BY DEF TypeOK
<1>3. QED BY <1>1, <1>2, PoolSent DEF DeletePool

(* CleanMembers changes servers only, or loses the transaction.            *)
LEMMA CleanMembersStep ==
  ASSUME TypeOK, LocalsOK, CleanMembers
  PROVE  /\ pc = "cmember" /\ UNCHANGED <<calm, pmonitor, dirty>>
         /\ faults' \in 0..MaxFaults /\ lost' \in 0..MaxLost /\ (lost' = 0 => lost = 0)
         /\ \E p \in rest : NextPort(p)
         /\ \/ tx' \in {tx, None}
            \/ /\ tx # None /\ tx' # None /\ tx' \in [version : Nat, body : Bodies]
               /\ tx'.body.fronts = tx.body.fronts
PROOF
<1>1. PICK p \in rest :
        LET names == {n \in Names : status[p][n] # None}
            b == tx.body.pools[p]
            has(n) == b # None /\ b.servers[n] # None
            kept == [n \in Names |-> IF n \in names THEN None ELSE b.servers[n]] IN
        /\ \/ /\ tx # None /\ \A n \in names : has(n)
              /\ tx' = [tx EXCEPT !.body.pools[p] =
                          IF b = None THEN None ELSE [b EXCEPT !.servers = kept]]
              /\ UNCHANGED <<faults, lost>>
           \/ /\ tx # None /\ \E n \in names : ~has(n)
              /\ CloseError /\ UNCHANGED faults
           \/ /\ tx = None
              /\ UNCHANGED <<tx, faults, lost>>
           \/ names # {} /\ Fails /\ CloseError
        /\ NextPort(p)
  BY DEF CleanMembers
<1>2. p \in Ports /\ pc = "cmember" /\ UNCHANGED <<calm, pmonitor, dirty>>
  BY DEF CleanMembers, TypeOK
<1> DEFINE names == {n \in Names : status[p][n] # None}
           b == tx.body.pools[p]
           kept == [n \in Names |-> IF n \in names THEN None ELSE b.servers[n]]
           c == IF b = None THEN None ELSE [b EXCEPT !.servers = kept]
<1>3. CASE tx # None /\ tx' = [tx EXCEPT !.body.pools[p] = c] /\ UNCHANGED <<faults, lost>>
  <2>1. tx \in [version : Nat, body : Bodies] /\ b \in Backends \cup {None}
    BY <1>2, <1>3 DEF TypeOK, Bodies
  <2>2. c \in Backends \cup {None}
    BY <2>1 DEF Backends, Servers
  <2>3. tx' \in [version : Nat, body : Bodies] /\ tx'.body.fronts = tx.body.fronts
    BY <1>2, <1>3, <2>1, <2>2 DEF Bodies
  <2>4. QED BY <1>1, <1>2, <1>3, <2>3, NoneIsNothing DEF TypeOK
<1>4. CASE CloseError /\ (Fails \/ UNCHANGED faults)
  BY <1>1, <1>2, <1>4, CountType DEF CloseError, TypeOK
<1>5. CASE UNCHANGED <<tx, faults, lost>>
  BY <1>1, <1>2, <1>5 DEF TypeOK
<1>6. QED BY <1>1, <1>3, <1>4, <1>5

(* Close commits the transaction.                                          *)
LEMMA CloseStep ==
  ASSUME TypeOK, LocalsOK, Close, ~Ended
  PROVE  /\ pc = "commit" /\ tx # None /\ tx' = None
         /\ version' = NewVersion /\ body' = tx.body
         /\ UNCHANGED <<leaked, reply, verRead, pmonitor, object, bounds, lost>>
         /\ \/ /\ pc' = IF mode = "configure" THEN "status" ELSE "rmFinalizer"
               /\ UNCHANGED <<task, rest, port, pending, listed, dirty, faults>>
            \/ Fails /\ EndPass /\ dirty' = TRUE
  BY DEF Close, Ended, Abort, calm, haproxy

(* GetPool compares the wanted nodes with the servers by their address.    *)
LEMMA GetPoolStep ==
  ASSUME TypeOK, LocalsOK, GetPool, ~Ended
  PROVE  /\ pc = "pool" /\ UNCHANGED <<reply, tx, task, dirty, faults, lost, calm, pmonitor>>
         /\ rest' \subseteq rest /\ port' \in Ports /\ rest \subseteq rest' \cup {port'}
         /\ listed' \in [Ports -> NodeMaps]
         /\ \/ /\ pc' = "create" /\ toDel' = {}
               /\ toAdd' = {n \in Names : want[n] # None}
            \/ LET servers == tx.body.pools[port'].servers IN
               /\ pc' = "edit" /\ tx.body.pools[port'] # None
               /\ toAdd' = {n \in Names : want[n] \notin ServerHosts(servers) \cup {None}}
               /\ toDel' = {n \in Names : servers[n] # None /\ servers[n].host \notin NodeHosts(want)}
PROOF
<1>1. PICK p \in rest :
        /\ port' = p
        /\ rest' = rest \ {p}
        /\ listed' = [listed EXCEPT ![p] = want]
        /\ IF tx.body.pools[p] = None
             THEN /\ pc' = "create"
                  /\ toAdd' = {n \in Names : want[n] # None}
                  /\ toDel' = {}
             ELSE LET servers == tx.body.pools[p].servers IN
                  /\ pc' = "edit"
                  /\ toAdd' = {n \in Names : want[n] \notin ServerHosts(servers) \cup {None}}
                  /\ toDel' = {n \in Names : /\ servers[n] # None
                                             /\ servers[n].host \notin NodeHosts(want)}
        /\ UNCHANGED <<tx, task, dirty, faults, lost>>
  BY DEF GetPool, Ended, Abort, CloseError, LocalsOK, Configuring
<1>2. pc = "pool" /\ UNCHANGED <<calm, pmonitor>> /\ p \in Ports
  BY DEF GetPool, TypeOK
<1>3. listed' \in [Ports -> NodeMaps]
  BY <1>1 DEF TypeOK
<1>4. QED BY <1>1, <1>2, <1>3 DEF calm, haproxy

----------------------------------------------------------------------------
(* Types and locals, continued.                                            *)

LEMMA SentOK ==
  ASSUME TypeOK, Sent, UNCHANGED <<task, rest, port>>,
         toAdd' \subseteq toAdd, toDel' \subseteq toDel,
         listed' \in [Ports -> NodeMaps],
         pc' \in {"add", "del", "vip", "cvip", "cpool"}
  PROVE  TypeOK'
  BY DEF Sent, TypeOK, calm, haproxy, object, task

LEMMA GetPoolOK ==
  ASSUME TypeOK, LocalsOK, GetPool
  PROVE  TypeOK' /\ LocalsOK'
PROOF
<1>1. CASE Ended
  BY <1>1, EndedOK
<1>2. CASE ~Ended
  <2>1. /\ UNCHANGED <<haproxy, verRead, object, bounds, tx, task, dirty, faults, lost, pmonitor>>
        /\ pc = "pool" /\ pc' \in {"create", "edit"} /\ rest' \subseteq rest /\ port' \in Ports
        /\ listed' \in [Ports -> NodeMaps] /\ toDel' \subseteq Names
        /\ toAdd' \subseteq {n \in Names : want[n] # None}
        /\ pc' = "edit" => tx.body.pools[port'] # None
    BY <1>2, GetPoolStep DEF calm
  <2>2. TypeOK'
    BY <2>1 DEF TypeOK, haproxy, object, task
  <2>3. LocalsOK'
    BY <2>1 DEF LocalsOK, OnPool, Configuring, Cleaning, task, bounds
  <2>4. QED BY <2>2, <2>3
<1>3. QED BY <1>1, <1>2

LEMMA PoolRequestsOK ==
  ASSUME TypeOK, LocalsOK,
         CreatePool \/ EditPool \/ CreatePoolMember \/ DeletePoolMember
  PROVE  TypeOK' /\ LocalsOK'
PROOF
<1>1. CASE Ended
  BY <1>1, EndedOK
<1>2. CASE ~Ended
  <2>1. ASSUME NEW b \in Backends, PoolSet(port, b), UNCHANGED <<task, rest, port>>,
               toAdd' \subseteq toAdd, toDel' \subseteq toDel, listed' \in [Ports -> NodeMaps],
               pc \in OnPool, pc' \in {"add", "del"}
        PROVE  TypeOK' /\ LocalsOK'
    <3>1. TypeOK'
      BY <2>1, SentOK DEF PoolSet
    <3>2. tx'.body.pools[port] # None /\ port \in Ports
      <4>1. port \in Ports /\ tx.body.pools \in [Ports -> Backends \cup {None}]
        BY <2>1 DEF PoolSet, Sent, TypeOK, LocalsOK, Bodies
      <4>2. QED BY <2>1, <4>1, NoneIsNothing DEF PoolSet
    <3>3. LocalsOK'
      BY <2>1, <3>2
      DEF PoolSet, Sent, calm, bounds, task, LocalsOK, OnPool, Configuring, Cleaning
    <3>4. QED BY <3>1, <3>3
  <2>2. CASE CreatePool
    BY <1>2, <2>1, <2>2, CreatePoolStep DEF ToServers, pending, OnPool, TypeOK
  <2>3. CASE EditPool
    BY <1>2, <2>1, <2>3, EditPoolStep DEF ToServers, pending, OnPool
  <2>4. CASE CreatePoolMember
    <3>1. listed \in [Ports -> NodeMaps]
      BY DEF TypeOK
    <3>2. QED BY <1>2, <2>1, <2>4, <3>1, CreatePoolMemberStep DEF KeepPass, OnPool
  <2>5. CASE DeletePoolMember
    <3>1. listed \in [Ports -> NodeMaps]
      BY DEF TypeOK
    <3>2. QED BY <1>2, <2>1, <2>5, <3>1, DeletePoolMemberStep DEF KeepPass, OnPool
  <2>6. QED BY <2>2, <2>3, <2>4, <2>5
<1>3. QED BY <1>1, <1>2

LEMMA PortRequestsOK ==
  ASSUME TypeOK, LocalsOK, HandleVIP \/ DeleteVIP \/ DeletePool
  PROVE  TypeOK' /\ LocalsOK'
PROOF
<1>1. CASE Ended
  BY <1>1, EndedOK
<1>2. CASE ~Ended
  <2>1. PICK p \in rest : NextPort(p)
    BY <1>2, HandleVIPStep, DeleteVIPStep, DeletePoolStep
  <2>2. Sent /\ pc \in {"vip", "cvip", "cpool"}
    BY <1>2, HandleVIPStep, DeleteVIPStep, DeletePoolStep DEF FrontSet, PoolSet
  <2>3. TypeOK'
    BY <2>1, <2>2 DEF NextPort, Sent, TypeOK, calm, haproxy, object, task, pending
  <2>4. LocalsOK'
    BY <2>1, <2>2
    DEF NextPort, Sent, calm, bounds, task, LocalsOK, OnPool, Configuring, Cleaning
  <2>5. QED BY <2>3, <2>4
<1>3. QED BY <1>1, <1>2

LEMMA CleanMembersOK ==
  ASSUME TypeOK, LocalsOK, CleanMembers
  PROVE  TypeOK' /\ LocalsOK'
PROOF
<1>1. PICK p \in rest : NextPort(p)
  BY CleanMembersStep
<1>2. /\ pc = "cmember" /\ UNCHANGED <<haproxy, verRead, object, bounds, pmonitor, dirty>>
      /\ faults' \in 0..MaxFaults /\ lost' \in 0..MaxLost
      /\ tx' \in [version : Nat, body : Bodies] \cup {None}
  BY CleanMembersStep DEF calm, TypeOK
<1>3. TypeOK'
  BY <1>1, <1>2 DEF NextPort, TypeOK, haproxy, object, task, pending
<1>4. LocalsOK'
  BY <1>1, <1>2 DEF NextPort, bounds, task, LocalsOK, OnPool, Configuring, Cleaning
<1>5. QED BY <1>3, <1>4

LEMMA EndsOK ==
  ASSUME TypeOK, LocalsOK, Close \/ WriteStatus \/ RemoveFinalizer
  PROVE  TypeOK' /\ LocalsOK'
PROOF
<1>1. CASE Ended
  BY <1>1, EndedOK
<1>2. CASE Close /\ ~Ended
  <2>1. /\ pc = "commit" /\ tx' = None /\ version' \in Nat /\ body' \in Bodies
        /\ UNCHANGED <<leaked, reply, verRead, pmonitor, object, bounds, lost>>
    <3>1. tx \in [version : Nat, body : Bodies]
      BY <1>2, CloseStep DEF TypeOK
    <3>2. NewVersion \in Nat /\ tx.body \in Bodies
      BY <3>1, NewVersionType DEF TypeOK
    <3>3. QED BY <1>2, <3>2, CloseStep
  <2>2. CASE Fails /\ EndPass /\ dirty' = TRUE
    <3>1. TypeOK'
      BY <2>1, <2>2, EndPassOK, CountType DEF TypeOK, object
    <3>2. LocalsOK'
      BY <2>1, <2>2, EndPassOK DEF LocalsOK, OnPool, Configuring, Cleaning, bounds
    <3>3. QED BY <3>1, <3>2
  <2>3. CASE /\ pc' = IF mode = "configure" THEN "status" ELSE "rmFinalizer"
             /\ UNCHANGED <<task, rest, port, pending, listed, dirty, faults>>
    <3>1. TypeOK'
      BY <2>1, <2>3 DEF TypeOK, object, task, pending
    <3>2. LocalsOK'
      BY <2>1, <2>3 DEF TypeOK, LocalsOK, OnPool, Configuring, Cleaning, bounds, task
    <3>3. QED BY <3>1, <3>2
  <2>4. QED BY <1>2, <2>2, <2>3, CloseStep
<1>3. CASE WriteStatus
  <2>1. CASE EndPass
    BY <1>3, <2>1, EndPassOK
    DEF WriteStatus, haproxy, bounds, TypeOK, LocalsOK, OnPool, Configuring, Cleaning
  <2>2. CASE ~EndPass
    BY <1>3, <2>2
    DEF WriteStatus, haproxy, bounds, pending, TypeOK, LocalsOK, OnPool, Configuring, Cleaning
  <2>3. QED BY <2>1, <2>2
<1>4. CASE RemoveFinalizer
  BY <1>4, EndPassOK
  DEF RemoveFinalizer, haproxy, bounds, TypeOK, LocalsOK, OnPool, Configuring, Cleaning
<1>5. QED BY <1>1, <1>2, <1>3, <1>4

(* Every variable keeps its type, and the provider's methods find the      *)
(* transaction, the port and the monitor they use.                         *)
THEOREM HAProxyTypeCorrect == Spec => [](TypeOK /\ LocalsOK)
PROOF
<1>1. Init => TypeOK /\ LocalsOK
  <2>1. Init => TypeOK
    <3> SUFFICES ASSUME Init PROVE TypeOK
      OBVIOUS
    <3>1. nodes \in NodeMaps
      BY DEF Init, NodeMaps
    <3>2. 0 \in 0..MaxFaults /\ 0 \in 0..MaxLost
      BY HAProxyConstants
    <3>3. QED BY <3>1, <3>2, ConstantTypes DEF Init, TypeOK
  <2>2. Init => LocalsOK
    BY DEF Init, LocalsOK, OnPool, Configuring, Cleaning
  <2>3. QED BY <2>1, <2>2
<1>2. TypeOK /\ LocalsOK /\ [Next]_vars => (TypeOK /\ LocalsOK)'
  <2> SUFFICES ASSUME TypeOK, LocalsOK, [Next]_vars PROVE TypeOK' /\ LocalsOK'
    OBVIOUS
  <2>1. CASE Work
    BY <2>1, ConnectOK, MoveOK, GetPoolOK, PoolRequestsOK, PortRequestsOK, CleanMembersOK, EndsOK
    DEF Work
  <2>2. CASE UNCHANGED vars
    BY <2>2
    DEF vars, haproxy, pass, object, bounds, TypeOK, LocalsOK, OnPool, Configuring, Cleaning
  <2>3. QED BY <2>1, <2>2, EnvironmentOK DEF Next
<1>3. QED BY <1>1, <1>2, PTL DEF Spec

----------------------------------------------------------------------------
(* Transactions.                                                           *)

LEMMA NothingOpenStep ==
  ASSUME TypeOK, LocalsOK, NothingOpen, [Next]_vars
  PROVE  NothingOpen'
PROOF
<1> USE DEF NothingOpen
<1>1. CASE Environment
  <2>1. CASE Crash
    BY <2>1 DEF Crash, LocalsOK
  <2>2. CASE ~Crash
    BY <1>1, <2>2
    DEF Environment, ChangeSpec, ChangeNode, Delete, EnvOp, OtherCommit, haproxy, pass
  <2>3. QED BY <2>1, <2>2
<1>2. CASE Ended
  BY <1>2 DEF Ended, Abort, CloseError, EndPass, calm, haproxy, bounds, TypeOK
<1>3. CASE StartPass \/ ConnectSites
  BY <1>3 DEF StartPass, ConnectSites, EndPass, calm, haproxy, bounds
<1>4. CASE ConnectStart /\ ~Ended
  BY <1>4
  DEF ConnectStart, Ended, Abort, calm, haproxy, bounds, TypeOK
<1>5. CASE \/ EditMonitor \/ PoolsHandled \/ MembersAdded \/ PoolHandled \/ VIPsHandled
           \/ VIPsDeleted \/ MembersDeleted \/ DeleteMonitor
  BY <1>5
  DEF EditMonitor, PoolsHandled, MembersAdded, PoolHandled, VIPsHandled, VIPsDeleted,
      MembersDeleted, DeleteMonitor, outside, calm, haproxy, bounds
<1>6. CASE GetPool /\ ~Ended
  BY <1>6, GetPoolStep DEF calm, haproxy, bounds
<1>7. CASE (CreatePool \/ EditPool \/ CreatePoolMember \/ DeletePoolMember) /\ ~Ended
  <2>1. Sent /\ pc' \in {"add", "del"}
    BY <1>7, CreatePoolStep, EditPoolStep, CreatePoolMemberStep, DeletePoolMemberStep
    DEF PoolSet, ToServers, KeepPass
  <2>2. QED BY <2>1 DEF Sent, calm, haproxy, bounds
<1>8. CASE (HandleVIP \/ DeleteVIP \/ DeletePool) /\ ~Ended
  <2>1. Sent /\ pc' \in {"vip", "cvip", "cpool"}
    BY <1>8, HandleVIPStep, DeleteVIPStep, DeletePoolStep DEF FrontSet, PoolSet, NextPort
  <2>2. QED BY <2>1 DEF Sent, calm, haproxy, bounds
<1>9. CASE CleanMembers
  <2>1. pc' = "cmember" /\ UNCHANGED <<calm>> /\ (lost' = 0 => lost = 0)
    BY <1>9, CleanMembersStep DEF NextPort
  <2>2. QED BY <2>1 DEF calm, haproxy, bounds
<1>10. CASE Close /\ ~Ended
  BY <1>10, CloseStep DEF bounds
<1>11. CASE WriteStatus \/ RemoveFinalizer
  BY <1>11 DEF WriteStatus, RemoveFinalizer, haproxy, bounds
<1>12. CASE UNCHANGED vars
  BY <1>12 DEF vars, haproxy, pass, bounds
<1>13. QED
  BY <1>1, <1>2, <1>3, <1>4, <1>5, <1>6, <1>7, <1>8, <1>9, <1>10, <1>11, <1>12 DEF Next, Work

(* For any number of failed requests and refused commits, in any step of   *)
(* a pass: while the process lives, deletions of transactions succeed,     *)
(* starts are answered and no empty server list is answered as null (the   *)
(* panic that follows skips CloseError), every transaction Connect opens   *)
(* is committed or deleted before the pass ends, and none is forgotten.    *)
THEOREM NoTransactionLeaks == Spec => []NoLeakedTransaction
PROOF
<1>1. Init => NothingOpen
  BY DEF Init, NothingOpen
<1>2. TypeOK /\ LocalsOK /\ NothingOpen /\ [Next]_vars => NothingOpen'
  BY NothingOpenStep
<1>3. NothingOpen => NoLeakedTransaction
  BY DEF NothingOpen, NoLeakedTransaction
<1>4. QED BY <1>1, <1>2, <1>3, HAProxyTypeCorrect, PTL DEF Spec

----------------------------------------------------------------------------
(* Frontends.                                                              *)

LEMMA FrontsStep ==
  ASSUME VipChange = FALSE, TypeOK, LocalsOK, FrontsOurs, [Next]_vars
  PROVE  FrontsOurs'
PROOF
<1> USE DEF FrontsOurs, OurFronts, Front
<1>1. CASE Environment
  <2>1. spec'.ip = spec.ip /\ body' = body
    BY <1>1
    DEF Environment, ChangeSpec, ChangeNode, Delete, EnvOp, OtherCommit, Crash, haproxy, object
  <2>2. CASE Crash
    BY <2>1, <2>2 DEF Crash, EndPass
  <2>3. CASE ~Crash
    <3>1. UNCHANGED <<pc, goal, tx>>
      BY <1>1, <2>3
      DEF Environment, ChangeSpec, ChangeNode, Delete, EnvOp, OtherCommit, pass
    <3>2. QED BY <2>1, <3>1
  <2>4. QED BY <2>2, <2>3
<1>2. CASE Ended
  BY <1>2 DEF Ended, Abort, CloseError, EndPass, calm, haproxy, object
<1>3. CASE StartPass \/ ConnectSites
  BY <1>3 DEF StartPass, ConnectSites, EndPass, calm, haproxy, object, task
<1>4. CASE ConnectStart /\ ~Ended
  <2>1. UNCHANGED <<body, spec>>
    BY <1>4 DEF ConnectStart, object
  <2>2. CASE tx' = None
    BY <1>4, <2>1, <2>2
    DEF ConnectStart, Ended, Abort, EndPass, calm, haproxy, task
  <2>3. CASE tx' # None
    <3>1. tx'.body = body /\ goal' = goal /\ pc # "idle"
      BY <1>4, <2>3 DEF ConnectStart, Ended, Abort, calm, haproxy, task
    <3>2. QED BY <2>1, <3>1
  <2>4. QED BY <2>2, <2>3
<1>5. CASE \/ EditMonitor \/ PoolsHandled \/ MembersAdded \/ PoolHandled \/ VIPsHandled
           \/ VIPsDeleted \/ MembersDeleted \/ DeleteMonitor
  <2>1. UNCHANGED <<body, spec, tx, goal>> /\ pc # "idle"
    BY <1>5
    DEF EditMonitor, PoolsHandled, MembersAdded, PoolHandled, VIPsHandled, VIPsDeleted,
        MembersDeleted, DeleteMonitor, outside, calm, haproxy, object, task
  <2>2. QED BY <2>1
<1>6. CASE GetPool /\ ~Ended
  BY <1>6, GetPoolStep DEF calm, haproxy, object, task
<1>7. CASE (CreatePool \/ EditPool \/ CreatePoolMember \/ DeletePoolMember) /\ ~Ended
  <2>1. Sent /\ tx'.body.fronts = tx.body.fronts /\ goal' = goal /\ pc # "idle"
    BY <1>7, CreatePoolStep, EditPoolStep, CreatePoolMemberStep, DeletePoolMemberStep
    DEF PoolSet, ToServers, KeepPass, task
  <2>2. QED BY <2>1 DEF Sent, calm, haproxy, object
<1>8. CASE (HandleVIP \/ DeleteVIP) /\ ~Ended
  <2>1. PICK p \in rest, f \in Frontends \cup {None} :
          /\ NextPort(p) /\ FrontSet(p, f) /\ pc # "idle"
          /\ tx.body.fronts[p] \in {None, Front(goal)} => f \in {None, Front(goal)}
    BY <1>8, HandleVIPStep, DeleteVIPStep
  <2>2. p \in Ports /\ UNCHANGED <<body, spec, goal>> /\ goal.ip = spec.ip
    BY <2>1 DEF FrontSet, Sent, NextPort, calm, haproxy, object, task, TypeOK
  <2>3. f \in {None, Front(spec)}
    BY <2>1, <2>2 DEF FrontSet, Sent
  <2>4. tx.body.fronts \in [Ports -> Frontends \cup {None}]
    BY <2>1 DEF FrontSet, Sent, TypeOK, Bodies
  <2>5. \A q \in Ports : tx'.body.fronts[q] \in {None, Front(spec)}
    BY <2>1, <2>3, <2>4 DEF FrontSet, Sent
  <2>6. QED BY <2>2, <2>5
<1>9. CASE DeletePool /\ ~Ended
  <2>1. Sent /\ tx'.body.fronts = tx.body.fronts /\ goal' = goal /\ pc # "idle"
    BY <1>9, DeletePoolStep DEF PoolSet, NextPort, task
  <2>2. QED BY <2>1 DEF Sent, calm, haproxy, object
<1>10. CASE CleanMembers
  <2>1. /\ UNCHANGED <<body, spec, goal>> /\ pc # "idle"
        /\ tx' # None => tx # None /\ tx'.body.fronts = tx.body.fronts
    BY <1>10, CleanMembersStep DEF NextPort, calm, haproxy, object, task
  <2>2. QED BY <2>1
<1>11. CASE Close /\ ~Ended
  BY <1>11, CloseStep DEF EndPass, object, task
<1>12. CASE WriteStatus \/ RemoveFinalizer
  BY <1>12 DEF WriteStatus, RemoveFinalizer, EndPass, haproxy
<1>13. CASE UNCHANGED vars
  BY <1>13 DEF vars, haproxy, pass, object
<1>14. QED
  BY <1>1, <1>2, <1>3, <1>4, <1>5, <1>6, <1>7, <1>8, <1>9, <1>10, <1>11, <1>12, <1>13
  DEF Next, Work

----------------------------------------------------------------------------
(* Progress inside the transaction.                                        *)

(* Where nothing is known of the transaction.                              *)
LEMMA NoProgress ==
  ASSUME pc' \in {"idle", "sites", "start", "status", "rmFinalizer"}
  PROVE  Configured' /\ CleanedUp'
  BY DEF Configured, CleanedUp, OnPool

(* A pool is as wanted once every server was added and removed.            *)
LEMMA PoolBuilt ==
  ASSUME TypeOK, NEW b \in Backends, Checked(b), Covered(b.servers), toAdd = {},
         Unwanted(b.servers) = {}
  PROVE  PoolServes(b)
PROOF
<1>1. b.servers \in Servers /\ want \in NodeMaps
  BY DEF TypeOK, Backends
<1>2. ASSUME NEW h \in ServerHosts(b.servers) PROVE h \in NodeHosts(want)
  <2>1. PICK n \in Names : b.servers[n] # None /\ h = b.servers[n].host
    BY <1>2 DEF ServerHosts
  <2>2. h # None
    BY <1>1, <2>1, HAProxyConstants DEF Servers
  <2>3. \E k \in Names : want[k] = h
    BY <2>1 DEF Unwanted
  <2>4. QED BY <2>2, <2>3 DEF NodeHosts
<1>3. ASSUME NEW h \in NodeHosts(want) PROVE h \in ServerHosts(b.servers)
  BY <1>3 DEF NodeHosts, ServerHosts, Covered
<1>4. QED BY <1>2, <1>3 DEF PoolServes

(* The other pools stay as they are.                                       *)
LEMMA OthersServe ==
  ASSUME TypeOK, port \in Ports, NEW b, PoolSet(port, b), UNCHANGED <<want, goal, rest, port>>,
         PoolsServe(Ports \ (rest \cup {port}))
  PROVE  PoolsServe(Ports \ (rest \cup {port}))'
PROOF
<1>1. tx.body.pools \in [Ports -> Backends \cup {None}]
  BY DEF PoolSet, Sent, TypeOK, Bodies
<1>2. ASSUME NEW q \in Ports \ (rest \cup {port}) PROVE PoolServes(tx.body.pools[q])'
  <2>1. PoolServes(tx.body.pools[q]) /\ tx'.body.pools[q] = tx.body.pools[q]
    BY <1>1 DEF PoolsServe, PoolSet
  <2>2. reply' = reply
    BY DEF PoolSet, Sent
  <2>3. QED BY <2>1, <2>2 DEF PoolServes, Checked, ServerHosts, NodeHosts
<1>3. QED BY <1>2 DEF PoolsServe

LEMMA GetPoolProgress ==
  ASSUME TypeOK, LocalsOK, Configured, GetPool, ~Ended
  PROVE  Configured' /\ CleanedUp'
PROOF
<1>1. /\ pc = "pool" /\ UNCHANGED <<reply, tx, mode, want, goal>>
      /\ port' \in Ports /\ rest \subseteq rest' \cup {port'} /\ pc' \in {"create", "edit"}
  BY GetPoolStep DEF task
<1>2. PoolsServe(Ports \ (rest \cup {port}))'
  BY <1>1
  DEF Configured, PoolsServe, PoolServes, Checked, ServerHosts, NodeHosts
<1>3. CASE pc' = "create"
  BY <1>1, <1>2, <1>3, GetPoolStep DEF Configured, CleanedUp, OnPool
<1>4. CASE pc' = "edit"
  <2> DEFINE servers == tx.body.pools[port'].servers
  <2>1. /\ tx.body.pools[port'] # None
        /\ toAdd' = {n \in Names : want[n] \notin ServerHosts(servers) \cup {None}}
        /\ toDel' = {n \in Names : servers[n] # None /\ servers[n].host \notin NodeHosts(want)}
    BY <1>4, GetPoolStep
  <2>2. servers \in Servers
    BY <1>1, <2>1 DEF TypeOK, LocalsOK, Configuring, Bodies, Backends
  <2>3. Covered(tx.body.pools[port].servers)'
    BY <1>1, <2>1 DEF Covered, ServerHosts
  <2>4. (toDel = Unwanted(tx.body.pools[port].servers))'
    <3>1. \A n \in Names : servers[n] # None => servers[n].host # None
      BY <2>2, HAProxyConstants DEF Servers
    <3>2. QED BY <1>1, <2>1, <3>1 DEF Unwanted, NodeHosts
  <2>5. QED BY <1>2, <1>4, <2>3, <2>4 DEF Configured, CleanedUp, OnPool
<1>5. QED BY <1>1, <1>3, <1>4

LEMMA CreatePoolProgress ==
  ASSUME TypeOK, LocalsOK, Configured, CreatePool, ~Ended
  PROVE  Configured' /\ CleanedUp'
PROOF
<1> DEFINE b == [check |-> pmonitor, servers |-> NoServers]
<1>1. /\ pc = "create" /\ pc' = "add" /\ PoolSet(port, b) /\ b \in Backends
      /\ UNCHANGED <<reply, mode, want, goal, rest, port, toAdd, toDel>> /\ port \in Ports
  BY CreatePoolStep DEF ToServers, task, pending, LocalsOK, OnPool, PoolSet, Sent
<1>2. tx'.body.pools[port] = b
  BY <1>1 DEF PoolSet, Sent, TypeOK, Bodies
<1>3. PoolsServe(Ports \ (rest \cup {port}))'
  BY <1>1, OthersServe DEF Configured, OnPool
<1>4. pmonitor = goal.monitor /\ \A n \in Names : NoServers[n] = None
  BY <1>1 DEF LocalsOK, OnPool, NoServers
<1>5. Checked(tx.body.pools[port])'
  BY <1>1, <1>2, <1>4, NoneIsNothing DEF Checked
<1>6. Covered(tx.body.pools[port].servers)'
  BY <1>1, <1>2 DEF Configured, Covered
<1>7. (toDel = Unwanted(tx.body.pools[port].servers))'
  BY <1>1, <1>2, <1>4 DEF Configured, Unwanted
<1>8. QED BY <1>1, <1>3, <1>5, <1>6, <1>7 DEF Configured, CleanedUp, OnPool

LEMMA EditPoolProgress ==
  ASSUME TypeOK, LocalsOK, Configured, EditPool, ~Ended
  PROVE  Configured' /\ CleanedUp'
PROOF
<1> DEFINE b == tx.body.pools[port]
           c == Edited(b)
<1>1. /\ pc = "edit" /\ pc' = "add" /\ b \in Backends /\ c \in Backends /\ PoolSet(port, c)
      /\ UNCHANGED <<reply, mode, want, goal, rest, port, toAdd, toDel>> /\ port \in Ports
  BY EditPoolStep DEF ToServers, task, pending, LocalsOK, OnPool, PoolSet, Sent
<1>2. tx'.body.pools[port] = c
  BY <1>1 DEF PoolSet, Sent, TypeOK, Bodies
<1>3. PoolsServe(Ports \ (rest \cup {port}))'
  BY <1>1, OthersServe DEF Configured, OnPool
<1>4. \A n \in Names : /\ c.servers[n] # None <=> b.servers[n] # None
                       /\ b.servers[n] # None => /\ c.servers[n].host = b.servers[n].host
                                                 /\ reply # 202 => c.servers[n].check = pmonitor
  <2>1. \A n \in Names :
          b.servers[n] # None => b.servers[n] \in [host : Hosts, check : Monitors]
    BY <1>1 DEF Backends, Servers
  <2>2. pmonitor \in Monitors
    BY <1>1 DEF LocalsOK, OnPool, TypeOK
  <2>3. CASE reply = 202
    <3>1. c.servers = b.servers
      BY <1>1, <2>3 DEF Edited, Backends
    <3>2. QED BY <2>3, <3>1
  <2>4. CASE reply # 202
    <3>1. ASSUME NEW n \in Names, b.servers[n] # None
          PROVE  /\ c.servers[n] = [b.servers[n] EXCEPT !.check = pmonitor]
                 /\ c.servers[n] \in [host : Hosts, check : Monitors]
      BY <2>1, <2>2, <2>4, <3>1 DEF Edited
    <3>2. ASSUME NEW n \in Names, b.servers[n] # None
          PROVE  /\ c.servers[n] # None /\ c.servers[n].host = b.servers[n].host
                 /\ c.servers[n].check = pmonitor
      BY <2>1, <3>1, <3>2, NoneIsNothing
    <3>3. ASSUME NEW n \in Names, b.servers[n] = None PROVE c.servers[n] = None
      BY <2>4, <3>3 DEF Edited
    <3>4. QED BY <3>2, <3>3
  <2>5. QED BY <2>3, <2>4
<1>5. Checked(tx.body.pools[port])'
  <2>1. c.check = goal.monitor /\ pmonitor = goal.monitor
    BY <1>1 DEF LocalsOK, OnPool, Edited, Backends
  <2>2. QED BY <1>1, <1>2, <1>4, <2>1, NoneIsNothing DEF Checked
<1>6. Covered(tx.body.pools[port].servers)'
  BY <1>1, <1>2, <1>4 DEF Configured, Covered
<1>7. (toDel = Unwanted(tx.body.pools[port].servers))'
  BY <1>1, <1>2, <1>4 DEF Configured, Unwanted
<1>8. QED BY <1>1, <1>3, <1>5, <1>6, <1>7 DEF Configured, CleanedUp, OnPool

LEMMA CreatePoolMemberProgress ==
  ASSUME TypeOK, LocalsOK, Configured, CreatePoolMember, ~Ended
  PROVE  Configured' /\ CleanedUp'
PROOF
<1> DEFINE b == tx.body.pools[port]
<1>1. /\ pc = "add" /\ pc' = "add" /\ b \in Backends
      /\ UNCHANGED <<reply, mode, want, goal, rest, port>> /\ port \in Ports
  BY CreatePoolMemberStep DEF KeepPass, task, LocalsOK, OnPool, PoolSet, Sent
<1>2. PICK n \in toAdd :
        /\ b.servers[n] = None /\ toAdd' = toAdd \ {n} /\ UNCHANGED toDel
        /\ [b EXCEPT !.servers[n] = [host |-> want[n], check |-> pmonitor]] \in Backends
        /\ PoolSet(port, [b EXCEPT !.servers[n] = [host |-> want[n], check |-> pmonitor]])
  BY CreatePoolMemberStep
<1> DEFINE x == [host |-> want[n], check |-> pmonitor]
           c == [b EXCEPT !.servers[n] = x]
<1>3. tx'.body.pools[port] = c
  BY <1>1, <1>2 DEF PoolSet, Sent, TypeOK, Bodies
<1>4. PoolsServe(Ports \ (rest \cup {port}))'
  BY <1>1, <1>2, OthersServe DEF Configured, OnPool
<1>5. n \in Names /\ b.servers \in Servers /\ pmonitor = goal.monitor
  BY <1>1, <1>2 DEF TypeOK, LocalsOK, OnPool, Backends
<1>6. c.check = b.check /\ c.servers = [b.servers EXCEPT ![n] = x]
  BY <1>1, <1>5 DEF Backends
<1>7. \A k \in Names : k # n => c.servers[k] = b.servers[k]
  BY <1>5, <1>6 DEF Servers
<1>8. c.servers[n] = x
  BY <1>5, <1>6 DEF Servers
<1>9. x # None /\ x.host = want[n] /\ x.check = goal.monitor
  <2>1. want[n] \in Hosts /\ pmonitor \in Monitors
    BY <1>1, <1>2, <1>5 DEF TypeOK, NodeMaps, LocalsOK, OnPool
  <2>2. x \in [host : Hosts, check : Monitors]
    BY <2>1
  <2>3. QED BY <1>5, <2>2, NoneIsNothing
<1>10. Checked(b) /\ Covered(b.servers) /\ toDel = Unwanted(b.servers)
  BY <1>1 DEF Configured
<1>11. Checked(tx.body.pools[port])'
  <2>1. c # None
    BY <1>2, NoneIsNothing
  <2>2. c.check = goal.monitor
    BY <1>6, <1>10 DEF Checked
  <2>3. reply # 202 => \A k \in Names : c.servers[k] # None => c.servers[k].check = goal.monitor
    BY <1>7, <1>8, <1>9, <1>10 DEF Checked
  <2>4. QED BY <1>1, <1>3, <2>1, <2>2, <2>3 DEF Checked
<1>12. Covered(tx.body.pools[port].servers)'
  <2>1. ASSUME NEW m \in Names, want[m] # None
        PROVE  m \in toAdd' \/ \E k \in Names : c.servers[k] # None /\ c.servers[k].host = want[m]
    BY <1>2, <1>5, <1>7, <1>8, <1>9, <1>10, <2>1 DEF Covered
  <2>2. QED BY <1>1, <1>3, <2>1 DEF Covered
<1>13. (toDel = Unwanted(tx.body.pools[port].servers))'
  <2>1. \A k \in Names : k \in Unwanted(b.servers) <=>
                          c.servers[k] # None /\ \A m \in Names : want[m] # c.servers[k].host
    BY <1>2, <1>5, <1>7, <1>8, <1>9 DEF Unwanted
  <2>2. QED BY <1>1, <1>2, <1>3, <1>10, <2>1 DEF Unwanted
<1>14. QED BY <1>1, <1>2, <1>4, <1>11, <1>12, <1>13 DEF Configured, CleanedUp, OnPool

LEMMA DeletePoolMemberProgress ==
  ASSUME TypeOK, LocalsOK, Configured, DeletePoolMember, ~Ended
  PROVE  Configured' /\ CleanedUp'
PROOF
<1> DEFINE b == tx.body.pools[port]
<1>1. /\ pc = "del" /\ pc' = "del" /\ b \in Backends
      /\ UNCHANGED <<reply, mode, want, goal, rest, port>> /\ port \in Ports
  BY DeletePoolMemberStep DEF KeepPass, task, LocalsOK, OnPool, PoolSet, Sent
<1>2. PICK n \in toDel :
        /\ toDel' = toDel \ {n} /\ UNCHANGED toAdd
        /\ [b EXCEPT !.servers[n] = None] \in Backends
        /\ PoolSet(port, [b EXCEPT !.servers[n] = None])
  BY DeletePoolMemberStep
<1> DEFINE x == None
           c == [b EXCEPT !.servers[n] = x]
<1>3. tx'.body.pools[port] = c
  BY <1>1, <1>2 DEF PoolSet, Sent, TypeOK, Bodies
<1>4. PoolsServe(Ports \ (rest \cup {port}))'
  BY <1>1, <1>2, OthersServe DEF Configured, OnPool
<1>5. n \in Names /\ b.servers \in Servers /\ pmonitor = goal.monitor
  BY <1>1, <1>2 DEF TypeOK, LocalsOK, OnPool, Backends
<1>6. c.check = b.check /\ c.servers = [b.servers EXCEPT ![n] = x]
  BY <1>1, <1>5 DEF Backends
<1>7. \A k \in Names : k # n => c.servers[k] = b.servers[k]
  BY <1>5, <1>6 DEF Servers
<1>8. c.servers[n] = x
  BY <1>5, <1>6 DEF Servers
<1>9. x = None
  OBVIOUS
<1>10. Checked(b) /\ Covered(b.servers) /\ toDel = Unwanted(b.servers)
  BY <1>1 DEF Configured
<1>11. Checked(tx.body.pools[port])'
  <2>1. c # None
    BY <1>2, NoneIsNothing
  <2>2. c.check = goal.monitor
    BY <1>6, <1>10 DEF Checked
  <2>3. reply # 202 => \A k \in Names : c.servers[k] # None => c.servers[k].check = goal.monitor
    BY <1>7, <1>8, <1>9, <1>10 DEF Checked
  <2>4. QED BY <1>1, <1>3, <2>1, <2>2, <2>3 DEF Checked
<1>12. Covered(tx.body.pools[port].servers)'
  <2>1. n \in Unwanted(b.servers)
    BY <1>2, <1>10
  <2>2. ASSUME NEW m \in Names, want[m] # None
        PROVE  m \in toAdd \/ \E k \in Names : c.servers[k] # None /\ c.servers[k].host = want[m]
    <3>1. CASE m \in toAdd
      BY <3>1
    <3>2. CASE m \notin toAdd
      <4>1. PICK k \in Names : b.servers[k] # None /\ b.servers[k].host = want[m]
        BY <1>10, <2>2, <3>2 DEF Covered
      <4>2. k # n
        BY <2>1, <4>1 DEF Unwanted
      <4>3. QED BY <1>7, <4>1, <4>2
    <3>3. QED BY <3>1, <3>2
  <2>3. QED BY <1>1, <1>2, <1>3, <2>2 DEF Covered
<1>13. (toDel = Unwanted(tx.body.pools[port].servers))'
  <2>1. \A k \in Names : k \in Unwanted(b.servers) \ {n} <=>
                          c.servers[k] # None /\ \A m \in Names : want[m] # c.servers[k].host
    BY <1>7, <1>8 DEF Unwanted
  <2>2. QED BY <1>1, <1>2, <1>3, <1>10, <2>1 DEF Unwanted
<1>14. QED BY <1>1, <1>2, <1>4, <1>11, <1>12, <1>13 DEF Configured, CleanedUp, OnPool

(* Without VipChange no frontend differs, so HandleVIP never edits one.    *)
LEMMA HandleVIPProgress ==
  ASSUME TypeOK, LocalsOK, FrontsOurs, Configured, HandleVIP, ~Ended
  PROVE  Configured' /\ CleanedUp'
PROOF
<1>1. PICK p \in rest, f \in Frontends :
        /\ NextPort(p) /\ FrontSet(p, f)
        /\ tx.body.fronts[p] \in {None, Front(goal)} => f = Front(goal)
  BY HandleVIPStep
<1>2. /\ p \in Ports /\ pc = "vip" /\ pc' = "vip" /\ rest' = rest \ {p} /\ UNCHANGED <<want, goal>>
      /\ tx # None
  BY <1>1, HandleVIPStep DEF NextPort, task, TypeOK, FrontSet, Sent
<1>3. f = Front(goal)
  <2>1. Front(spec) = Front(goal)
    BY <1>2 DEF FrontsOurs, Front
  <2>2. tx.body.fronts[p] \in {None, Front(spec)}
    BY <1>2 DEF FrontsOurs, OurFronts
  <2>3. QED BY <1>1, <2>1, <2>2
<1>4. FrontsServe(Ports \ rest)'
  <2>1. tx.body.fronts \in [Ports -> Frontends \cup {None}]
    BY <1>2 DEF TypeOK, Bodies
  <2>2. \A q \in Ports \ rest' : tx'.body.fronts[q] = Front(goal)
    BY <1>1, <1>2, <1>3, <2>1 DEF Configured, FrontsServe, FrontSet
  <2>3. QED BY <1>2, <2>2 DEF FrontsServe, Front
<1>5. PoolsServe(Ports)'
  <2>1. tx'.body.pools = tx.body.pools
    BY <1>1 DEF FrontSet
  <2>2. ASSUME NEW q \in Ports PROVE PoolServes(tx.body.pools[q])'
    <3>1. PoolServes(tx.body.pools[q]) /\ tx'.body.pools[q] = tx.body.pools[q]
      BY <1>2, <2>1 DEF Configured, PoolsServe
    <3>2. QED
      BY <1>1, <1>2, <3>1 DEF PoolServes, Checked, ServerHosts, NodeHosts, FrontSet, Sent
  <2>3. QED BY <2>2 DEF PoolsServe
<1>6. QED BY <1>2, <1>4, <1>5 DEF Configured, CleanedUp, OnPool

LEMMA CleanupProgress ==
  ASSUME TypeOK, LocalsOK, CleanedUp,
         \/ (DeleteVIP \/ DeletePool) /\ ~Ended
         \/ CleanMembers
  PROVE  Configured' /\ CleanedUp'
PROOF
<1>1. CASE DeleteVIP /\ ~Ended
  <2>1. PICK p \in rest : NextPort(p) /\ FrontSet(p, None)
    BY <1>1, DeleteVIPStep
  <2>2. pc = "cvip" /\ pc' = "cvip" /\ rest' = rest \ {p}
    BY <1>1, <2>1, DeleteVIPStep DEF NextPort
  <2>3. tx.body.fronts \in [Ports -> Frontends \cup {None}]
    BY <2>1 DEF FrontSet, Sent, TypeOK, Bodies
  <2>4. NoFronts(Ports \ rest)'
    BY <2>1, <2>2, <2>3 DEF CleanedUp, NoFronts, FrontSet
  <2>5. QED BY <2>2, <2>4 DEF Configured, CleanedUp, OnPool
<1>2. CASE DeletePool /\ ~Ended
  <2>1. PICK p \in rest : NextPort(p) /\ PoolSet(p, None)
    BY <1>2, DeletePoolStep
  <2>2. pc = "cpool" /\ pc' = "cpool" /\ rest' = rest \ {p} /\ tx # None
    BY <1>2, <2>1, DeletePoolStep DEF NextPort, PoolSet, Sent
  <2>3. tx.body.pools \in [Ports -> Backends \cup {None}]
    BY <2>1 DEF PoolSet, Sent, TypeOK, Bodies
  <2>4. NoFronts(Ports)' /\ NoPools(Ports \ rest)'
    BY <2>1, <2>2, <2>3 DEF CleanedUp, NoFronts, NoPools, PoolSet
  <2>5. QED BY <2>2, <2>4 DEF Configured, CleanedUp, OnPool
<1>3. CASE CleanMembers
  <2>1. /\ pc = "cmember" /\ pc' = "cmember"
        /\ tx' # None => tx # None /\ tx'.body.fronts = tx.body.fronts
    BY <1>3, CleanMembersStep DEF NextPort
  <2>2. QED BY <2>1 DEF Configured, CleanedUp, NoFronts, OnPool
<1>4. QED BY <1>1, <1>2, <1>3

LEMMA MoveProgress ==
  ASSUME TypeOK, LocalsOK, Configured, CleanedUp,
         \/ EditMonitor \/ PoolsHandled \/ MembersAdded \/ PoolHandled \/ VIPsHandled
         \/ VIPsDeleted \/ MembersDeleted \/ DeleteMonitor
  PROVE  Configured' /\ CleanedUp'
PROOF
<1>1. UNCHANGED <<reply, tx, mode, want, goal, toAdd, toDel>>
  BY DEF EditMonitor, PoolsHandled, MembersAdded, PoolHandled, VIPsHandled, VIPsDeleted,
         MembersDeleted, DeleteMonitor, outside, calm, haproxy, task, pending
<1>2. \A p \in Ports : PoolServes(tx.body.pools[p]) => PoolServes(tx.body.pools[p])'
  BY <1>1 DEF PoolServes, Checked, ServerHosts, NodeHosts
<1>3. CASE EditMonitor
  BY <1>3 DEF EditMonitor, Configured, CleanedUp, PoolsServe, OnPool
<1>4. CASE PoolsHandled
  BY <1>2, <1>4 DEF PoolsHandled, Configured, CleanedUp, PoolsServe, FrontsServe, OnPool
<1>5. CASE MembersAdded
  <2>1. UNCHANGED <<rest, port>> /\ pc = "add" /\ pc' = "del" /\ toAdd' = {}
    BY <1>1, <1>5 DEF MembersAdded
  <2>2. PoolsServe(Ports \ (rest \cup {port}))'
    BY <1>2, <2>1 DEF Configured, PoolsServe, OnPool
  <2>3. Checked(tx.body.pools[port])'
    BY <1>1, <2>1 DEF Configured, Checked
  <2>4. /\ Covered(tx.body.pools[port].servers)'
        /\ (toDel = Unwanted(tx.body.pools[port].servers))'
    BY <1>1, <2>1 DEF Configured, Covered, Unwanted
  <2>5. QED BY <2>1, <2>2, <2>3, <2>4 DEF Configured, CleanedUp, OnPool
<1>6. CASE PoolHandled
  <2>1. rest' = rest /\ pc = "del" /\ pc' = "pool" /\ toDel = {}
    BY <1>6 DEF PoolHandled
  <2>2. port \in Ports /\ tx.body.pools[port] \in Backends
    BY <2>1 DEF LocalsOK, OnPool, Configuring, TypeOK, Bodies
  <2>3. PoolServes(tx.body.pools[port])
    BY <2>1, <2>2, PoolBuilt DEF Configured
  <2>4. PoolsServe(Ports \ rest)
    BY <2>1, <2>3 DEF Configured, PoolsServe, OnPool
  <2>5. QED BY <1>2, <2>1, <2>4 DEF Configured, CleanedUp, PoolsServe, OnPool
<1>7. CASE VIPsHandled
  <2>1. pc = "vip" /\ pc' = "commit" /\ rest = {} /\ mode = "configure"
    BY <1>7 DEF VIPsHandled, LocalsOK, Configuring
  <2>2. PoolsServe(Ports) /\ FrontsServe(Ports)
    BY <2>1 DEF Configured
  <2>3. QED
    BY <1>1, <1>2, <2>1, <2>2 DEF Configured, CleanedUp, PoolsServe, FrontsServe, Front, OnPool
<1>8. CASE VIPsDeleted \/ MembersDeleted
  BY <1>1, <1>8
  DEF VIPsDeleted, MembersDeleted, Configured, CleanedUp, NoFronts, NoPools, OnPool
<1>9. CASE DeleteMonitor
  <2>1. pc = "cpool" /\ pc' = "commit" /\ rest = {} /\ mode = "cleanup"
    BY <1>9 DEF DeleteMonitor, LocalsOK, Cleaning
  <2>2. QED BY <1>1, <2>1 DEF Configured, CleanedUp, NoFronts, NoPools, OnPool
<1>10. QED BY <1>3, <1>4, <1>5, <1>6, <1>7, <1>8, <1>9

LEMMA FrameProgress ==
  ASSUME Configured, CleanedUp, UNCHANGED <<reply, tx, pass>>
  PROVE  Configured' /\ CleanedUp'
PROOF
<1>1. UNCHANGED <<reply, tx, pc, mode, want, goal, rest, port, toAdd, toDel>>
  BY DEF pass
<1>2. Configured'
  <2>1. \A p : PoolServes(tx.body.pools[p]) => PoolServes(tx.body.pools[p])'
    BY <1>1 DEF PoolServes, Checked, ServerHosts, NodeHosts
  <2>2. Checked(tx.body.pools[port]) => Checked(tx.body.pools[port])'
    BY <1>1 DEF Checked
  <2>3. /\ Covered(tx.body.pools[port].servers) => Covered(tx.body.pools[port].servers)'
        /\ Unwanted(tx.body.pools[port].servers)' = Unwanted(tx.body.pools[port].servers)
    BY <1>1 DEF Covered, Unwanted
  <2>4. QED
    BY <1>1, <2>1, <2>2, <2>3 DEF Configured, OnPool, PoolsServe, FrontsServe, Front
<1>3. CleanedUp'
  BY <1>1 DEF CleanedUp, NoFronts, NoPools
<1>4. QED BY <1>2, <1>3

LEMMA ProgressStep ==
  ASSUME TypeOK, LocalsOK, FrontsOurs, Configured, CleanedUp, [Next]_vars
  PROVE  Configured' /\ CleanedUp'
PROOF
<1>1. CASE Environment
  <2>1. CASE Crash
    BY <2>1, NoProgress DEF Crash, EndPass
  <2>2. CASE ~Crash
    <3>1. UNCHANGED <<reply, tx, pass>>
      BY <1>1, <2>2 DEF Environment, ChangeSpec, ChangeNode, Delete, EnvOp, OtherCommit, haproxy
    <3>2. QED BY <3>1, FrameProgress
  <2>3. QED BY <2>1, <2>2
<1>2. CASE Ended
  BY <1>2, NoProgress DEF Ended, Abort, EndPass
<1>3. CASE StartPass \/ ConnectSites
  BY <1>3, NoProgress DEF StartPass, ConnectSites, EndPass
<1>4. CASE ConnectStart
  <2>1. \/ pc' = "idle"
        \/ pc' \in {"monitor", "cvip"} /\ rest' = Ports
    BY <1>4 DEF ConnectStart, Abort, EndPass
  <2>2. CASE pc' = "idle"
    BY <2>2, NoProgress
  <2>3. CASE pc' \in {"monitor", "cvip"} /\ rest' = Ports
    BY <2>3 DEF Configured, CleanedUp, NoFronts, OnPool
  <2>4. QED BY <2>1, <2>2, <2>3
<1>5. CASE Close /\ ~Ended
  BY <1>5, CloseStep, NoProgress DEF EndPass
<1>6. CASE WriteStatus \/ RemoveFinalizer
  BY <1>6, NoProgress DEF WriteStatus, RemoveFinalizer, EndPass
<1>7. CASE UNCHANGED vars
  BY <1>7, FrameProgress DEF vars, haproxy
<1>8. QED
  BY <1>1, <1>2, <1>3, <1>4, <1>5, <1>6, <1>7, MoveProgress, GetPoolProgress,
     CreatePoolProgress, EditPoolProgress, CreatePoolMemberProgress, DeletePoolMemberProgress,
     HandleVIPProgress, CleanupProgress
  DEF Next, Work

(* What Close commits.                                                     *)
LEMMA CommitsAll ==
  ASSUME TypeOK, LocalsOK, Configured, CleanedUp, [Next]_vars, body' # body
  PROVE  IF mode = "configure" THEN Serves(body', goal, want) ELSE body' = EmptyBody
PROOF
<1>1. Close /\ ~Ended
  <2>1. ~Ended
    BY DEF Ended, calm, haproxy
  <2>2. ~CleanMembers
    BY CleanMembersStep DEF calm, haproxy
  <2>3. \/ Environment \/ UNCHANGED vars \/ StartPass \/ ConnectSites \/ ConnectStart
        \/ EditMonitor \/ GetPool \/ PoolsHandled \/ CreatePool \/ EditPool
        \/ CreatePoolMember \/ MembersAdded \/ DeletePoolMember \/ PoolHandled
        \/ HandleVIP \/ VIPsHandled \/ Close \/ WriteStatus
        \/ DeleteVIP \/ VIPsDeleted \/ MembersDeleted
        \/ DeletePool \/ DeleteMonitor \/ RemoveFinalizer
    BY <2>2 DEF Next, Work
  <2>4. Close
    BY <2>3
    DEF Environment, ChangeSpec, ChangeNode, Delete, EnvOp, OtherCommit, Crash, vars, StartPass,
        ConnectSites, ConnectStart, EditMonitor, GetPool, PoolsHandled, CreatePool, EditPool,
        CreatePoolMember, MembersAdded, DeletePoolMember, PoolHandled, HandleVIP, VIPsHandled,
        WriteStatus, DeleteVIP, VIPsDeleted, MembersDeleted, DeletePool, DeleteMonitor,
        RemoveFinalizer, outside, calm, haproxy
  <2>5. QED BY <2>1, <2>4
<1>2. pc = "commit" /\ tx # None /\ body' = tx.body
  BY <1>1, CloseStep
<1>3. CASE mode = "configure"
  <2>1. PoolsServe(Ports) /\ FrontsServe(Ports)
    BY <1>2, <1>3 DEF Configured
  <2>2. QED
    BY <1>2, <1>3, <2>1 DEF PoolsServe, FrontsServe, PoolServes, Checked, Front, Serves
<1>4. CASE mode # "configure"
  <2>1. NoFronts(Ports) /\ NoPools(Ports) /\ tx.body \in Bodies
    BY <1>2, <1>4 DEF CleanedUp, TypeOK
  <2>2. tx.body = EmptyBody
    BY <2>1 DEF NoFronts, NoPools, EmptyBody, Bodies
  <2>3. QED BY <1>2, <1>4, <2>2
<1>5. QED BY <1>3, <1>4

(* While the virtual address stays (EditVIP cannot change it), for any     *)
(* ports and nodes, faults, restarts and commits by others, HAProxy never  *)
(* runs with part of a pass: each commit of the operator puts in place the *)
(* whole configuration the pass read (but, on a HAProxy that answers       *)
(* ReplaceBackend with 202, not the check parameters of servers it already *)
(* had), or removes all of it.                                             *)
THEOREM CommitsAllOrNothing == VipChange = FALSE => (Spec => AllOrNothing)
PROOF
<1> SUFFICES ASSUME VipChange = FALSE PROVE Spec => AllOrNothing
  OBVIOUS
<1>1. Init => FrontsOurs /\ Configured /\ CleanedUp
  <2>1. Init => FrontsOurs
    BY DEF Init, FrontsOurs, OurFronts, EmptyBody
  <2>2. Init => Configured /\ CleanedUp
    BY DEF Init, Configured, CleanedUp, OnPool
  <2>3. QED BY <2>1, <2>2
<1>2. /\ TypeOK /\ LocalsOK /\ FrontsOurs /\ Configured /\ CleanedUp /\ [Next]_vars
      => FrontsOurs' /\ Configured' /\ CleanedUp'
  BY FrontsStep, ProgressStep
<1>3. TypeOK /\ LocalsOK /\ Configured /\ CleanedUp /\ [Next]_vars
      => [body' # body => IF mode = "configure" THEN Serves(body', goal, want)
                                                ELSE body' = EmptyBody]_vars
  BY CommitsAll
<1>4. QED BY <1>1, <1>2, <1>3, HAProxyTypeCorrect, PTL DEF Spec, AllOrNothing
=============================================================================
