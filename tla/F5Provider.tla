----------------------------- MODULE F5Provider -----------------------------
(***************************************************************************)
(* f5_controller.go: the Provider for an F5 BIG-IP, one action per iControl *)
(* REST request, in the default partition.  Reads return their errors.  The *)
(* answers are cleaned with strings.Trim, whose second argument is a set of *)
(* characters: Pool.Monitor loses a tail made of the partition's letters.  *)
(***************************************************************************)
EXTENDS ProviderPass

CONSTANTS NameClipped   \* the load balancer's name ends in such a letter

ASSUME NameClippedAssumption == NameClipped \in BOOLEAN

VARIABLES f5   \* the configuration of the BIG-IP

Types == {m.type : m \in Monitors}

EmptyF5 ==
  [mons |-> [t \in Types |-> None],        \* monitors Monitor-<lb>, by type
   pools |-> {},                           \* pools Pool-<lb>-p
   monitored |-> {},                       \* those with the monitor
   method |-> [p \in Ports |-> None],      \* their balancing method, if set
   members |-> [p \in Ports |-> {}],
   nodes |-> {},                           \* nodes, shared by all pools
   virtuals |-> [p \in Ports |-> None]]    \* destinations of VIP-<lb>-p

F5TypeOK ==
  /\ f5.mons \in [Types -> Monitors \cup {None}]
  /\ {f5.pools, f5.monitored} \subseteq SUBSET Ports
  /\ f5.method \in [Ports -> Methods \cup {None}]
  /\ f5.members \in [Ports -> SUBSET Hosts]
  /\ f5.nodes \subseteq Hosts
  /\ f5.virtuals \in [Ports -> IPs \cup {None}]

F5Init == f5 = EmptyF5

----------------------------------------------------------------------------
Send(request, new, next) ==
  \/ f5' = new /\ next /\ UNCHANGED faults
  \/ f5' \in {f5, new} /\ Breaks(request) /\ Fail

OnPort == Head(todo).port
Member == Head(todo).host

(* The monitor is looked for under the type the spec has now.              *)
F5GetMonitor ==
  /\ Running("GetMonitor")
  /\ Read("GetMonitor", GotMonitor(Parsed(f5.mons[op.monitor.type])))
  /\ UNCHANGED f5

F5CreateMonitor ==
  /\ Running("CreateMonitor")
  /\ Send("AddMonitor", [f5 EXCEPT !.mons[op.monitor.type] = op.monitor], Return(<<>>))

(* The port is not sent.                                                   *)
F5EditMonitor ==
  /\ Running("EditMonitor")
  /\ Send("PatchMonitor", [f5 EXCEPT !.mons[op.monitor.type].path = op.monitor.path],
          Return(<<>>))

F5DeleteMonitor ==
  /\ Running("DeleteMonitor")
  /\ Send("DeleteMonitor", [f5 EXCEPT !.mons[op.status.monitor.type] = None], Return(<<>>))

----------------------------------------------------------------------------
F5GetPool ==
  /\ Running("GetPool")
  /\ Read("GetPool", IF OnPort \in f5.pools
                       THEN GotPool(OnPort \in f5.monitored /\ ~NameClipped)
                       ELSE NoPool)
  /\ UNCHANGED f5

(* The pool, its monitor, its balancing method: three requests.            *)
F5CreatePool ==
  /\ Running("CreatePool")
  /\ \/ /\ at = 0
        /\ Send("CreatePool", [f5 EXCEPT !.pools = @ \cup {OnPort}], Proceed)
     \/ /\ at = 1
        /\ Send("AddMonitorToPool", [f5 EXCEPT !.monitored = @ \cup {OnPort}], Proceed)
     \/ /\ at = 2
        /\ Send("SetMethod", [f5 EXCEPT !.method[OnPort] = goal.method], Return(<<>>))

F5EditPool ==
  /\ Running("EditPool")
  /\ Send("ModifyPool", [f5 EXCEPT !.monitored = @ \cup {OnPort},
                                   !.method[OnPort] = goal.method], Return(<<>>))

F5DeletePool ==
  /\ Running("DeletePool")
  /\ Send("DeletePool", [f5 EXCEPT !.pools = @ \ {OnPort}, !.monitored = @ \ {OnPort},
                                   !.method[OnPort] = None, !.members[OnPort] = {}],
          Return(<<>>))

F5GetPoolMembers ==
  /\ Running("GetPoolMembers")
  /\ Read("PoolMembers", GotMembers(f5.members[OnPort]))
  /\ UNCHANGED f5

(* Mutant: the failure to create the node is taken for the member's success. *)
F5CreatePoolMember_Swallowed ==
  /\ Running("CreatePoolMember")
  /\ \/ /\ at = 0
        /\ Read("GetNode", Proceed)
        /\ UNCHANGED f5
     \/ /\ at = 1
        /\ \/ Send("PutNode", [f5 EXCEPT !.nodes = @ \cup {Member}], Proceed)
           \/ Breaks("PutNode") /\ Return(<<>>) /\ UNCHANGED f5
     \/ /\ at = 2
        /\ Send("AddPoolMember", [f5 EXCEPT !.members[OnPort] = @ \cup {Member}],
                Return(<<>>))

(* Look the node up; modify or create it; add the member.  ModifyNode sends *)
(* the node's own address and is taken to leave the node as it is.         *)
F5CreatePoolMember ==
  /\ Running("CreatePoolMember")
  /\ \/ /\ at = 0
        /\ Read("GetNode", Proceed)
        /\ UNCHANGED f5
     \/ /\ at = 1
        /\ Send("PutNode", [f5 EXCEPT !.nodes = @ \cup {Member}], Proceed)
     \/ /\ at = 2
        /\ Send("AddPoolMember", [f5 EXCEPT !.members[OnPort] = @ \cup {Member}],
                Return(<<>>))

(* The node stays: another load balancer may use it.                       *)
F5DeletePoolMember ==
  /\ Running("DeletePoolMember")
  /\ Send("DeletePoolMember", [f5 EXCEPT !.members[OnPort] = @ \ {Member}], Return(<<>>))

----------------------------------------------------------------------------
F5GetVIP ==
  /\ Running("GetVIP")
  /\ Read("GetVirtualServer", GotVIP(f5.virtuals[OnPort]))
  /\ UNCHANGED f5

(* CreateVIP and EditVIP send the same virtual server.                     *)
F5SetVIP ==
  /\ \E m \in {"CreateVIP", "EditVIP"} : Running(m)
  /\ Send("PutVirtualServer", [f5 EXCEPT !.virtuals[OnPort] = op.ip], Return(<<>>))

F5DeleteVIP ==
  /\ Running("DeleteVIP")
  /\ Send("DeleteVirtualServer", [f5 EXCEPT !.virtuals[OnPort] = None], Return(<<>>))

F5Method ==
  /\ \/ F5GetMonitor \/ F5CreateMonitor \/ F5EditMonitor \/ F5DeleteMonitor
     \/ F5GetPool \/ F5CreatePool \/ F5EditPool \/ F5DeletePool
     \/ F5GetPoolMembers \/ F5CreatePoolMember \/ F5DeletePoolMember
     \/ F5GetVIP \/ F5SetVIP \/ F5DeleteVIP
  /\ UNCHANGED <<outside, pass>>

(* Close does nothing.                                                     *)
F5Close == Closing /\ Closed /\ UNCHANGED <<f5, object, status, envOps, crashes>>

F5Next == F5Method \/ F5Close

----------------------------------------------------------------------------
(* The BIG-IP as the Provider interface describes a device.                *)
TypesInUse == {t \in Types : f5.mons[t] # None}

F5Device == INSTANCE BackendContract WITH
  StrictDelete <- FALSE,
  monitor <- IF TypesInUse = {} THEN None ELSE f5.mons[CHOOSE t \in TypesInUse : TRUE],
  pools <- f5.pools,
  bound <- f5.monitored,
  members <- f5.members,
  vips <- f5.virtuals,
  arg <- CallOn("F5_BigIP"),
  result <- ResultOn("F5_BigIP")

(* The BIG-IP carries what s and ns ask for.                               *)
F5Serves(s, ns) ==
  /\ f5.mons = [t \in Types |-> IF t = s.monitor.type THEN s.monitor ELSE None]
  /\ f5.pools = Ports /\ f5.monitored = Ports
  /\ \A p \in Ports : f5.members[p] = ns /\ f5.virtuals[p] = s.ip

(* Nothing but nodes is left of the load balancer.                         *)
F5Empty == f5 = [EmptyF5 EXCEPT !.nodes = f5.nodes]
=============================================================================
