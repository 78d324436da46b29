---------------------------- MODULE ProviderPass ----------------------------
(***************************************************************************)
(* The passes of Reconcile for one load balancer as a client of a Provider *)
(* (backend_controller.go): which methods the Handle operations call, in   *)
(* which order, and what they do with the answers.  The providers' modules *)
(* extend this one; there, a method is one or more requests to the device, *)
(* any of which may fail or be cut off by a restart.                       *)
(*                                                                         *)
(* todo holds the method calls that the current Handle operation still has *)
(* to make: the answer of a read puts the calls it leads to in front.      *)
(***************************************************************************)
EXTENDS Integers, Sequences, FiniteSets, SequencesExt

CONSTANTS
  Ports, Hosts, IPs, Monitors, Methods,
  None,
  PortList,      \* Spec.Ports: the ports in the order they are handled
  Specs,         \* the specs users write
  Clipped,       \* addresses and paths a provider's strings.Trim cuts too short
  Fallible,      \* the requests that may fail
  CrashInside,   \* vendors for which the operator may die inside a method
  MaxFaults, MaxEnvOps, MaxCrashes

ASSUME PassConstants ==
  /\ PortList \in Seq(Ports) /\ Ports = {PortList[i] : i \in DOMAIN PortList}
  /\ IsFiniteSet(Hosts)
  /\ Specs \subseteq [ip : IPs, monitor : Monitors, method : Methods]
  /\ {MaxFaults, MaxEnvOps, MaxCrashes} \subseteq Nat
  /\ None \notin IPs \cup Monitors \cup Specs

(* A monitor is any combination of its three fields.                       *)
ASSUME MonitorFields ==
  /\ Monitors = [type : {m.type : m \in Monitors}, path : {m.path : m \in Monitors},
                 port : {m.port : m \in Monitors}]
  /\ \A m \in Monitors : m.path # None /\ m.type # "HTTP"

VARIABLES
  vendor,            \* Spec.Provider.Vendor, which selects the provider
  spec, nodes,       \* the object's spec and the ready nodes
  deleting, gone,    \* the object is being deleted; it is gone
  status,            \* spec and nodes the status was last written for
  queued,            \* a request is in the work queue
  pc,                \* the part of Reconcile that runs
  goal, want,        \* the spec and the nodes this pass works for
  ops,               \* Handle operations still to be called
  op,                \* the one under way, or None
  todo,              \* its calls of provider methods
  at,                \* requests the current method has made
  failed,            \* the operation has returned an error
  faults, envOps, crashes

object == <<vendor, spec, nodes, deleting, gone>>
frame == <<todo, at, failed, faults>>
pass == <<pc, goal, want, ops, op>>
outside == <<object, status, queued, envOps, crashes>>
client == <<outside, pass, frame>>

Call(m, p, h) == [m |-> m, port |-> p, host |-> h, bound |-> FALSE]

(* GetPoolMembers is given the pool GetPool returned, with its monitor.    *)
MembersCall(p, b) == [Call("GetPoolMembers", p, None) EXCEPT !.bound = b]

(* One call for each host of S, in one of the orders of the code, where it *)
(* is that of the informer's list of nodes and may change with every pass. *)
(* The calls for different hosts are alike and independent of one another; *)
(* WriteStatus has what else the order decides.                            *)
MemberCalls(m, p, S) ==
  LET hs == SetToSeq(S) IN [i \in DOMAIN hs |-> Call(m, p, hs[i])]

(* The calls of Handle operations: their arguments come from the spec.     *)
SpecMonitors == {s.monitor : s \in Specs}

Operations ==
  [op : {"monitor"}, monitor : SpecMonitors]
    \cup [op : {"pool"}, port : Ports, want : SUBSET Hosts]
    \cup [op : {"vip"}, port : Ports, ip : IPs]
    \cup [op : {"cleanup"},
          status : [monitor : SpecMonitors, handled : {PortList}, members : SUBSET Hosts]]

ASSUME NoneIsNothing == None \notin Operations

(* The Handle operations of a configuring pass.                            *)
ConfigureOps(s, ns) ==
  <<[op |-> "monitor", monitor |-> s.monitor]>>
    \o [i \in DOMAIN PortList |-> [op |-> "pool", port |-> PortList[i], want |-> ns]]
    \o [i \in DOMAIN PortList |-> [op |-> "vip", port |-> PortList[i], ip |-> s.ip]]

(* HandleCleanup's calls: VIPs, members and pools of the status, then the  *)
(* monitor.                                                                *)
CleanupCalls ==
  LET OnPorts(m) == [i \in DOMAIN PortList |-> Call(m, PortList[i], None)]
      members == [i \in DOMAIN PortList |->
                    MemberCalls("DeletePoolMember", PortList[i], want)] IN
  OnPorts("DeleteVIP") \o FlattenSeq(members) \o OnPorts("DeletePool")
    \o <<Call("DeleteMonitor", None, None)>>

(* The read each Handle operation starts with.                             *)
FirstCalls(o) ==
  CASE o.op = "monitor" -> <<Call("GetMonitor", None, None)>>
    [] o.op = "pool" -> <<Call("GetPool", o.port, None)>>
    [] o.op = "vip" -> <<Call("GetVIP", o.port, None)>>
    [] o.op = "cleanup" -> CleanupCalls

----------------------------------------------------------------------------
(* What the Handle operations do with an answer.                           *)

Running(m) == op # None /\ ~failed /\ todo # <<>> /\ Head(todo).m = m

(* The method returned nil; calls come next.                               *)
Return(calls) == todo' = calls \o Tail(todo) /\ at' = 0 /\ UNCHANGED failed

(* The method returned an error, and so does the operation; only the error *)
(* of a member's deletion is ignored by HandleCleanup.                     *)
Fail ==
  /\ at' = 0
  /\ IF op.op = "cleanup" /\ Head(todo).m = "DeletePoolMember"
       THEN todo' = Tail(todo) /\ UNCHANGED failed
       ELSE todo' = <<>> /\ failed' = TRUE

(* The method goes on with its next request.                               *)
Proceed == at' = at + 1 /\ UNCHANGED <<todo, failed>>

(* A request may fail for an outside reason.                               *)
Breaks(request) ==
  /\ request \in Fallible
  /\ faults < MaxFaults
  /\ faults' = faults + 1

(* A read request whose error the method returns.                          *)
Read(request, next) ==
  \/ next /\ UNCHANGED faults
  \/ Breaks(request) /\ Fail

(* A monitor as F5 and Netscaler read it back: strings.TrimLeft with the   *)
(* cutset "GET " also eats the beginning of some paths.                    *)
Parsed(m) == IF m # None /\ m.path \in Clipped THEN [m EXCEPT !.path = None] ELSE m

(* HandleMonitors after GetMonitor: None stands for nil.                   *)
GotMonitor(found) ==
  Return(CASE found = None -> <<Call("CreateMonitor", None, None)>>
           [] found # None /\ found # op.monitor -> <<Call("EditMonitor", None, None)>>
           [] OTHER -> <<>>)

(* HandlePool after GetPool found no pool, or one that has the monitor or  *)
(* not (as the provider reads its name).                                   *)
NoPool ==
  LET p == op.port IN
  Return(<<Call("CreatePool", p, None)>> \o MemberCalls("CreatePoolMember", p, op.want))

GotPool(bound) == Return(<<MembersCall(op.port, bound)>>)

(* HandlePool after GetPoolMembers.                                        *)
GotMembers(S) ==
  LET p == op.port IN
  Return((IF Head(todo).bound THEN <<>> ELSE <<Call("EditPool", p, None)>>)
           \o MemberCalls("CreatePoolMember", p, op.want \ S)
           \o MemberCalls("DeletePoolMember", p, S \ op.want))

(* HandleVIP after GetVIP; every provider answers with the pool and port   *)
(* it was asked for.                                                       *)
GotVIP(found) ==
  Return(CASE found = None -> <<Call("CreateVIP", op.port, None)>>
           [] found # None /\ found # op.ip -> <<Call("EditVIP", op.port, None)>>
           [] OTHER -> <<>>)

----------------------------------------------------------------------------
(* Reconcile around the Handle operations.                                 *)

EndPass ==
  /\ pc' = "idle" /\ goal' = None /\ want' = {}
  /\ ops' = <<>> /\ op' = None /\ todo' = <<>> /\ at' = 0 /\ failed' = FALSE

Requeue == EndPass /\ queued' = TRUE

StartPass ==
  /\ pc = "idle" /\ queued /\ ~gone
  /\ pc' = "configure"
  /\ goal' = spec /\ want' = nodes
  /\ ops' = ConfigureOps(spec, nodes)
  /\ queued' = FALSE
  /\ UNCHANGED <<op, frame, object, status, envOps, crashes>>

BeginOp ==
  /\ op = None /\ ops # <<>>
  /\ op' = Head(ops) /\ ops' = Tail(ops)
  /\ todo' = FirstCalls(Head(ops))
  /\ UNCHANGED <<pc, goal, want, at, failed, faults, outside>>

(* Mutant: the error of an operation is logged and dropped. *)
EndOp_Dropped ==
  /\ op # None /\ todo = <<>>
  /\ op' = None /\ failed' = FALSE
  /\ pc' = IF ops # <<>> THEN pc ELSE IF pc = "configure" THEN "close" ELSE "closeCleanup"
  /\ UNCHANGED <<goal, want, ops, todo, at, faults, outside>>

EndOp ==
  /\ op # None /\ todo = <<>>
  /\ IF failed
       THEN Requeue
       ELSE /\ op' = None
            /\ pc' = IF ops # <<>> THEN pc
                     ELSE IF pc = "configure" THEN "close" ELSE "closeCleanup"
            /\ UNCHANGED <<goal, want, ops, todo, at, failed, queued>>
  /\ UNCHANGED <<object, status, envOps, crashes, faults>>

(* Close of the provider: it returns nil, or an error that ends the pass.  *)
Closing == pc \in {"close", "closeCleanup"}

Closed ==
  /\ pc' = IF pc = "close" THEN "status" ELSE "rmFinalizer"
  /\ UNCHANGED <<goal, want, ops, op, todo, at, failed, queued, faults>>

CloseFails(request) == Breaks(request) /\ Requeue

(* The status is written, which raises an event if it changed; then the    *)
(* deletion timestamp is looked at.  Nodes and members are lists in the    *)
(* order the informer listed the nodes in: with two or more of them the    *)
(* same content can be another status than the one last written.           *)
WriteStatus ==
  /\ pc = "status"
  /\ status' = <<goal, want>>
  /\ IF deleting
       THEN /\ pc' = "cleanup"
            /\ ops' = <<[op |-> "cleanup",
                         status |-> [monitor |-> goal.monitor, handled |-> PortList,
                                     members |-> want]]>>
            /\ UNCHANGED <<goal, want, op, todo, at, failed>>
       ELSE EndPass
  /\ \E reordered \in BOOLEAN :
       /\ reordered => Cardinality(want) > 1
       /\ queued' = (queued \/ status # <<goal, want>> \/ reordered)
  /\ UNCHANGED <<object, faults, envOps, crashes>>

RemoveFinalizer ==
  /\ pc = "rmFinalizer"
  /\ gone' = TRUE
  /\ EndPass
  /\ UNCHANGED <<vendor, spec, nodes, deleting, status, queued, faults, envOps, crashes>>

Reconcile == StartPass \/ BeginOp \/ EndOp \/ WriteStatus \/ RemoveFinalizer

----------------------------------------------------------------------------
(* Users and nodes, and restarts of the operator.                          *)

EnvOp ==
  /\ envOps < MaxEnvOps /\ ~gone
  /\ envOps' = envOps + 1
  /\ queued' = TRUE
  /\ UNCHANGED <<vendor, gone, status, pass, frame, crashes>>

ChangeSpec ==
  /\ \E s \in Specs \ {spec} : spec' = s
  /\ EnvOp
  /\ UNCHANGED <<nodes, deleting>>

(* A node becomes ready or ceases to be.                                   *)
ChangeNodes ==
  /\ \E h \in Hosts : nodes' = IF h \in nodes THEN nodes \ {h} ELSE nodes \cup {h}
  /\ EnvOp
  /\ UNCHANGED <<spec, deleting>>

Delete ==
  /\ ~deleting
  /\ deleting' = TRUE
  /\ EnvOp
  /\ UNCHANGED <<spec, nodes>>

Crash ==
  /\ crashes < MaxCrashes
  /\ at > 0 => vendor \in CrashInside
  /\ crashes' = crashes + 1
  /\ EndPass
  /\ queued' = ~gone
  /\ UNCHANGED <<object, status, faults, envOps>>

Environment == ChangeSpec \/ ChangeNodes \/ Delete \/ Crash

----------------------------------------------------------------------------
ClientInit(Vendors) ==
  /\ vendor \in Vendors
  /\ spec \in Specs /\ nodes \in SUBSET Hosts
  /\ deleting = FALSE /\ gone = FALSE /\ status = None /\ queued = TRUE
  /\ pc = "idle" /\ goal = None /\ want = {} /\ ops = <<>> /\ op = None
  /\ todo = <<>> /\ at = 0 /\ failed = FALSE
  /\ faults = 0 /\ envOps = 0 /\ crashes = 0

Calls ==
  [m : {"GetMonitor", "CreateMonitor", "EditMonitor", "DeleteMonitor", "GetPool",
        "CreatePool", "EditPool", "DeletePool", "GetPoolMembers", "CreatePoolMember",
        "DeletePoolMember", "GetVIP", "CreateVIP", "EditVIP", "DeleteVIP"},
   port : Ports \cup {None}, host : Hosts \cup {None}, bound : BOOLEAN]

ClientTypeOK ==
  /\ spec \in Specs /\ nodes \in SUBSET Hosts
  /\ {deleting, gone, queued, failed} \subseteq BOOLEAN
  /\ status \in (Specs \X SUBSET Hosts) \cup {None}
  /\ pc \in {"idle", "configure", "close", "status", "cleanup", "closeCleanup",
             "rmFinalizer"}
  /\ goal \in Specs \cup {None} /\ want \in SUBSET Hosts
  /\ ops \in Seq(Operations) /\ op \in Operations \cup {None}
  /\ todo \in Seq(Calls) /\ at \in 0..2
  /\ faults \in 0..MaxFaults /\ envOps \in 0..MaxEnvOps /\ crashes \in 0..MaxCrashes

(* The operation under way on a vendor's device, and what it has returned. *)
CallOn(v) == IF vendor = v THEN op ELSE None

ResultOn(v) ==
  CASE CallOn(v) # None /\ failed -> "err"
    [] CallOn(v) # None /\ ~failed /\ todo = <<>> -> "ok"
    [] OTHER -> "none"

AtRest == pc = "idle" /\ (queued => gone)
=============================================================================
