------------------------------ MODULE Provider ------------------------------
(***************************************************************************)
(* The load-balancer device as one ExternalLoadBalancer sees it, and the   *)
(* promise the Provider interface of                                       *)
(* internal/controller/backend/backend_controller/backend_controller.go    *)
(* makes about it: every method is one request that changes exactly the    *)
(* object it names.                                                        *)
(*                                                                         *)
(* The names the reconciler gives device objects are "Monitor-<lb>",       *)
(* "Pool-<lb>-<port>" and "VIP-<lb>-<port>", so for one load balancer there *)
(* is one monitor, and pools and virtual servers are keyed by the port.    *)
(* A pool member is told apart by host and port (ContainsMember), hence by *)
(* its host inside the pool of a port.                                     *)
(***************************************************************************)
EXTENDS Integers, Sequences, FiniteSets

CONSTANTS
  Ports,         \* the ports a load balancer may expose
  Hosts,         \* the addresses of cluster nodes
  IPs,           \* the addresses a virtual server may have
  Monitors,      \* the parameters of a monitor: path, port and type
  None,          \* no monitor, no virtual server, no object
  StrictDelete   \* the device refuses to delete what is missing or in use

ASSUME ProviderConstants ==
  /\ None \notin IPs
  /\ None \notin Monitors
  /\ StrictDelete \in BOOLEAN

VARIABLES
  monitor,   \* parameters of Monitor-<lb>, or None
  pools,     \* the ports p for which Pool-<lb>-p exists
  bound,     \* the pools that carry the monitor (Pool.Monitor = its name)
  members,   \* members[p]: hosts in Pool-<lb>-p
  vips       \* vips[p]: address of VIP-<lb>-p, or None

device == <<monitor, pools, bound, members, vips>>

DeviceTypeOK ==
  /\ monitor \in Monitors \cup {None}
  /\ pools \in SUBSET Ports
  /\ bound \in SUBSET Ports
  /\ members \in [Ports -> SUBSET Hosts]
  /\ vips \in [Ports -> IPs \cup {None}]

DeviceInit ==
  /\ monitor = None
  /\ pools = {}
  /\ bound = {}
  /\ members = [p \in Ports |-> {}]
  /\ vips = [p \in Ports |-> None]

----------------------------------------------------------------------------
(* The write methods of the interface: the effect of each request.         *)

CreateMonitor(m) ==
  /\ monitor' = m
  /\ UNCHANGED <<pools, bound, members, vips>>

EditMonitor(m) ==
  /\ monitor' = m
  /\ UNCHANGED <<pools, bound, members, vips>>

DeleteMonitor ==
  /\ monitor' = None
  /\ UNCHANGED <<pools, bound, members, vips>>

(* Creating a pool is two requests: the pool, then its monitor.            *)
CreatePool(p) ==
  /\ pools' = pools \cup {p}
  /\ UNCHANGED <<monitor, bound, members, vips>>

BindMonitor(p) ==
  /\ bound' = bound \cup {p}
  /\ UNCHANGED <<monitor, pools, members, vips>>

EditPool(p) == BindMonitor(p)

DeletePool(p) ==
  /\ pools' = pools \ {p}
  /\ bound' = bound \ {p}
  /\ members' = [members EXCEPT ![p] = {}]
  /\ UNCHANGED <<monitor, vips>>

(* Mutant: the port is stored in place of the host. *)
CreatePoolMember_Swapped(h, p) ==
  /\ members' = [members EXCEPT ![p] = @ \cup {p}]
  /\ UNCHANGED <<monitor, pools, bound, vips>>

CreatePoolMember(h, p) ==
  /\ members' = [members EXCEPT ![p] = @ \cup {h}]
  /\ UNCHANGED <<monitor, pools, bound, vips>>

DeletePoolMember(h, p) ==
  /\ members' = [members EXCEPT ![p] = @ \ {h}]
  /\ UNCHANGED <<monitor, pools, bound, vips>>

CreateVIP(p, ip) ==
  /\ vips' = [vips EXCEPT ![p] = ip]
  /\ UNCHANGED <<monitor, pools, bound, members>>

EditVIP(p, ip) == CreateVIP(p, ip)

DeleteVIP(p) ==
  /\ vips' = [vips EXCEPT ![p] = None]
  /\ UNCHANGED <<monitor, pools, bound, members>>

(* What a strict device refuses: deleting what does not exist, a pool that *)
(* a virtual server still uses, or a monitor that a pool still carries.    *)
MissingVIP(p) == StrictDelete /\ vips[p] = None
MissingMember(h, p) == StrictDelete /\ (p \notin pools \/ h \notin members[p])
PoolRefused(p) == StrictDelete /\ (p \notin pools \/ vips[p] # None)
MonitorRefused == StrictDelete /\ (monitor = None \/ bound # {})

----------------------------------------------------------------------------
(* Device objects never refer to one that is missing: a virtual server has *)
(* the pool it sends traffic to, a pool the monitor it carries, a member   *)
(* its pool.  Reconcile creates monitor, pools and VIPs in this order and  *)
(* HandleCleanup deletes them in the opposite one.                         *)
NoDanglingReferences ==
  /\ \A p \in Ports : vips[p] # None => p \in pools
  /\ bound # {} => monitor # None
  /\ bound \subseteq pools
  /\ \A p \in Ports : members[p] # {} => p \in pools

(* Nothing of this load balancer is left on the device.                    *)
DeviceEmpty == DeviceInit
=============================================================================
