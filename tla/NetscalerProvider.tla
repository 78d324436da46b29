-------------------------- MODULE NetscalerProvider --------------------------
(***************************************************************************)
(* netscaler_controller.go: the Provider for a Citrix ADC, one action per  *)
(* NITRO request.  AddResource creates or updates (the tests expect        *)
(* "?idempotent=yes"): a field that is left out keeps its value.  What is  *)
(* configured runs at once and is kept over a reboot when it is saved.     *)
(***************************************************************************)
EXTENDS ProviderPass

ASSUME NoneIsNoVserver == None \notin [ip : IPs, method : Methods]

VARIABLES
  adc,      \* the running configuration of the ADC
  unsaved   \* it differs from the saved one

netscaler == <<adc, unsaved>>

EmptyADC ==
  [mon |-> None,                             \* lbmonitor Monitor-<lb>
   groups |-> {},                            \* servicegroups Pool-<lb>-p
   monBound |-> {},                          \* those with a monitor binding
   members |-> [p \in Ports |-> {}],         \* their member bindings
   servers |-> {},                           \* servers, one per host
   vservers |-> [p \in Ports |-> None],      \* lbvservers VIP-<lb>-p
   groupBound |-> {}]                        \* those with a servicegroup binding

NetscalerTypeOK ==
  /\ adc.mon \in Monitors \cup {None}
  /\ {adc.groups, adc.monBound, adc.groupBound} \subseteq SUBSET Ports
  /\ adc.members \in [Ports -> SUBSET Hosts]
  /\ adc.servers \subseteq Hosts
  /\ adc.vservers \in [Ports -> [ip : IPs, method : Methods] \cup {None}]
  /\ unsaved \in BOOLEAN

NetscalerInit == adc = EmptyADC /\ unsaved = FALSE

----------------------------------------------------------------------------
(* A write request succeeds, or fails before or after the ADC carried it   *)
(* out; the method returns its error.                                      *)
Request(request, new, next) ==
  /\ \/ adc' = new /\ next /\ UNCHANGED faults
     \/ adc' \in {adc, new} /\ Breaks(request) /\ Fail
  /\ unsaved' = (unsaved \/ adc' # adc)

(* A read whose error is dropped: the object found, or none.               *)
BlindRead(request, next, nothing) ==
  \/ next /\ UNCHANGED faults
  \/ Breaks(request) /\ nothing

Port == Head(todo).port
Host == Head(todo).host

----------------------------------------------------------------------------
(* A monitor without the secure flag has type "HTTP", which is the type of *)
(* no spec.                                                                *)
GetMonitor ==
  /\ Running("GetMonitor")
  /\ LET m == Parsed(adc.mon)
         found == IF m # None /\ m.type # "https" THEN [m EXCEPT !.type = "HTTP"] ELSE m
     IN BlindRead("FindMonitor", GotMonitor(found), GotMonitor(None))
  /\ UNCHANGED netscaler

(* Mutant: the secure flag is never sent. *)
SetMonitor_HTTP ==
  /\ \E m \in {"CreateMonitor", "EditMonitor"} : Running(m)
  /\ Request("AddMonitor", [adc EXCEPT !.mon = [op.monitor EXCEPT !.type = "HTTP"]],
             Return(<<>>))

(* CreateMonitor and EditMonitor: the secure flag is set for https and left *)
(* out otherwise.                                                          *)
SetMonitor ==
  /\ \E m \in {"CreateMonitor", "EditMonitor"} : Running(m)
  /\ LET type == IF adc.mon # None /\ adc.mon.type = "https" THEN "https" ELSE op.monitor.type
     IN Request("AddMonitor", [adc EXCEPT !.mon = [op.monitor EXCEPT !.type = type]],
                Return(<<>>))

DeleteMonitor ==
  /\ Running("DeleteMonitor")
  /\ Request("DeleteMonitor", [adc EXCEPT !.mon = None], Return(<<>>))

----------------------------------------------------------------------------
GetPoolGroup ==
  /\ Running("GetPool") /\ at = 0
  /\ BlindRead("FindGroup", IF Port \in adc.groups THEN Proceed ELSE NoPool, NoPool)
  /\ UNCHANGED netscaler

(* The first monitor binding is taken without a check: the index panics    *)
(* when there is none, and controller-runtime turns the panic into an      *)
(* error of the pass.                                                      *)
GetPoolMonitor ==
  /\ Running("GetPool") /\ at = 1
  /\ Read("FindGroupBinding", IF Port \in adc.monBound THEN GotPool(TRUE) ELSE Fail)
  /\ UNCHANGED netscaler

(* CreatePool and EditPool: the group, then the binding of its monitor.    *)
SetPool ==
  /\ \E m \in {"CreatePool", "EditPool"} : Running(m)
  /\ \/ /\ at = 0
        /\ Request("AddGroup", [adc EXCEPT !.groups = @ \cup {Port}], Proceed)
     \/ /\ at = 1
        /\ Request("BindMonitor", [adc EXCEPT !.monBound = @ \cup {Port}], Return(<<>>))

DeletePool ==
  /\ Running("DeletePool")
  /\ Request("DeleteGroup",
             [adc EXCEPT !.groups = @ \ {Port}, !.monBound = @ \ {Port},
                         !.groupBound = @ \ {Port}, !.members[Port] = {}],
             Return(<<>>))

GetPoolMembers ==
  /\ Running("GetPoolMembers")
  /\ Read("FindMembers", GotMembers(adc.members[Port]))
  /\ UNCHANGED netscaler

(* The server, then its binding to the group; servers are never deleted    *)
(* because another pool may use them.                                      *)
CreatePoolMember ==
  /\ Running("CreatePoolMember")
  /\ \/ /\ at = 0
        /\ Request("AddServer", [adc EXCEPT !.servers = @ \cup {Host}], Proceed)
     \/ /\ at = 1
        /\ Request("AddMember", [adc EXCEPT !.members[Port] = @ \cup {Host}], Return(<<>>))

(* Mutant: the server is deleted, which removes it from every group. *)
DeletePoolMember_Server ==
  /\ Running("DeletePoolMember")
  /\ Request("DeleteMember",
             [adc EXCEPT !.members = [p \in Ports |-> @[p] \ {Host}]], Return(<<>>))

DeletePoolMember ==
  /\ Running("DeletePoolMember")
  /\ Request("DeleteMember", [adc EXCEPT !.members[Port] = @ \ {Host}], Return(<<>>))

----------------------------------------------------------------------------
(* The binding is read too and its answer used only when the read failed   *)
(* and returned something, so the pool that was asked for is the answer.   *)
GetVIP ==
  /\ Running("GetVIP")
  /\ LET v == adc.vservers[Port]
     IN BlindRead("FindVserver", GotVIP(IF v = None THEN None ELSE v.ip), GotVIP(None))
  /\ UNCHANGED netscaler

(* CreateVIP and EditVIP: the virtual server, then its service group.      *)
SetVIP ==
  /\ \E m \in {"CreateVIP", "EditVIP"} : Running(m)
  /\ \/ /\ at = 0
        /\ Request("AddVserver",
                   [adc EXCEPT !.vservers[Port] = [ip |-> op.ip, method |-> goal.method]],
                   Proceed)
     \/ /\ at = 1
        /\ Request("BindGroup", [adc EXCEPT !.groupBound = @ \cup {Port}], Return(<<>>))

DeleteVIP ==
  /\ Running("DeleteVIP")
  /\ Request("DeleteVserver",
             [adc EXCEPT !.vservers[Port] = None, !.groupBound = @ \ {Port}], Return(<<>>))

NetscalerMethod ==
  /\ \/ GetMonitor \/ SetMonitor \/ DeleteMonitor
     \/ GetPoolGroup \/ GetPoolMonitor \/ SetPool \/ DeletePool
     \/ GetPoolMembers \/ CreatePoolMember \/ DeletePoolMember
     \/ GetVIP \/ SetVIP \/ DeleteVIP
  /\ UNCHANGED <<outside, pass>>

----------------------------------------------------------------------------
(* Mutant: the error of saveConfig is only logged. *)
NetscalerClose_Logged ==
  /\ Closing
  /\ \/ unsaved' = FALSE /\ Closed
     \/ /\ Breaks("SaveConfig")
        /\ pc' = IF pc = "close" THEN "status" ELSE "rmFinalizer"
        /\ UNCHANGED <<goal, want, ops, op, todo, at, failed, queued, unsaved>>
  /\ UNCHANGED <<adc, object, status, envOps, crashes>>

(* Close saves the configuration.                                          *)
NetscalerClose ==
  /\ Closing
  /\ \/ unsaved' = FALSE /\ Closed
     \/ unsaved' \in {FALSE, unsaved} /\ CloseFails("SaveConfig")
  /\ UNCHANGED <<adc, object, status, envOps, crashes>>

NetscalerNext == NetscalerMethod \/ NetscalerClose

----------------------------------------------------------------------------
(* The ADC as the Provider interface describes a device: a virtual server  *)
(* counts when it sends traffic to its pool.                               *)
NetscalerDevice == INSTANCE BackendContract WITH
  StrictDelete <- FALSE,
  monitor <- adc.mon,
  pools <- adc.groups,
  bound <- adc.monBound,
  members <- adc.members,
  vips <- [p \in Ports |-> IF p \in adc.groupBound THEN adc.vservers[p].ip ELSE None],
  arg <- CallOn("Citrix_ADC"),
  result <- ResultOn("Citrix_ADC")

(* The ADC carries what s and ns ask for.                                  *)
NetscalerServes(s, ns) ==
  /\ adc.mon = s.monitor
  /\ adc.groups = Ports /\ adc.monBound = Ports /\ adc.groupBound = Ports
  /\ \A p \in Ports : adc.members[p] = ns /\ adc.vservers[p].ip = s.ip

(* Nothing but servers is left of the load balancer.                       *)
NetscalerEmpty == adc = [EmptyADC EXCEPT !.servers = adc.servers]
=============================================================================
