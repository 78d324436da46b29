--------------------------- MODULE BackendContract ---------------------------
(***************************************************************************)
(* What the four Handle operations promise their caller, without saying    *)
(* how: while an operation runs, the device changes only in what the call  *)
(* names and only towards what it asks for, and a nil error means that the *)
(* device is in the state asked for.  An error promises nothing more than  *)
(* that the change stayed inside those limits.                             *)
(***************************************************************************)
EXTENDS Provider

VARIABLES
  arg,      \* the call under way: None or a record with its arguments
  result    \* "none" until the call returns

contract == <<device, arg, result>>

(* The device is in the state the call asks for.                           *)
Goal(a) ==
  CASE a.op = "monitor" -> monitor = a.monitor
    [] a.op = "pool" -> a.port \in pools \cap bound /\ members[a.port] = a.want
    [] a.op = "vip" -> vips[a.port] = a.ip
    [] a.op = "cleanup" ->
         /\ \A i \in DOMAIN a.status.handled :
              LET p == a.status.handled[i] IN vips[p] = None /\ p \notin pools
         /\ a.status.monitor # None => monitor = None

(* Everything about the ports other than those in S is left alone.         *)
OnlyPorts(S) ==
  \A p \in Ports \ S :
    /\ p \in pools' <=> p \in pools
    /\ members'[p] = members[p]
    /\ vips'[p] = vips[p]

(* A pool's members move towards want: nothing wanted leaves, nothing      *)
(* unwanted enters, and a pool that serves traffic keeps a member as long  *)
(* as one is wanted.                                                       *)
TowardsMembers(p, want) ==
  /\ members[p] \cap want \subseteq members'[p]
  /\ members'[p] \subseteq members[p] \cup want
  /\ members[p] # {} /\ want # {} => members'[p] # {}

Allowed(a) ==
  CASE a.op = "monitor" ->
         /\ monitor' \in {monitor, a.monitor}
         /\ UNCHANGED <<pools, bound, members, vips>>
    [] a.op = "pool" ->
         /\ OnlyPorts({a.port})
         /\ pools \subseteq pools' /\ bound \subseteq bound'
         /\ bound' \subseteq bound \cup {a.port}
         /\ TowardsMembers(a.port, a.want)
         /\ UNCHANGED <<monitor, vips>>
    [] a.op = "vip" ->
         /\ OnlyPorts({a.port})
         /\ vips'[a.port] \in {vips[a.port], a.ip}
         /\ UNCHANGED <<monitor, pools, bound, members>>
    [] a.op = "cleanup" ->
         /\ OnlyPorts({a.status.handled[i] : i \in DOMAIN a.status.handled})
         /\ pools' \subseteq pools /\ bound' \subseteq bound
         /\ \A p \in Ports : /\ members'[p] \subseteq members[p]
                             /\ vips'[p] \in {vips[p], None}
         /\ monitor' \in {monitor, None}

----------------------------------------------------------------------------
Init == DeviceInit /\ arg = None /\ result = "none"

Start ==
  /\ arg = None
  /\ arg' # None
  /\ result' = "none"
  /\ UNCHANGED device

Work ==
  /\ arg # None /\ result = "none"
  /\ Allowed(arg)
  /\ result' \in {"none", "err", "ok"}
  /\ result' = "ok" => Goal(arg)'
  /\ UNCHANGED arg

Finish ==
  /\ arg # None /\ result # "none"
  /\ arg' = None
  /\ result' = "none"
  /\ UNCHANGED device

Next == Start \/ Work \/ Finish

Spec == Init /\ [][Next]_contract

(* A caller that may die in the middle of a call promises nothing about it *)
(* but what the device has been through.                                   *)
Abandon ==
  /\ arg # None
  /\ arg' = None
  /\ result' = "none"
  /\ UNCHANGED device

SpecWithRestarts == Init /\ [][Next \/ Abandon]_contract
=============================================================================
