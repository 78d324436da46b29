---------------------------- MODULE NodeSelection ----------------------------
(***************************************************************************)
(* Which nodes a load balancer uses and which node updates matter to it:   *)
(* utility_functions.go and the eligibility loop of Reconcile.             *)
(*                                                                         *)
(* A label map is a function whose domain is the set of keys present.  A   *)
(* node has labels, the status of its Ready condition ("" when it has      *)
(* none) and, per address type, the last address listed or NoIP.           *)
(***************************************************************************)
EXTENDS Integers

CONSTANTS
  Keys,         \* label keys
  Values,       \* label values
  Roles,        \* values of Spec.Type
  RoleKey,      \* RoleKey[type]: "node-role.kubernetes.io/" + type
  Empty,        \* the empty string, the value of a role's label
  Addresses,    \* node addresses
  NoIP          \* no address, the empty host

ASSUME RoleAssumption == RoleKey \in [Roles -> Keys]
ASSUME SelectionConstants == Empty \in Values /\ NoIP \notin Addresses

LabelMaps == UNION {[K -> Values] : K \in SUBSET Keys}

Nodes ==
  [labels : LabelMaps, ready : {"True", "False", "Unknown", ""},
   external : Addresses \cup {NoIP}, internal : Addresses \cup {NoIP}]

(* Spec.Type is a set of at most one role, Spec.NodeLabels a label map     *)
(* (the empty one stands for nil).                                         *)
Selectors == [type : {{}} \cup {{r} : r \in Roles}, nodeLabels : LabelMaps]

getNodeIP(node) ==
  IF node.ready # "True" THEN NoIP
  ELSE IF node.external # NoIP THEN node.external
  ELSE node.internal

(* Mutant: label changes are not noticed. *)
hasNodeChanged_NoLabels(o, n) ==
  ~(o.ready = n.ready /\ getNodeIP(o) = getNodeIP(n))

hasNodeChanged(o, n) ==
  ~(o.ready = n.ready /\ getNodeIP(o) = getNodeIP(n) /\ o.labels = n.labels)

(* The role's label first, then the node labels, which win.                *)
computeLabels(spec) ==
  [k \in {RoleKey[r] : r \in spec.type} \cup DOMAIN spec.nodeLabels |->
     IF k \in DOMAIN spec.nodeLabels THEN spec.nodeLabels[k] ELSE Empty]

(* The code copies to a new map the entries of bs whose key as has, and    *)
(* compares that map with bs.                                              *)
containsLabels(as, bs) == bs = [k \in DOMAIN bs \cap DOMAIN as |-> bs[k]]

(* client.MatchingLabels: the node has every label with the same value.    *)
matchingLabels(node, labels) ==
  \A k \in DOMAIN labels : k \in DOMAIN node.labels /\ node.labels[k] = labels[k]

(* The node is one of the pool members Reconcile computes.                 *)
eligible(node, spec) ==
  matchingLabels(node, computeLabels(spec)) /\ node.ready = "True"
=============================================================================
