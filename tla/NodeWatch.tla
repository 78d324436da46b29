------------------------------ MODULE NodeWatch ------------------------------
(***************************************************************************)
(* The watch on nodes that SetupWithManager installs: node events, the     *)
(* filter that drops updates, the map function from a node to the load     *)
(* balancers to reconcile, and the passes this causes.  A pass is reduced  *)
(* to what it reads about nodes; Reconciler models it in full.             *)
(***************************************************************************)
EXTENDS NodeSelection, FiniteSets

CONSTANTS
  NodeNames,     \* the nodes of the cluster
  LBs,           \* the load balancers
  Name,          \* Name[b]: metadata.name of a load balancer
  Selector,      \* Selector[b]: its spec's type and node labels
  NodeStates,    \* the states a node may be in
  NoNode,        \* the node does not exist
  ListErrors,    \* the map function may fail to list the load balancers
  MaxEvents      \* bound on unhandled node events

ASSUME WatchConstants ==
  /\ NodeStates \subseteq Nodes
  /\ NoNode \notin Nodes
  /\ Selector \in [LBs -> Selectors]
  /\ ListErrors \in BOOLEAN
  /\ MaxEvents \in Nat

VARIABLES
  nodes,      \* the node informer's cache
  events,     \* <<old, new>> of node events not handled yet
  requests,   \* requests in the work queue
  applied     \* applied[b]: members of b's pools as of its last pass

vars == <<nodes, events, requests, applied>>

(* Mutant: members are told apart by host only. *)
Members_Hosts(ns, b) ==
  {getNodeIP(ns[n]) :
     n \in {m \in NodeNames : ns[m] # NoNode /\ eligible(ns[m], Selector[b])}}

(* The members a pass configures: name and host of every eligible node.    *)
Members(ns, b) ==
  {<<n, getNodeIP(ns[n])>> :
     n \in {m \in NodeNames : ns[m] # NoNode /\ eligible(ns[m], Selector[b])}}

TypeOK ==
  /\ nodes \in [NodeNames -> NodeStates \cup {NoNode}]
  /\ events \in SUBSET ((NodeStates \cup {NoNode}) \X (NodeStates \cup {NoNode}))
  /\ requests \in SUBSET LBs
  /\ applied \in [LBs -> SUBSET (NodeNames \X (Addresses \cup {NoIP}))]

(* At start every object is listed and enqueued.                           *)
Init ==
  /\ nodes \in [NodeNames -> {NoNode}]
  /\ events = {}
  /\ requests = LBs
  /\ applied = [b \in LBs |-> {}]

(* The load balancers the node has labels of.                              *)
Matched(node) ==
  {b \in LBs : node # NoNode /\ containsLabels(node.labels, computeLabels(Selector[b]))}

(* The requests the map function may return: of the matched load balancers *)
(* with the same name, whatever their namespace, only the one listed first;*)
(* none if the load balancers cannot be listed.                            *)
mapFunc(node) ==
  {R \in SUBSET Matched(node) :
     \/ \A b \in Matched(node) :
          \E c \in R : \A d \in R : Name[d] = Name[b] <=> d = c
     \/ ListErrors /\ R = {}}

(* Creations and deletions pass the filter, updates if the node changed.   *)
updateFilter(old, new) ==
  old = NoNode \/ new = NoNode \/ hasNodeChanged(old, new)

(* A node is created, updated or deleted.                                  *)
NodeEvent(n) ==
  /\ Cardinality(events) < MaxEvents
  /\ \E s \in (NodeStates \cup {NoNode}) \ {nodes[n]} :
       /\ nodes' = [nodes EXCEPT ![n] = s]
       /\ events' = IF updateFilter(nodes[n], s)
                      THEN events \cup {<<nodes[n], s>>} ELSE events
  /\ UNCHANGED <<requests, applied>>

(* The handler runs the map function on the old and on the new node.  An   *)
(* equal event may be pending behind the one handled.                      *)
Enqueue ==
  \E e \in events :
    /\ events' \in {events, events \ {e}}
    /\ \E old \in mapFunc(e[1]), new \in mapFunc(e[2]) :
         requests' = requests \cup old \cup new
    /\ UNCHANGED <<nodes, applied>>

Pass(b) ==
  /\ b \in requests
  /\ requests' = requests \ {b}
  /\ applied' = [applied EXCEPT ![b] = Members(nodes, b)]
  /\ UNCHANGED <<nodes, events>>

Next == (\E n \in NodeNames : NodeEvent(n)) \/ Enqueue \/ (\E b \in LBs : Pass(b))

Spec == Init /\ [][Next]_vars

----------------------------------------------------------------------------
(* No node change is missed: unless a pass of b is queued, or will be once *)
(* a pending event is handled, b's pools have exactly the eligible nodes.  *)
NoMissedNodeChange ==
  \A b \in LBs :
    \/ b \in requests
    \/ \E e \in events : b \in Matched(e[1]) \cup Matched(e[2])
    \/ applied[b] = Members(nodes, b)
=============================================================================
