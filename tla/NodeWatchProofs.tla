--------------------------- MODULE NodeWatchProofs ---------------------------
(***************************************************************************)
(* Proofs about NodeWatch: whatever the nodes, labels and load balancers,  *)
(* the filter and the map function between them miss no change of a node   *)
(* that changes the members of a pool.                                     *)
(***************************************************************************)
EXTENDS NodeWatch, TLAPS

(* The map function lists the load balancers, and no two of them have the  *)
(* same name (MCNodeListError.cfg and MCNodeSameName.cfg show why).        *)
WatchConditions ==
  /\ ListErrors = FALSE
  /\ \A b, c \in LBs : Name[b] = Name[c] => b = c

----------------------------------------------------------------------------
(* The functions of utility_functions.go.                                  *)

LEMMA NodeIPType ==
  ASSUME NEW node \in Nodes
  PROVE  getNodeIP(node) \in Addresses \cup {NoIP}
  BY DEF getNodeIP, Nodes

(* Spec.Type and Spec.NodeLabels give a label map.                         *)
LEMMA ComputeLabelsType ==
  ASSUME NEW spec \in Selectors
  PROVE  computeLabels(spec) \in LabelMaps
PROOF
<1> DEFINE K == {RoleKey[r] : r \in spec.type} \cup DOMAIN spec.nodeLabels
<1>1. PICK D \in SUBSET Keys : spec.nodeLabels \in [D -> Values]
  BY DEF Selectors, LabelMaps
<1>2. spec.type \subseteq Roles
  BY DEF Selectors
<1>3. K \in SUBSET Keys
  BY <1>1, <1>2, RoleAssumption
<1>4. computeLabels(spec) \in [K -> Values]
  BY <1>1, SelectionConstants DEF computeLabels
<1>5. QED BY <1>3, <1>4 DEF LabelMaps

(* The map function's containsLabels is no stricter than the selector of   *)
(* the list request: it compares keys only.                                *)
LEMMA MatchingContains ==
  ASSUME NEW node, NEW labels \in LabelMaps, matchingLabels(node, labels)
  PROVE  containsLabels(node.labels, labels)
PROOF
<1>1. PICK D \in SUBSET Keys : labels \in [D -> Values]
  BY DEF LabelMaps
<1>2. DOMAIN labels \cap DOMAIN node.labels = DOMAIN labels
  BY DEF matchingLabels
<1>3. labels = [k \in DOMAIN labels |-> labels[k]]
  BY <1>1
<1>4. QED BY <1>2, <1>3 DEF containsLabels

(* A node that is a member of b's pools makes the map function find b.     *)
LEMMA EligibleMatched ==
  ASSUME NEW b \in LBs, NEW node, node # NoNode, eligible(node, Selector[b])
  PROVE  b \in Matched(node)
PROOF
<1>1. Selector[b] \in Selectors
  BY WatchConstants
<1>2. QED BY <1>1, ComputeLabelsType, MatchingContains DEF eligible, Matched

(* The filter only drops updates that leave the member as it was.          *)
LEMMA FilteredSame ==
  ASSUME NEW old, NEW new, ~updateFilter(old, new), NEW s
  PROVE  /\ old # NoNode /\ new # NoNode
         /\ eligible(old, s) <=> eligible(new, s)
         /\ getNodeIP(old) = getNodeIP(new)
  BY DEF updateFilter, hasNodeChanged, eligible, matchingLabels

(* Under the conditions the map function returns every load balancer the   *)
(* node has labels of.                                                     *)
LEMMA MapsAll ==
  ASSUME WatchConditions, NEW node, NEW R \in mapFunc(node)
  PROVE  R = Matched(node)
  BY DEF WatchConditions, mapFunc, Matched

LEMMA MembersType ==
  ASSUME NEW ns \in [NodeNames -> NodeStates \cup {NoNode}], NEW b \in LBs
  PROVE  Members(ns, b) \in SUBSET (NodeNames \X (Addresses \cup {NoIP}))
PROOF
<1>1. \A n \in NodeNames : ns[n] # NoNode => ns[n] \in Nodes
  BY WatchConstants
<1>2. QED BY <1>1, NodeIPType DEF Members

----------------------------------------------------------------------------
(* Every variable keeps its type.                                          *)
THEOREM WatchTypeCorrect == Spec => []TypeOK
PROOF
<1>1. Init => TypeOK
  BY DEF Init, TypeOK
<1>2. TypeOK /\ [Next]_vars => TypeOK'
  <2> SUFFICES ASSUME TypeOK, [Next]_vars PROVE TypeOK'
    OBVIOUS
  <2>1. ASSUME NEW n \in NodeNames, NodeEvent(n) PROVE TypeOK'
    BY <2>1 DEF NodeEvent, TypeOK
  <2>2. CASE Enqueue
    <3>1. requests' \subseteq LBs
      BY <2>2 DEF Enqueue, mapFunc, Matched, TypeOK
    <3>2. events' \subseteq events /\ UNCHANGED <<nodes, applied>>
      BY <2>2 DEF Enqueue
    <3>3. QED BY <3>1, <3>2 DEF TypeOK
  <2>3. ASSUME NEW b \in LBs, Pass(b) PROVE TypeOK'
    <3>1. Members(nodes, b) \in SUBSET (NodeNames \X (Addresses \cup {NoIP}))
      BY MembersType DEF TypeOK
    <3>2. QED BY <2>3, <3>1 DEF Pass, TypeOK
  <2>4. CASE UNCHANGED vars
    BY <2>4 DEF vars, TypeOK
  <2>5. QED BY <2>1, <2>2, <2>3, <2>4 DEF Next
<1>3. QED BY <1>1, <1>2, PTL DEF Spec

(* A member of b's pools.                                                  *)
Member(node, b) == node # NoNode /\ eligible(node, Selector[b])

(* What b's pools owe to the nodes, for one load balancer.                 *)
Covered(b) ==
  \/ b \in requests
  \/ \E e \in events : b \in Matched(e[1]) \cup Matched(e[2])
  \/ applied[b] = Members(nodes, b)

(* For any set of nodes, labels and load balancers with distinct names: a  *)
(* node event the filter drops changes no member, and one it lets through  *)
(* leads to a pass of every load balancer that has, or had, the node.      *)
THEOREM NoChangeMissed == WatchConditions => (Spec => []NoMissedNodeChange)
PROOF
<1> SUFFICES ASSUME WatchConditions PROVE Spec => []NoMissedNodeChange
  OBVIOUS
<1>1. Init => NoMissedNodeChange
  BY DEF Init, NoMissedNodeChange
<1>2. TypeOK /\ NoMissedNodeChange /\ [Next]_vars => NoMissedNodeChange'
  <2> SUFFICES ASSUME TypeOK, NoMissedNodeChange, [Next]_vars, NEW b \in LBs PROVE Covered(b)'
    BY DEF NoMissedNodeChange, Covered
  <2>1. Covered(b)
    BY DEF NoMissedNodeChange, Covered
  <2>2. ASSUME NEW n \in NodeNames, NodeEvent(n) PROVE Covered(b)'
    <3>1. PICK s \in (NodeStates \cup {NoNode}) \ {nodes[n]} :
            /\ nodes' = [nodes EXCEPT ![n] = s]
            /\ events' = IF updateFilter(nodes[n], s)
                           THEN events \cup {<<nodes[n], s>>} ELSE events
            /\ UNCHANGED <<requests, applied>>
      BY <2>2 DEF NodeEvent
    <3>2. CASE b \in requests \/ \E e \in events : b \in Matched(e[1]) \cup Matched(e[2])
      BY <3>1, <3>2 DEF Covered
    <3>3. CASE applied[b] = Members(nodes, b)
      <4>1. CASE updateFilter(nodes[n], s) /\ b \in Matched(nodes[n]) \cup Matched(s)
        <5>1. <<nodes[n], s>> \in events'
          BY <3>1, <4>1
        <5>2. QED BY <4>1, <5>1 DEF Covered
      <4>2. CASE ~updateFilter(nodes[n], s) \/ b \notin Matched(nodes[n]) \cup Matched(s)
        <5>1. /\ Member(nodes[n], b) <=> Member(s, b)
              /\ Member(s, b) => getNodeIP(nodes[n]) = getNodeIP(s)
          BY <4>2, FilteredSame, EligibleMatched DEF Member
        <5>2. \A m \in NodeNames :
                /\ Member(nodes[m], b) <=> Member(nodes'[m], b)
                /\ Member(nodes'[m], b) => getNodeIP(nodes[m]) = getNodeIP(nodes'[m])
          BY <3>1, <5>1 DEF TypeOK
        <5>3. Members(nodes, b)' = Members(nodes, b)
          BY <5>2 DEF Members, Member
        <5>4. QED BY <3>1, <3>3, <5>3 DEF Covered
      <4>3. QED BY <4>1, <4>2
    <3>4. QED BY <2>1, <3>2, <3>3 DEF Covered
  <2>3. CASE Enqueue
    <3>1. PICK e \in events :
            /\ events' \in {events, events \ {e}}
            /\ \E old \in mapFunc(e[1]), new \in mapFunc(e[2]) :
                 requests' = requests \cup old \cup new
            /\ UNCHANGED <<nodes, applied>>
      BY <2>3 DEF Enqueue
    <3>2. requests' = requests \cup Matched(e[1]) \cup Matched(e[2])
      BY <3>1, MapsAll
    <3>3. Members(nodes, b)' = Members(nodes, b)
      BY <3>1 DEF Members
    <3>4. QED BY <2>1, <3>1, <3>2, <3>3 DEF Covered
  <2>4. ASSUME NEW c \in LBs, Pass(c) PROVE Covered(b)'
    <3>1. /\ requests' = requests \ {c}
          /\ applied' = [applied EXCEPT ![c] = Members(nodes, c)]
          /\ UNCHANGED <<nodes, events>>
      BY <2>4 DEF Pass
    <3>2. Members(nodes, b)' = Members(nodes, b)
      BY <3>1 DEF Members
    <3>3. QED BY <2>1, <3>1, <3>2 DEF Covered, TypeOK
  <2>5. CASE UNCHANGED vars
    BY <2>1, <2>5 DEF vars, Covered, Members
  <2>6. QED BY <2>2, <2>3, <2>4, <2>5 DEF Next
<1>3. QED BY <1>1, <1>2, WatchTypeCorrect, PTL DEF Spec
=============================================================================
