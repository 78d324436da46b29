---------------------------- MODULE MCReconciler ----------------------------
(* TLC instances of Reconciler. *)
EXTENDS Reconciler, TLC

CONSTANTS p1, p2, h1, h2, ip1, ip2, m1, m2

SpecOf(v, m, s) == [vip |-> v, monitor |-> m, ports |-> s, selects |-> TRUE]

(* One spec; two that differ in address and monitor but expose the same    *)
(* ports; two of which one drops a port; one that lists a port twice.      *)
OneSpec == {SpecOf(ip1, m1, <<p1, p2>>)}
OnePort == {SpecOf(ip1, m1, <<p1>>)}
SamePorts == {SpecOf(ip1, m1, <<p1>>), SpecOf(ip2, m2, <<p1>>)}
PortsChange == {SpecOf(ip1, m1, <<p1>>), SpecOf(ip1, m1, <<p1, p2>>)}
PortsChangeOrInvalid == PortsChange \cup {[SpecOf(ip1, m1, <<p1>>) EXCEPT !.selects = FALSE]}
TwicePort == {SpecOf(ip1, m1, <<p1, p1>>)}

(* The two specs of SamePorts are alike: exchanging the addresses and the  *)
(* monitors exchanges the specs.                                           *)
Exchange ==
  {f \in Permutations({ip1, ip2, m1, m2}) :
     \A s \in SamePorts : SpecOf(f[s.vip], f[s.monitor], s.ports) \in SamePorts}
=============================================================================
