--------------------------- MODULE MCBackendCalls ---------------------------
(* TLC instance of BackendCalls. *)
EXTENDS BackendCalls

CONSTANTS p1, p2, h1, h2, ip1, ip2, m1, m2

(* What a status can list: nothing, both ports, one of them.               *)
MCCleanStatuses ==
  {EmptyStatus} \cup
  {[monitor |-> m1, ip |-> ip1, handled |-> s, members |-> {h1}, ports |-> s] :
     s \in {<<p1>>, <<p1, p2>>}}
=============================================================================
