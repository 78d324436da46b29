------------------------------ MODULE MCHAProxy ------------------------------
(* TLC instances of HAProxyProvider. *)
EXTENDS HAProxyProvider, TLC

CONSTANTS p1, p2, n1, n2, h1, h2, h3, ip1, ip2, m1, m2

MCHostOf == n1 :> h1 @@ n2 :> h2
MCHostOf1 == n1 :> h1
=============================================================================
