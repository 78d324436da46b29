------------------------------- MODULE MCFleet -------------------------------
EXTENDS Fleet, TLC

CONSTANTS a, b, n1, n2

\* Distinct names; and one name in two namespaces.
MCUnique == (a :> n1) @@ (b :> n2)
MCShared == (a :> n1) @@ (b :> n1)
=============================================================================
