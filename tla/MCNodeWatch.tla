----------------------------- MODULE MCNodeWatch -----------------------------
(* TLC instances of NodeWatch: a load balancer selects by role, another by *)
(* a label and its value.                                                  *)
EXTENDS NodeWatch, TLC

CONSTANTS n1, n2, b1, b2, a1, a2

MCKeys == {"role/infra", "shard"}
MCValues == {"", "blue", "green"}
MCRoleKey == [r \in {"infra"} |-> "role/infra"]
MCSelector ==
  b1 :> [type |-> {"infra"}, nodeLabels |-> <<>>]
    @@ b2 :> [type |-> {}, nodeLabels |-> "shard" :> "blue"]

MCLabels ==
  {<<>>, "shard" :> "blue", "shard" :> "green", "role/infra" :> "",
   "role/infra" :> "" @@ "shard" :> "blue"}

(* Ready or not, with one or both kinds of address.                        *)
MCNodeStates ==
  [labels : MCLabels, ready : {"True"}, external : {NoIP, a1}, internal : {a2}]
    \cup [labels : {"shard" :> "blue", "role/infra" :> ""}, ready : {"Unknown"}, external : {NoIP}, internal : {a2}]

UniqueNames == b1 :> "lb" @@ b2 :> "other"
SameName == b1 :> "lb" @@ b2 :> "lb"
=============================================================================
