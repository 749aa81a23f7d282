-------------------------- MODULE MCHostMaintenance --------------------------
(***************************************************************************)
(* Two hosts.  h1 runs data nodes of the clusters c1 and c2, h2 a data     *)
(* node and a Kibana of c1.  Plan p1 is a maintenance of h1, p2 one of h2: *)
(* they overlap in c1.  h2 is rebooted, h1 returned without a reboot.  Two *)
(* stage requests are served at once.                                      *)
(***************************************************************************)
EXTENDS HostMaintenance, TLC

CONSTANTS p1, p2, h1, h2, c1, c2, a1, a2, a3, a4, t1, t2

BothPlans == {p1, p2}
SecondPlan == {p2}
TwoRequests == {t1, t2}
MCHosts == {h1, h2}
MCClusters == {c1, c2}
MCAssignments == {a1, a2, a3, a4}
MCTarget == [p \in Plans |-> IF p = p1 THEN h1 ELSE h2]
MCHostOf == (a1 :> h1) @@ (a2 :> h2) @@ (a3 :> h2) @@ (a4 :> h1)
MCClusterOf == [a \in MCAssignments |-> IF a = a4 THEN c2 ELSE c1]
MCRole == (a1 :> "hot") @@ (a2 :> "kibana") @@ (a3 :> "warm") @@ (a4 :> "content")

Sym == Permutations(Requests)
=============================================================================
