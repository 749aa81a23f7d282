----------------------- MODULE MCMaintenanceExecution -----------------------
(***************************************************************************)
(* Two hosts h1 and h2 that share the cluster c1.  Plan r1 is a planned    *)
(* host maintenance of h1, r2 a plain reboot of h2, m1 manual mode of h1,  *)
(* whose only lock is the host.  All three overlap: r1 and r2 in the       *)
(* cluster, r1 and m1 in the host.                                         *)
(***************************************************************************)
EXTENDS MaintenanceExecution, TLC

CONSTANTS r1, r2, m1, h1, h2, c1, x1, x2, x3, t1, t2, k1, k2, k3, k4

AllPlans == {r1, r2, m1}
SameHost == {r1, m1}       \* same host
TwoTickets == {t1, t2}
OneTicket == {t1}
MCHosts == {h1, h2}
MCScopes == {h1, h2, c1, x1, x2, x3}
MCTokens == {k1, k2, k3, k4}
Row == (r1 :> [kind |-> "host_maintenance", target |-> h1, requests |-> {h1, c1},
               covers |-> {h1, c1}, recovery |-> x1])
    @@ (r2 :> [kind |-> "reboot", target |-> h2, requests |-> {h2, c1},
               covers |-> {h2, c1}, recovery |-> x2])
    @@ (m1 :> [kind |-> "manual", target |-> h1, requests |-> {h1},
               covers |-> {h1, c1}, recovery |-> x3])
MCKind == [p \in Plans |-> Row[p].kind]
MCTarget == [p \in Plans |-> Row[p].target]
MCRequests == [p \in Plans |-> Row[p].requests]
MCCovers == [p \in Plans |-> Row[p].covers]
MCRecovery == [p \in Plans |-> Row[p].recovery]

NoEvidence == {}
RebootEvidence == {r2}

Sym == Permutations(Tickets) \cup Permutations(MCTokens)
=============================================================================
