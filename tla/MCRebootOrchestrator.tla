------------------------ MODULE MCRebootOrchestrator ------------------------
(***************************************************************************)
(* One host with guarded data nodes of two clusters.                       *)
(***************************************************************************)
EXTENDS RebootOrchestrator, TLC

CONSTANTS c1, c2

TwoClusters == {c1, c2}

Sym == Permutations(Clusters)
=============================================================================
