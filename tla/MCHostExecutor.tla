--------------------------- MODULE MCHostExecutor ---------------------------
(***************************************************************************)
(* The instance of HostExecutor for TLC: one unit, two clusters, three     *)
(* boots, so that a second power loss can meet the script or the cleanup.  *)
(***************************************************************************)
EXTENDS HostExecutor

McUnits == {"es"}
McClusters == {"c1", "c2"}

=============================================================================
