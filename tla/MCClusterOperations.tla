------------------------ MODULE MCClusterOperations -------------------------
(***************************************************************************)
(* Model checking of the operations on running clusters: zoning, container *)
(* maintenance, release versions.  They share the exclusion of operations  *)
(* by runs and claims, which each module has for itself; a behaviour       *)
(* follows one of them.                                                    *)
(***************************************************************************)
EXTENDS ClusterZoning, ContainerMaintenance, StackVersions

CONSTANTS u1, u2, u3, t1, t2

VARIABLE focus

-----------------------------------------------------------------------------
(* Zoning: two clusters that share host 2; hosts 1 and 3 may join.         *)

MCClusterOf == <<1, 1, 1>>
MCHostOf == <<1, 1, 2>>
MCRoleOf == <<"master", "hot", "hot">>
Catalog(m, z) == [mode |-> m, zones |-> z]
Forced == Catalog("forced", {"za", "zb"})
MCCatalogs == {Catalog("disabled", {}), Forced, Catalog("aware", {"za", "zb", "zc"})}
MCFirstZoning == <<Forced, Forced>>
MCFirstMembers == <<{1, 2}, {2}>>
MCFirstZone == <<"za", "zb", "zc">>

(* Container maintenance: u1 and u2 in one cluster, u1 and u3 on one host. *)
MCUnitOf == <<u1, u2, u3>>
MCUnitHost == [a \in Units |-> IF a = u2 THEN 2 ELSE 1]
MCUnitCluster == [a \in Units |-> IF a = u3 THEN 2 ELSE 1]

(* Versions: Kibana has no image of release 91 at first.                   *)
MCRepositoryOf == <<"elasticsearch", "kibana">>
MCFirstRegistry ==
  [elasticsearch |-> [v \in Releases |-> "i1"],
   kibana |-> [v \in Releases |-> IF v = 91 THEN NoImage ELSE "i1"]]
MCMoving == {<<"kibana", 91>>}

-----------------------------------------------------------------------------

OperationsInit ==
  /\ focus \in {"zoning", "container", "versions"}
  /\ ZoningInit /\ ContainerInit /\ VersionsInit

OperationsNext ==
  /\ UNCHANGED focus
  /\ \/ focus = "zoning" /\ ZoningNext /\ UNCHANGED <<containerVars, versionVars>>
     \/ focus = "container" /\ ContainerNext /\ UNCHANGED <<zoningVars, versionVars>>
     \/ focus = "versions" /\ VersionsNext /\ UNCHANGED <<zoningVars, containerVars>>

OperationsSpec ==
  OperationsInit /\ [][OperationsNext]_<<focus, zoningVars, containerVars, versionVars>>
=============================================================================
