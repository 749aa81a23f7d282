----------------------- MODULE MCMaintenancePlanning -----------------------
(* Three hosts, two clusters: a three-master cluster with two hot nodes, and *)
(* a pair of Kibana instances beside it.                                     *)
EXTENDS MaintenancePlanning

MCHosts == 1..3
MCClusters == 1..2
MCAssignments == 1..7
MCHostOf == <<1, 2, 3, 1, 2, 2, 3>>
MCClusterOf == <<1, 1, 1, 1, 1, 2, 2>>
MCRoleOf == <<"master", "master", "master", "hot", "hot", "kibana", "kibana">>

Roomy == [DefaultPolicy EXCEPT !.maxUnavailable = 3]
Counted == [DefaultPolicy EXCEPT !.maxUnavailable = 2, !.masters = "count"]
MCPolicies == {DefaultPolicy, Roomy, Counted}
MCFirstPolicy == <<Roomy, DefaultPolicy>>

MCProvider ==
  <<[type |-> "native_podman", verified |-> TRUE, backend |-> "documented_rolling"],
    [type |-> "native_podman", verified |-> TRUE, backend |-> "node_shutdown_api"]>>

Ask(route, op, h, c, S) ==
  [route |-> route, op |-> op, node |-> h, cluster |-> c, assignments |-> S]
MCRequests ==
  {Ask("host", "reboot", 1, 0, {}), Ask("host", "reboot", 2, 0, {}),
   Ask("generic", "host_maintenance", 1, 0, {}), Ask("generic", "reboot", 1, 0, {}),
   Ask("generic", "resource_change", 0, 0, {3, 4}),
   Ask("generic", "cluster_settings", 0, 1, {}),
   Ask("generic", "upgrade", 0, 1, {})}
=============================================================================
