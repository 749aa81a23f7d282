CONSTANTS
  Clusters = {1, 2}
  ZoneHosts = {1, 2, 3}
  Workloads = {1, 2, 3}
  ClusterOf <- MCClusterOf
  HostOf <- MCHostOf
  RoleOf <- MCRoleOf
  Zones = {"za", "zb", "zc"}
  NoZone = "none"
  Catalogs <- MCCatalogs
  FirstZoning <- MCFirstZoning
  FirstZone <- MCFirstZone
  FirstMembers <- MCFirstMembers
  SpareHosts = {3}
  MaxEdits = 1
  MaxPasses = 1
  MaxZoneRuns = 2
  u1 = u1
  u2 = u2
  u3 = u3
  t1 = t1
  t2 = t2
  Units = {u1, u2, u3}
  Windows = {1, 2, 3}
  UnitOf <- MCUnitOf
  UnitHost <- MCUnitHost
  UnitCluster <- MCUnitCluster
  DataUnits = {u1, u2}
  Sessions = {t1, t2}
  NoWindow = 0
  Batch = 9
  MainWiring = TRUE
  Loads = {1, 2}
  FirstLoads = {1}
  RepositoryOf <- MCRepositoryOf
  MasterLoads = {1}
  ElasticLoads = {1}
  MinMasters = 1
  Releases = {81, 91}
  FirstRelease = 81
  NoRelease = 0
  Images = {"i1"}
  NoImage = "no"
  FirstRegistry <- MCFirstRegistry
  FilebeatRepository = "kibana"
  MonitoredLoads = {1}
  MetricbeatRepository = "elasticsearch"
  Clients = {1}
  MaxVersionRuns = 2
  Moving <- MCMoving
  MaxEvents = 3
  MaxPlans = 1
CHECK_DEADLOCK FALSE
SPECIFICATION OperationsSpec
INVARIANT CompanionsSchedulable
