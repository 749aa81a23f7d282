SPECIFICATION Spec
CONSTANTS
  Hosts <- MCHosts
  Clusters <- MCClusters
  Assignments <- MCAssignments
  HostOf <- MCHostOf
  ClusterOf <- MCClusterOf
  RoleOf <- MCRoleOf
  Requests <- MCRequests
  Policies <- MCPolicies
  FirstPolicy <- MCFirstPolicy
  Provider <- MCProvider
  ShutdownEnabled = FALSE
  StartsDown = {{}, {3}}
  MaxNow = 2
  MaxChanges = 1
INVARIANTS
  AvailabilityKept
  EvidenceObserved
  StartedAsPlanned
  AnswerTruthful
