SPECIFICATION Spec
CONSTANTS
  p1 = p1
  p2 = p2
  h1 = h1
  h2 = h2
  c1 = c1
  c2 = c2
  a1 = a1
  a2 = a2
  a3 = a3
  a4 = a4
  t1 = t1
  t2 = t2
  NoPlan = NoPlan
  NoItem = NoItem
  Plans <- BothPlans
  Requests <- TwoRequests
  RebootPlans <- SecondPlan
  Hosts <- MCHosts
  Clusters <- MCClusters
  Assignments <- MCAssignments
  Target <- MCTarget
  HostOf <- MCHostOf
  ClusterOf <- MCClusterOf
  Role <- MCRole
SYMMETRY Sym
INVARIANTS
  EffectsRecorded
  CapturedIsOriginal
  RebootOnlyStopped
  DependentsStopFirst
PROPERTIES
  ClaimReleasedRunning
