CONSTANTS
  x1 = x1
  x2 = x2
  k1 = k1
  k2 = k2
  Machines = {x1, x2}
  SshKeys = {k1, k2}
  NoKey = NoKey
  MaxNodeId = 2
  MaxRuns = 1
  Hosts = {"h1", "h2"}
  Roles = {"master", "kibana"}
  NoCert = NoCert
  Certs <- MCCerts
  CACerts <- MCCACerts
  Assigned <- MCAssigned
  MaxAssignment = 2
  Days = {7, 14, 60}
  Editors = {e1, e2}
  MaxRevision = 3
  MaxNow = 1
  MaxChanges = 1
  ExternalKinds = {"proxy"}
  Slots = {s1}
  RollingRestart = TRUE
  a1 = a1
  a2 = a2
  RowIds = {1}
  Addresses = {a1, a2}
  NoAddress = none
  FirstRoster <- MCFirstRoster
  MaxTime = 2
  MaxFaults = 2
  MaxRecords = 2
  MaxDeployments = 2
  MaxProviderRevision = 2
  MaxOutages = 1
SYMMETRY Sym
CHECK_DEADLOCK FALSE
SPECIFICATION ServicesSpec
INVARIANTS
  IdentityInvariant
  CertificateInvariant
  HostTelemetryInvariant
  ClusterTelemetryInvariant
PROPERTIES
  ActivationCovers
  CertificateSteps
  LoopsKeepEachOther
  CollectorWrites
