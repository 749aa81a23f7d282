SPECIFICATION PollingSpec
CONSTANTS
  r1 = r1
  r2 = r2
  m1 = m1
  h1 = h1
  h2 = h2
  c1 = c1
  x1 = x1
  x2 = x2
  x3 = x3
  t1 = t1
  t2 = t2
  k1 = k1
  k2 = k2
  k3 = k3
  k4 = k4
  NoPlan = NoPlan
  NoToken = NoToken
  Plans <- SameHost
  Tickets <- TwoTickets
  Hosts <- MCHosts
  Kind <- MCKind
  Target <- MCTarget
  Scopes <- MCScopes
  Requests <- MCRequests
  Covers <- MCCovers
  Recovery <- MCRecovery
  Tokens <- MCTokens
  Actions <- AllActions
  CompleteEvidence <- NoEvidence
  LockTTL = 2
  ManualTTL = 2
  MaxAge = 1
  PlanTTL = 2
  MaxNow = 3
INVARIANTS
  ClosedRunMatchesPlan
  HostRowMatchesPlan
PROPERTIES
  TerminalIsFinal
  ExpiryProtects
