SPECIFICATION Spec
CONSTANTS
  c1 = c1
  c2 = c2
  Clusters <- TwoClusters
  MaxAttempts = 2
  MaxReboots = 2
  Reopens = TRUE
SYMMETRY Sym
INVARIANTS
  AtMostOneInvocation
  ReturnVerified
  GuardsKept
