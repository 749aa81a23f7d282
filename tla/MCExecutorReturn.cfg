SPECIFICATION FairSpec
CONSTANTS
  Units <- McUnits
  Clusters <- McClusters
  MaxBoots = 3
INVARIANTS
  ExecutorInvariant
PROPERTIES
  EvidenceFinal
  ExecutorReports
