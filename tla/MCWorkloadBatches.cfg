SPECIFICATION FairSpec
CONSTANTS
  Slots <- McSlots
  Role <- McRole
  Rank <- McRank
  Configs <- McConfigs
  ChangeSets <- McChangeSets
  Direct <- McDirect
  MaxRuns = 2
  MaxId = 4
INVARIANTS
  BatchInvariant
PROPERTIES
  BatchOutcome
  BatchSettles
