SPECIFICATION Spec
CONSTANTS
  Slots <- McSlots
  Role <- McRole
  Rank <- McRank
  Configs <- McConfigs
  ChangeSets <- McChangeSets
  Direct <- McDirect
  MaxRuns = 2
  MaxId = 3
PROPERTIES AppliedAsRequested
