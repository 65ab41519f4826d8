SPECIFICATION FairSpec
CONSTANTS
  w1 = w1
  w2 = w2
  d1 = d1
  d2 = d2
  NoManifest = NoManifest
  NoRows = NoRows
  Workers = {w1, w2}
  Isolate <- TwoIsolates
  Layers <- MCLayers
  Allowed <- MCAllowed
  MaxAttempts = 2
  Datasets = {d1}
  Compact <- MCCompact
  Legacy <- MCLegacy
  MaxCheckpoint = 2
  MaxUnits = 2
  MaxOverrides = 0
  MaxFaults = 1
INVARIANTS
  CompleteDayIsIndexed
PROPERTIES
  CompleteGetsIndexed
