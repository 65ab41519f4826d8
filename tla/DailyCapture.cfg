SPECIFICATION Spec
CONSTANTS
  w1 = w1
  w2 = w2
  d1 = d1
  d2 = d2
  NoManifest = NoManifest
  NoRows = NoRows
  Workers = {w1, w2}
  Isolate <- OneIsolate
  Layers <- MCLayers
  Allowed <- MCAllowed
  MaxAttempts = 2
  Datasets = {d1, d2}
  Compact <- MCCompact
  Legacy <- MCLegacy
  MaxCheckpoint = 2
  MaxUnits = 1
  MaxOverrides = 2
  MaxFaults = 0
SYMMETRY OneToAnother
INVARIANTS
  CaptureInv
  AttemptsAreBounded
PROPERTIES
  DataIsKept
  IndexProgressKept
