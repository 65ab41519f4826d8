SPECIFICATION FairSpec
CONSTANTS
  NoState = NoState
  Workers = {"w1", "w2"}
  Anchor = 5
  Target = 1
  Month <- MCMonth
  Trading = {1, 3, 4, 5}
  Prefixes = {1, 2}
  MaxPrefixes = 2
  MaxFinalize = 1
  Starts <- MCStarts
  MaxFaults = 1
INVARIANTS
  HistoryInv
  HandledAboveCursor
  CompleteIsWhole
PROPERTIES
  BootstrapCompletes
