SPECIFICATION FairSpec
CONSTANTS
  Lanes = {"daily", "history"}
  Target <- MCTarget
  Selected <- MCSelected
  Today = 2
  Exact = {"institutional"}
  Lending = {"sbl_balance"}
  Undated = {"legacy"}
  Reachable = TRUE
  MaxVersion = 2
  MaxFaults = 1
INVARIANTS
  TransportInv
  ExactRowsAreOfTheDay
PROPERTIES
  RelayIsMonotonic
  ExactLayersAreReady
