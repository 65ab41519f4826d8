SPECIFICATION FairSpec
CONSTANTS
  NoClient = NoClient
  NoCode = NoCode
  Handlers = {"h1", "h2"}
  Codes = {1, 2}
  Situations <- MCSituations
  LoginFailMax = 2
  MaxWrong = 2
  MaxExtra = 1
  MaxFaults = 1
INVARIANTS
  ClientsInv
PROPERTIES
  SettledClientIsKept
  RefusalLeavesRecord
  EventuallyConnected
