SPECIFICATION FairSpec
CONSTANTS
  c1 = c1
  c2 = c2
  index = index
  state = state
  record = record
  NoJob = NoJob
  Callers = {c1, c2}
  Paths <- MCPaths
  Jobs <- MCJobs
  Kind <- MCKind
  Targets <- MCTargets
  Value <- MCValue
  Retries <- MCRetries
  MaxCalls = 3
  MaxFaults = 1
PROPERTIES
  EveryCallReturns
  Implements
  RecordsImmutable
INVARIANTS
  NoLostUpdate
  AllOrNothing
  ExhaustionMeansContention
  IInv
