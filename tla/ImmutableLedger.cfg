SPECIFICATION Spec
CONSTANTS
  c1 = c1
  c2 = c2
  c3 = c3
  event = event
  signal = signal
  h1 = h1
  h2 = h2
  NoKey = NoKey
  NoRecord = NoRecord
  Callers = {c1, c2}
  Keys <- MCKeys
  Hashes = {h1, h2}
  Parent <- MCParent
  Retries = 2
  MaxCalls = 3
  MaxFaults = 1
INVARIANTS
  LedgerInv
  UnlistedIsUnfinished
  ReferencesResolve
