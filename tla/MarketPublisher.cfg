SPECIFICATION Spec
CONSTANTS
  w1 = w1
  w2 = w2
  NoPin = NoPin
  NoManifest = NoManifest
  Workers = {w1, w2}
  Days <- TwoDays
  Compact <- MCCompact
  Legacy <- MCLegacy
  Index <- LegacyDays
  MaxFaults = 1
  MaxDamage = 1
  MaxRewrites = 1
SYMMETRY OneToAnother
INVARIANTS
  PublisherInv
  PointerResolves
  PinnedRowsAreCanonical
PROPERTIES
  PublishedIsKept
