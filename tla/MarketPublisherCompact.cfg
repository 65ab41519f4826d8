SPECIFICATION FairSpec
CONSTANTS
  w1 = w1
  w2 = w2
  NoPin = NoPin
  NoManifest = NoManifest
  Workers = {w1, w2}
  Days <- OneDay
  Compact <- MCCompact
  Legacy <- MCLegacy
  Index <- CompactDay
  MaxFaults = 0
  MaxDamage = 0
  MaxRewrites = 0
PROPERTIES
  CompactGetsPublished
