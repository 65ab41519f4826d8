SPECIFICATION FairSpec
CONSTANTS
  w1 = w1
  w2 = w2
  NoPin = NoPin
  NoManifest = NoManifest
  Workers = {w1, w2}
  Days <- OneDay
  Compact <- MCCompact
  Legacy <- MCLegacy
  Index <- LegacyDay
  MaxFaults = 2
  MaxDamage = 0
  MaxRewrites = 2
PROPERTIES
  ReadyGetsPublished
