SPECIFICATION FairSpec
CONSTANTS
  c1 = c1
  c2 = c2
  i1 = i1
  i2 = i2
  v1 = v1
  v2 = v2
  dumpA = dumpA
  a1 = a1
  None = None
  Caller <- TwoCallers
  Id <- TwoIds
  Version <- TwoVersions
  Lineage <- OneLineage
  K <- TwoLimits
  Artist <- OneArtist
  Length <- OneLength
INVARIANTS
  TypeOK
  ListsWithinK
PROPERTIES
  FlipIsAtomic
  EveryCallEnds
