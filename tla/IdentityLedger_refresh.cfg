SPECIFICATION FairSpec
CONSTANTS
  r1 = r1
  r2 = r2
  w1 = w1
  w2 = w2
  k1 = k1
  m1 = m1
  Releases <- TwoReleases
  Works <- TwoWorks
  Keys <- OneKey
  Masters <- OneMaster
  NoItem = NoItem
  NoMaster = NoMaster
  Loaded <- HeldOrNot
  Large = 3
  MaxChanges = 2
  MaxFails = 1
INVARIANTS
  TypeOK
  DifferencesArePending
  DensityAddsUp
  NoUniqueViolation
  TablesAgree
PROPERTIES
  CatchesUp
