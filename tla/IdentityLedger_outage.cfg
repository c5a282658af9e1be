SPECIFICATION OutageSpec
CONSTANTS
  r1 = r1
  r2 = r2
  w1 = w1
  w2 = w2
  k1 = k1
  m1 = m1
  Releases <- TwoReleases
  Works <- TwoWorks
  Keys <- OneKey
  Masters <- OneMaster
  NoItem = NoItem
  NoMaster = NoMaster
  Loaded <- HeldOrNot
  Large = 3
  MaxChanges = 1
  MaxFails = 0
PROPERTIES
  NeverAnswersStale
