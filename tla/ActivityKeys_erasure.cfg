SPECIFICATION FairSpec
CONSTANTS
  t1 = t1
  t2 = t2
  t3 = t3
  s1 = s1
  s2 = s2
  k1 = k1
  Tx <- TwoWriters
  Subject <- TwoSubjects
  IdempotencyKey <- OneKey
  Instant <- TwoInstants
  Span = 1
  Erasable <- FirstSubject
  PurgeBound <- PurgeAll
  NoEvent = NoEvent
INVARIANTS
  KeyNamesStored
PROPERTIES
  ErasureExact
  EveryoneSettles
