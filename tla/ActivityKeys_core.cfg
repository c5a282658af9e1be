SPECIFICATION Spec
CONSTANTS
  t1 = t1
  t2 = t2
  t3 = t3
  s1 = s1
  s2 = s2
  k1 = k1
  Tx <- ThreeWriters
  Subject <- TwoSubjects
  IdempotencyKey <- OneKey
  Instant <- TwoInstants
  Span = 1
  Erasable <- Nobody
  PurgeBound <- PurgeEither
  NoEvent = NoEvent
INVARIANTS
  TypeOK
PROPERTIES
  NothingLost
  DedupSpec
