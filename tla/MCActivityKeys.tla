--------------------------- MODULE MCActivityKeys ---------------------------
(* Small instances of ActivityKeys: two partitions of one instant each, so  *)
(* a retry may repeat its instant or land in the other partition.           *)
EXTENDS ActivityKeys, TLC

CONSTANTS t1, t2, t3, s1, s2, k1

ThreeWriters == {t1, t2, t3}
TwoWriters == {t1, t2}
TwoSubjects == {s1, s2}
OneKey == {k1}
TwoInstants == {0, 1}
Nobody == {}
FirstSubject == {s1}
PurgeAll == {2}
PurgeEither == {1, 2}
=============================================================================
