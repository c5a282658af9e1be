------------------------- MODULE MCEmbeddingRelease -------------------------
(* A small instance of EmbeddingRelease: two callers, room for two releases, *)
(* and a list that fits one limit and exceeds the other.                     *)
EXTENDS EmbeddingRelease

CONSTANTS c1, c2, i1, i2, v1, v2, dumpA, a1

TwoCallers == {c1, c2}
TwoIds == {i1, i2}
TwoVersions == {v1, v2}
OneLineage == {dumpA}
OneArtist == {a1}
TwoLimits == {1, 2}
OneLength == {2}
=============================================================================
