--------------------------- MODULE MCVersionIndex ---------------------------
(* One operator at a table of two model versions.                           *)
EXTENDS VersionIndex, TLC

CONSTANTS o1, v1, v2

OneOperator == {o1}
TwoVersions == {v1, v2}
AnythingFails == {"statement", "cleanup", "cancel"}
=============================================================================
