--------------------------- MODULE MCInitializer ---------------------------
(* Two deployments that may overlap, on schemas of two and one statements.  *)
EXTENDS Initializer, TLC

CONSTANTS p1, p2

TwoProcesses == {p1, p2}
SmallSchemas == [s \in Store |-> IF s = "postgresql" THEN 2 ELSE 1]
Either == BOOLEAN
=============================================================================
