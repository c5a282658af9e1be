---------------------------- MODULE MCPathfinder ----------------------------
(* A small instance of Pathfinder: two artists and a genre on two releases. *)
EXTENDS Pathfinder

CONSTANTS a1, a2, g1, r1, r2

FiveVertices == {a1, a2, g1, r1, r2}
ArtistsAndGenre == {a1, a2, g1}
Catalog == {{r1, a1}, {r1, a2}, {r1, g1}, {r2, a1}, {r2, g1}, {a1, a2}}
TwoArtists == {a1, a2}
SomeDepths == {0, 3, Null}
SomeHops == {1, Null}
SomeLimits == {0, 1, 2}
=============================================================================
