SPECIFICATION FairSpec
CONSTANTS
  a1 = a1
  a2 = a2
  g1 = g1
  r1 = r1
  r2 = r2
  Vertex <- FiveVertices
  Listed <- ArtistsAndGenre
  Edge <- Catalog
  Asked <- TwoArtists
  Depths <- SomeDepths
  Hops <- SomeHops
  Limits <- SomeLimits
  Null = Null
  MaxChanges = 1
INVARIANTS
  TypeOK
  AnswerExact
PROPERTIES
  CallsEnd
