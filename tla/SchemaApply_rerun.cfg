SPECIFICATION FairSpec
CONSTANTS
  trgm = trgm
  jobs = jobs
  index = index
  oldKey = oldKey
  vector = vector
  embeddings = embeddings
  embeddingsIndex = embeddingsIndex
  role = role
  embeddingGrant = embeddingGrant
  similarGrant = similarGrant
  noTable = noTable
  Object <- AllObjects
  Table <- Tables
  NoTable = noTable
  Main <- MainList
  VectorStatements <- VectorList
  RoleStatements <- RoleList
  EmbeddingGrant <- EmbeddingGrants
  SimilarityGrants <- SimilarGrants
  VectorExtension = vector
  PipelineRole = role
  Lockable <- Tables
  Attempts = 2
  Environment <- Typical
  Faulty = TRUE
  Before <- Databases
INVARIANTS
  TypeOK
  CountsTellTheTruth
PROPERTIES
  WaitsEnd
  Converges
