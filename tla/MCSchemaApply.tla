--------------------------- MODULE MCSchemaApply ---------------------------
(* A schema of one statement of every shape the executor tells apart, and   *)
(* the databases it may find.                                               *)
EXTENDS SchemaApply, TLC

CONSTANTS trgm, jobs, index, oldKey,      \* main list
          vector, embeddings, embeddingsIndex,    \* vector objects
          role, embeddingGrant, similarGrant,
          noTable

Statement(makes, needs, table) ==
  [makes |-> {makes}, needs |-> needs, table |-> table,
   drops |-> {}, when |-> {}, probed |-> FALSE, cluster |-> FALSE]
Probed(s) == [s EXCEPT !.probed = TRUE]
Cluster(s) == [s EXCEPT !.cluster = TRUE]
\* A migration that finds the old key drops it and the index built on it.
Migration ==
  [makes |-> {}, needs |-> {}, table |-> jobs, drops |-> {oldKey, index},
   when |-> {oldKey}, probed |-> FALSE, cluster |-> FALSE]

AllObjects == {trgm, jobs, index, oldKey, vector, embeddings,
               embeddingsIndex, role, embeddingGrant, similarGrant}
Tables == {jobs, embeddings}

MainList == << Cluster(Statement(trgm, {}, noTable)),
               Statement(jobs, {}, noTable),
               Migration,
               Probed(Statement(index, {jobs}, jobs)) >>
VectorList == << Cluster(Statement(vector, {}, noTable)),
                 Statement(embeddings, {vector}, noTable),
                 Statement(embeddingsIndex, {embeddings}, embeddings) >>
RoleList == << Cluster(Statement(role, {}, noTable)) >>
EmbeddingGrants == << Statement(embeddingGrant, {role, embeddings}, noTable) >>
SimilarGrants == << Statement(similarGrant, {role, jobs}, noTable) >>

\* An administrator's connection, one without privileges, and a shared server.
Typical ==
  {g \in Gates : \/ ~g.preprovisioned /\ g.available /\ g.superuser
                                    /\ g.createrole
                 \/ ~g.superuser /\ ~g.createrole /\ g.available}

\* Nothing; an earlier schema whose index hangs on the old key; what an
\* administrator provisions, without pgvector, and with and without its table.
Databases == { {}, {trgm, jobs, oldKey, index},
               {trgm, role}, {trgm, vector, role}, {trgm, jobs, vector, embeddings, role} }
=============================================================================
