------------------------------ MODULE GraphFill ------------------------------
(***************************************************************************)
(* The three functions that write graph tables - bootstrap_fill(),         *)
(* refresh_artist_member_of() and refresh_vertex_degree() - beside the     *)
(* loaders that own them.  A call is one transaction: for each relation it *)
(* rebuilds, a TRUNCATE, which waits for everybody off the table and keeps *)
(* them off until the end, and an INSERT, which sees what is committed     *)
(* when it starts.  Any statement may fail, and the call with it.          *)
(*                                                                         *)
(* The loader is not part of this repository.  It is what docs/            *)
(* architecture.md says of it: a document and its rows in one transaction, *)
(* rows inserted under ON CONFLICT DO NOTHING, a document's edges withdrawn *)
(* with it, vertices kept; counters and the two derived relations left to  *)
(* the refresh.                                                            *)
(***************************************************************************)
EXTENDS GraphTables

CONSTANTS
  Catalogs,            \* the states the documents may be in, by name
  Revisions,           \* the pairs of them that one loader transaction leads between
  Starts,              \* the pairs <<of the documents, of the stale tables>> to begin with
  MaxCalls             \* bound: calls of each session

ASSUME CatalogAssumption ==
  /\ Revisions \subseteq (DOMAIN Catalogs) \X (DOMAIN Catalogs)
  /\ Starts \subseteq (DOMAIN Catalogs) \X (DOMAIN Catalogs \cup {Null})
  /\ MaxCalls \in Nat
\* A catalog has its parts, its documents are JSON, and an external id has at most one open
\* alias (a unique index).
WellFormed(db) ==
  /\ {"releases", "media", "masters", "artists", "labels", "mb", "relationships", "aliases",
      "collections", "wantlists"} = DOMAIN db
  /\ \A id \in DOMAIN db.releases : db.releases[id] \in Json /\ db.media[id] \in Json
  /\ \A id \in DOMAIN db.masters : db.masters[id] \in Json
  /\ \A id \in DOMAIN db.artists : db.artists[id] \in Json
  /\ \A mbid \in DOMAIN db.mb["release"] : db.mb["release"][mbid].media \in Json
  /\ \A a, b \in db.aliases :
       /\ a.open /\ b.open
       /\ <<a.provider, a.kind, a.external_id>> = <<b.provider, b.kind, b.external_id>>
       => a.native_id = b.native_id
ASSUME DocumentAssumption == \A c \in DOMAIN Catalogs : WellFormed(Catalogs[c])

VARIABLES
  now,        \* which catalog is committed
  graph,      \* the committed tables
  call,       \* per session: what it runs
  step,       \* how many of the call's relations are rebuilt
  emptied,    \* has the next relation been truncated?
  mine,       \* the tables as the call has rewritten them: its ACCESS EXCLUSIVE locks
  reading,    \* the tables it has read: its ACCESS SHARE locks
  writing,    \* the tables it has written rows to: its ROW EXCLUSIVE locks
  calls,      \* calls started
  raised,     \* why the last INSERT to raise did, or "none"
  filled      \* has a fill committed?

vars == <<now, graph, call, step, emptied, mine, reading, writing, calls, raised, filled>>

Sessions == {"operator", "refresher", "loader"}
Documents == Catalogs[now]
Idle == [kind |-> "idle"]
Programs(kind) ==
  CASE kind = "bootstrap_fill" -> BootstrapFillOrder
    [] kind = "refresh_artist_member_of" -> <<"artist_member_of">>
    [] kind = "refresh_vertex_degree" -> <<"vertex_degree">>
    [] OTHER -> <<>>
Program(s) == Programs(call[s].kind)
Target(s) == Program(s)[step[s] + 1]
View(s) == Over(mine[s], graph)

\* The tables a refresh reads beside its own; those a fill reads it has rebuilt.
Sources(relation) ==
  CASE relation = "artist_member_of" -> {"member_of"}
    [] relation = "vertex_degree" -> {p[1] : p \in PathRelations}
    [] OTHER -> {}

(* ---- the loader's transaction ---- *)
DocumentRelations == DOMAIN VertexKeys \cup DOMAIN DocumentEdgeKeys \cup DOMAIN CreditEdgeKeys
\* What the catalog says of a release: its document, its media, and its media in MusicBrainz.
Release(db, id) ==
  <<db.releases[id], db.media[id], {<<m, db.mb["release"][m]>> :
     m \in {x \in DOMAIN db.mb["release"] : db.mb["release"][x].discogs = id}}>>
Fresh(documents, others) ==
  Restrict(documents, {i \in DOMAIN documents : i \notin DOMAIN others \/ documents[i] # others[i]})
\* The catalog of the documents that are not, or not so, in another one.
Only(catalog, other) ==
  LET c == Catalogs[catalog]  o == Catalogs[other]
      news == {i \in DOMAIN c.releases : i \notin DOMAIN o.releases \/ Release(c, i) # Release(o, i)}
  IN [c EXCEPT !.releases = Restrict(@, news), !.masters = Fresh(@, o.masters), !.artists = Fresh(@, o.artists)]
Rows(relation, catalog, other) == Body(relation, Only(catalog, other), <<>>)
Withdrawn(relation, from, to) ==
  IF relation \in DOMAIN VertexKeys THEN {}
  ELSE KeysOf(relation, Rows(relation, from, to)) \ KeysOf(relation, Body(relation, Catalogs[to], <<>>))
Touched == [r \in Revisions |->
  {t \in DocumentRelations : Rows(t, r[2], r[1]) # {} \/ Withdrawn(t, r[1], r[2]) # {}}]
Written(relation, from, to) ==
  LET kept == {r \in graph[relation] : Key(relation, r) \notin Withdrawn(relation, from, to)}
  IN kept \cup {r \in Rows(relation, to, from) : Key(relation, r) \notin KeysOf(relation, kept)}

\* Where a table stands in the order of the fill, and the table a loader writes next: the first
\* or the last of those it has left.
Rank(relation) == CHOOSE i \in DOMAIN BootstrapFillOrder : BootstrapFillOrder[i] = relation
NextTables(c) ==
  {t \in c.left : \A u \in c.left : IF c.backwards THEN Rank(u) <= Rank(t) ELSE Rank(t) <= Rank(u)}

(* ---- locks ---- *)
\* The tables s holds in a mode that keeps a TRUNCATE, or a reader or writer, off.
KeepsAllOff(s) == DOMAIN mine[s]
Holds(s) == KeepsAllOff(s) \cup reading[s] \cup writing[s]
\* The next statement of s wants a table that t holds in a conflicting mode.
WaitsFor(s, t) ==
  /\ s # t
  /\ \/ call[s].kind = "revise" /\ NextTables(call[s]) \cap KeepsAllOff(t) # {}
     \/ Program(s) # <<>> /\ step[s] < Len(Program(s))
          /\ IF emptied[s] THEN Sources(Target(s)) \cap KeepsAllOff(t) # {} ELSE Target(s) \in Holds(t)
Waits(s) == \E t \in Sessions : WaitsFor(s, t)
Deadlocked(s) == \E t \in Sessions : WaitsFor(s, t) /\ WaitsFor(t, s)

EmptyGraph == [r \in Relations |-> {}]
\* The tables a fill alone on this catalog would leave: those of the documents, the one that
\* is derived from them, and the counters of all these.
Projection(catalog) ==
  LET db == Catalogs[catalog]
      stated == [r \in Relations |-> IF r \in DocumentRelations THEN Body(r, db, EmptyGraph) ELSE {}]
      edges == [stated EXCEPT !["artist_member_of"] = Body("artist_member_of", db, stated)]
  IN [r \in Relations |-> IF r \in DOMAIN CounterKeys THEN Body(r, db, edges) ELSE edges[r]]
Projections == [c \in DOMAIN Catalogs |-> Projection(c)]

Init ==
  /\ \E start \in Starts :
       /\ now = start[1]
       /\ graph = IF start[2] = Null THEN EmptyGraph ELSE Projections[start[2]]
  /\ call = [s \in Sessions |-> Idle]
  /\ step = [s \in Sessions |-> 0] /\ emptied = [s \in Sessions |-> FALSE]
  /\ mine = [s \in Sessions |-> <<>>]
  /\ reading = [s \in Sessions |-> {}] /\ writing = [s \in Sessions |-> {}]
  /\ calls = [s \in Sessions |-> 0]
  /\ raised = "none" /\ filled = FALSE

Begin(s, c) ==
  /\ call[s] = Idle /\ calls[s] < MaxCalls
  /\ call' = [call EXCEPT ![s] = c]
  /\ calls' = [calls EXCEPT ![s] = @ + 1]
  /\ UNCHANGED <<now, graph, step, emptied, mine, reading, writing, raised, filled>>
Fill == Begin("operator", [kind |-> "bootstrap_fill"])
Refresh == \E k \in {"refresh_artist_member_of", "refresh_vertex_degree"} : Begin("refresher", [kind |-> k])
\* The order a loader writes its tables in is its own: that of the fill, or the reverse.
Revise == \E to \in DOMAIN Catalogs :
  /\ <<now, to>> \in Revisions
  /\ \E backwards \in BOOLEAN :
       Begin("loader", [kind |-> "revise", to |-> to, left |-> Touched[<<now, to>>], backwards |-> backwards])

\* Mutant: the tables read stay locked.
EndStillReading(s) ==
  /\ call' = [call EXCEPT ![s] = Idle]
  /\ step' = [step EXCEPT ![s] = 0] /\ emptied' = [emptied EXCEPT ![s] = FALSE]
  /\ mine' = [mine EXCEPT ![s] = <<>>]
  /\ writing' = [writing EXCEPT ![s] = {}]
  /\ UNCHANGED <<calls, reading>>
\* The end of a transaction: every lock goes.
End(s) ==
  /\ call' = [call EXCEPT ![s] = Idle]
  /\ step' = [step EXCEPT ![s] = 0] /\ emptied' = [emptied EXCEPT ![s] = FALSE]
  /\ mine' = [mine EXCEPT ![s] = <<>>]
  /\ reading' = [reading EXCEPT ![s] = {}] /\ writing' = [writing EXCEPT ![s] = {}]
  /\ UNCHANGED calls
Rollback(s) == End(s) /\ UNCHANGED <<now, graph, filled>>

\* The call has its next table to itself, with these rows.
Rewrite(s, rows) ==
  mine' = [mine EXCEPT ![s] = [r \in DOMAIN mine[s] \cup {Target(s)} |-> IF r = Target(s) THEN rows ELSE mine[s][r]]]
\* Mutant: an upsert, under which rows the documents no longer state survive.
TruncateNothing(s) ==
  /\ Rewrite(s, graph[Target(s)])
  /\ emptied' = [emptied EXCEPT ![s] = TRUE]
  /\ UNCHANGED <<now, graph, call, step, reading, writing, calls, raised, filled>>
Truncate(s) ==
  /\ Rewrite(s, {})
  /\ emptied' = [emptied EXCEPT ![s] = TRUE]
  /\ UNCHANGED <<now, graph, call, step, reading, writing, calls, raised, filled>>
Insert(s) ==
  LET r == Target(s)  rows == Body(r, Documents, View(s))
      why == IF Duplicates(r, Documents, rows) THEN "duplicate"
             ELSE IF Overflows(r, Documents, View(s)) THEN "year" ELSE "none"
  IN IF why # "none" THEN Rollback(s) /\ raised' = why
     ELSE /\ Rewrite(s, mine[s][r] \cup rows)
          /\ step' = [step EXCEPT ![s] = @ + 1] /\ emptied' = [emptied EXCEPT ![s] = FALSE]
          /\ reading' = [reading EXCEPT ![s] = @ \cup Sources(r)]
          /\ UNCHANGED <<now, graph, call, writing, calls, raised, filled>>
\* Mutant: the table is emptied by DELETE, which waits for no writer.
StatementDeleting(s) ==
  /\ step[s] < Len(Program(s)) /\ (emptied[s] => ~Waits(s))
  /\ IF emptied[s] THEN Insert(s) ELSE Truncate(s)
Statement(s) ==
  /\ step[s] < Len(Program(s)) /\ ~Waits(s)
  /\ IF emptied[s] THEN Insert(s) ELSE Truncate(s)
Commit(s) ==
  /\ Program(s) # <<>> /\ step[s] = Len(Program(s))
  /\ graph' = View(s)
  /\ filled' = (filled \/ call[s].kind = "bootstrap_fill")
  /\ End(s) /\ UNCHANGED <<now, raised>>

WriteRows(s) ==
  /\ call[s].kind = "revise" /\ ~Waits(s)
  /\ \E t \in NextTables(call[s]) :
       /\ call' = [call EXCEPT ![s].left = @ \ {t}]
       /\ writing' = [writing EXCEPT ![s] = @ \cup {t}]
  /\ UNCHANGED <<now, graph, step, emptied, mine, reading, calls, raised, filled>>
CommitRows(s) ==
  /\ call[s].kind = "revise" /\ call[s].left = {}
  /\ graph' = [r \in Relations |-> IF r \in writing[s] THEN Written(r, now, call[s].to) ELSE graph[r]]
  /\ now' = call[s].to
  /\ End(s) /\ UNCHANGED <<raised, filled>>

\* A statement fails, is cancelled, or is the one a deadlock picks.
Fail(s) == call[s] # Idle /\ Rollback(s) /\ UNCHANGED raised

Next ==
  \/ Fill \/ Refresh \/ Revise
  \/ \E s \in Sessions : Statement(s) \/ Commit(s) \/ WriteRows(s) \/ CommitRows(s) \/ Fail(s)

Spec == Init /\ [][Next]_vars
\* Weak fairness of each session's next step, with its ENABLED written out (TLC would compute
\* every body again to find it): a session whose statement does not wait, or waits in a
\* deadlock, which PostgreSQL breaks, goes on or is rolled back.
Ready(s) == call[s] # Idle /\ (~Waits(s) \/ Deadlocked(s))
Goes(s) == <<call[s], step[s], emptied[s], writing[s]>>' # <<call[s], step[s], emptied[s], writing[s]>>
FairSpec == Spec /\ \A s \in Sessions : <>[]Ready(s) => []<><<Goes(s)>>_vars

(* ---- properties ---- *)
\* Every table holds at most one row of a key, in the committed state and in every call's
\* own; what a call holds, no other session holds in a conflicting mode.
TypeOK ==
  /\ now \in DOMAIN Catalogs /\ raised \in {"none", "duplicate", "year"}
  /\ \A s \in Sessions : step[s] \in 0..Len(Program(s)) /\ calls[s] \in 0..MaxCalls
  /\ \A r \in Relations :
       /\ Unique(r, graph[r])
       /\ \A s \in Sessions : r \in DOMAIN mine[s] =>
            /\ Unique(r, mine[s][r])
            /\ \A t \in Sessions \ {s} : r \notin Holds(t)

\* "The relation is exactly the projection of the documents present" (_bootstrap_fill_step):
\* whatever loaders commit while a fill runs, and after it, from then on each edge table holds
\* the edges the committed documents state and no other, and each vertex table at least the
\* vertices they state (a loader withdraws an edge, never a vertex, so one may be left over).
GraphIsProjection == filled =>
  /\ \A r \in DOMAIN DocumentEdgeKeys \cup DOMAIN CreditEdgeKeys :
       KeysOf(r, graph[r]) = KeysOf(r, Projections[now][r])
  /\ \A r \in DOMAIN VertexKeys : KeysOf(r, Projections[now][r]) \subseteq KeysOf(r, graph[r])

\* The counters a fill commits are those of the edges it commits, read another way: every edge
\* counts at both ends and nowhere else, pairs counted from either side agree, and a release's
\* degree is its catalog edges and the collection and wantlist rows that resolve to it.  Only a
\* label document committed after its counters were computed, which no lock of a fill keeps out,
\* reads 0 beside the pairs its releases count in (postgres.py:4754-4768, 3350).
Column(rows, column) == MapThenSumSet(LAMBDA r : r[column], rows)
CountersAgree(g, db) ==
  /\ Column(g.vertex_degree, "degree") = 2 * MapThenSumSet(LAMBDA p : Cardinality(g[p[1]]), PathRelations)
  /\ Column(g.genre_stats, "style_count") = Column(g.style_stats, "genre_count")
  /\ Column(g.genre_stats, "artist_count") = Cardinality(g.artist_genre)
  /\ Column(g.genre_stats, "label_count") = Cardinality(g.label_genre)
  /\ \A v \in LabelVertex(db, g) :
       v.genre_count = IF v.label_id \in {s.label_id : s \in g.label_stats}
                       THEN Cardinality({r \in g.label_genre : r.label_id = v.label_id}) ELSE 0
  /\ \A v \in ArtistVertex(db, g) :
       v.degree = Cardinality({r \in g.by_artist \cup g.master_by_artist \cup g.same_as : r.artist_id = v.artist_id})
                + Cardinality({r \in g.member_of : r.member_artist_id = v.artist_id})
                + Cardinality({r \in g.member_of : r.group_artist_id = v.artist_id})
                + Cardinality({r \in g.alias_of : r.alias_artist_id = v.artist_id})
                + Cardinality({r \in g.alias_of : r.artist_id = v.artist_id})
  /\ \A v \in GenreVertex(g) \cup StyleVertex(g) : v.first_year # Null => v.first_year > 0 /\ v.release_count > 0
  /\ \A r \in ReleaseDegree(db, g) :
       r.degree = MapThenSumSet(LAMBDA end : Cardinality({e \in g[end[1]] : e.release_id = r.release_id}), ReleaseEnds)
                + Cardinality({c \in Collected(db) : c.release_id = r.release_id})
                + Cardinality({w \in Wants(db) : w.release_id = r.release_id})
FillCommits == call["operator"].kind = "bootstrap_fill" /\ Commit("operator")
CountersExact == [][FillCommits => CountersAgree(graph', Documents')]_vars

\* No edge names a genre, style, person, company, medium or family whose vertex is not there:
\* neither an edge table, whoever wrote it, nor a view over the tables, in any committed state.
Resolve(edges, column, vertices, key) == \A e \in edges : \E v \in vertices : v[key] = e[column]
EdgesResolve ==
  /\ Resolve(graph.in_genre \cup graph.master_in_genre, "genre_name", graph.genre, "name")
  /\ Resolve(graph.in_style \cup graph.master_in_style, "style_name", graph.style, "name")
  /\ Resolve(graph.credited_on \cup graph.same_as \cup graph.track_credited_on, "person_name", graph.person, "name")
  /\ Resolve(graph.credited_to, "company_id", graph.company, "company_id")
  /\ Resolve(graph.issued_on, "medium_id", graph.medium, "medium_id")
  /\ Resolve(graph.medium, "medium_id", InFamily(graph), "medium_id")
  /\ \A r \in Releases(Documents) : filled =>
       {e.genre_name : e \in {x \in graph.in_genre : x.release_id = r.release_id}}
         = {r.genres[i] : i \in DOMAIN r.genres} \ {Null, ""}

\* "Nothing names a conflict target because nothing can conflict: every body is unique on its
\* table's key" (_bootstrap_fill_step).  An INSERT raises only on a year that is no integer,
\* and then only where a document has one.
InsertsNeverConflict ==
  /\ raised # "duplicate"
  /\ raised = "year" => \E c \in DOMAIN Catalogs : \E id \in DOMAIN Catalogs[c].releases :
       LET year == Trimmed(GetText(Catalogs[c].releases[id], "year"))
       IN year \in DOMAIN Number /\ Number[year] > MaxInteger

\* Fills, refreshes and loaders that lock the same tables in different orders all come to an
\* end: each call commits or is rolled back.
CallsEnd == \A s \in Sessions : (call[s] # Idle) ~> (call[s] = Idle)
==============================================================================
