----------------------------- MODULE GraphTables -----------------------------
(***************************************************************************)
(* The thirty-one graph tables: their keys, the body each is filled from,  *)
(* and the order graph.bootstrap_fill() fills them in.  A body is a set of *)
(* rows computed from the catalog db and from the tables g filled so far;  *)
(* what DISTINCT, UNION and GROUP BY collapse is collapsed by being a set, *)
(* and two rows that differ outside the key remain two.                    *)
(***************************************************************************)
EXTENDS GraphProjection, FiniteSetsExt

(* ---- keys ---- *)
VertexKeys ==
  [genre |-> {"name"}, style |-> {"name"}, person |-> {"name"}, media_family |-> {"name"},
   medium |-> {"medium_id"}, company |-> {"company_id"}]
DocumentEdgeKeys ==
  [by_artist |-> {"release_id", "artist_id"}, on_label |-> {"release_id", "label_id"},
   derived_from |-> {"release_id", "master_id"}, in_genre |-> {"release_id", "genre_name"},
   in_style |-> {"release_id", "style_name"}, master_by_artist |-> {"master_id", "artist_id"},
   master_in_genre |-> {"master_id", "genre_name"}, master_in_style |-> {"master_id", "style_name"},
   member_of |-> {"member_artist_id", "group_artist_id"}, alias_of |-> {"alias_artist_id", "artist_id"}]
CreditEdgeKeys ==
  [credited_on |-> {"release_id", "person_name", "role"}, same_as |-> {"artist_id", "person_name"},
   track_credited_on |-> {"release_id", "track_ordinal", "sub_track_ordinal", "person_name", "role"},
   track_by_artist |-> {"release_id", "track_ordinal", "sub_track_ordinal", "artist_id"},
   credited_to |-> {"release_id", "company_id", "role", "source"},
   issued_on |-> {"release_id", "medium_id", "source"}]
DerivedKeys == [artist_member_of |-> {"member_artist_id", "group_artist_id", "source"}]
CounterKeys ==
  [genre_stats |-> {"name"}, style_stats |-> {"name"}, label_stats |-> {"label_id"},
   artist_degree |-> {"artist_id"}, release_degree_base |-> {"release_id"},
   vertex_degree |-> {"kind", "key"}, artist_genre |-> {"artist_id", "genre_name"},
   label_genre |-> {"label_id", "genre_name"}]
KeyColumns == Over(VertexKeys, Over(DocumentEdgeKeys, Over(CreditEdgeKeys, Over(DerivedKeys, CounterKeys))))
Relations == DOMAIN KeyColumns
Key(relation, row) == Restrict(row, KeyColumns[relation])
KeysOf(relation, rows) == {Key(relation, r) : r \in rows}
Unique(relation, rows) == \A r, q \in rows : Key(relation, r) = Key(relation, q) => r = q

(* ---- vertices ---- *)
TagVertices(db, tags) == {[name |-> n] : n \in UNION {Tags(Get(doc, tags)) : doc \in TaggedDocuments(db)}}
\* Mutant: only release credits make a person.
PersonOfReleases(db) == {[name |-> c.person_name] : c \in CreditSource(db)}
Person(db) == {[name |-> c.person_name] : c \in CreditSource(db) \cup TrackCreditSource(db)}
MediaFamily(db) == {[name |-> m.family_name] : m \in MediaSource(db)}
\* Mutant: DISTINCT without ON, so a medium two providers file apart stays two rows.
MediumEachFamily(db) ==
  {[medium_id |-> m.medium_id, family |-> m.family_name, label |-> MediumLabel(m.medium_id)] :
     m \in MediaSource(db)}
Medium(db) ==
  {[medium_id |-> m.medium_id, family |-> m.family_name, label |-> MediumLabel(m.medium_id)] :
     m \in {x \in MediaSource(db) :
              \A y \in MediaSource(db) :
                y.medium_id = x.medium_id => Collate[x.family_name] <= Collate[y.family_name]}}
Named(c) == IF c.company_name = Null THEN c.company_id ELSE c.company_name
CompanyCredits(db) == {c \in CompanySource(db) : c.company_id # Null /\ c.role # Null}
Company(db) ==
  {[company_id |-> c.company_id, name |-> Named(c),
    discogs_label_id |-> IF c.company_id \in DOMAIN Number THEN c.company_id ELSE Null] :
     c \in {x \in CompanyCredits(db) :
              \A y \in CompanyCredits(db) :
                y.company_id = x.company_id => Collate[Named(x)] <= Collate[Named(y)]}}

(* ---- edges ---- *)
\* An edge to every usable id, or every tag, of an array of each document.
Ids(doc, array) == {Trimmed(GetText(e, "id")) : e \in {x \in Elements(Get(doc, array)) : UsableId(GetText(x, "id"))}}
Ends(source, x, target, y) == [column \in {source, target} |-> IF column = source THEN x ELSE y]
IdEdges(docs, source, array, target) ==
  UNION {{Ends(source, id, target, t) : t \in Ids(docs[id], array)} : id \in DOMAIN docs}
TagEdges(docs, source, array, target) ==
  UNION {{Ends(source, id, target, t) : t \in Tags(Get(docs[id], array))} : id \in DOMAIN docs}
DerivedFrom(db) ==
  {[release_id |-> id, master_id |-> Trimmed(GetText(db.releases[id], "master_id"))] :
     id \in {i \in DOMAIN db.releases : UsableId(GetText(db.releases[i], "master_id"))}}
MemberOf(db) == IdEdges(db.artists, "group_artist_id", "members", "member_artist_id")
                \cup IdEdges(db.artists, "member_artist_id", "groups", "group_artist_id")
CreditedOn(db) ==
  {[person_name |-> c.person_name, release_id |-> c.release_id, role |-> c.role,
    role_category |-> CreditRoleCategory(c.role)] : c \in CreditSource(db)}
SameAs(db) ==
  {[person_name |-> c.person_name, artist_id |-> c.artist_id] :
     c \in {x \in CreditSource(db) \cup TrackCreditSource(db) : UsableId(x.artist_id)}}
TrackCreditedOn(db) ==
  {[person_name |-> c.person_name, release_id |-> c.release_id, track_ordinal |-> c.track_ordinal,
    sub_track_ordinal |-> c.sub_track_ordinal, track_position |-> c.track_position, role |-> c.role,
    role_category |-> CreditRoleCategory(c.role)] : c \in TrackCreditSource(db)}
CreditedTo(db) ==
  {[release_id |-> c.release_id, company_id |-> c.company_id, role |-> c.role,
    role_category |-> c.role_category, source |-> "discogs"] :
     c \in {x \in CompanyCredits(db) :
              \A y \in CompanyCredits(db) :
                (y.release_id = x.release_id /\ y.company_id = x.company_id /\ y.role = x.role)
                  => x.entry_position <= y.entry_position}}
IssuedOn(db) ==
  LET Group(m) == {x \in MediaSource(db) : /\ x.release_id = m.release_id /\ x.medium_id = m.medium_id
                                           /\ x.provider = m.provider}
  IN {[release_id |-> m.release_id, medium_id |-> m.medium_id, source |-> m.provider,
       qty |-> MapThenSumSet(LAMBDA x : x.qty, Group(m))] : m \in MediaSource(db)}

ArtistMemberOf(db, g) ==
  LET discogs(mbid) == db.mb["artist"][mbid].discogs
  IN {Over(r, [source |-> "discogs"]) : r \in g.member_of}
     \cup {[member_artist_id |-> discogs(r.source_mbid), group_artist_id |-> discogs(r.target_mbid),
            source |-> "musicbrainz"] :
             r \in {x \in MbRel(db, "artist", "artist") :
                      /\ x.relationship_type = "MEMBER_OF"
                      /\ Null \notin {discogs(x.source_mbid), discogs(x.target_mbid)}
                      /\ discogs(x.source_mbid) # discogs(x.target_mbid)}}

(* ---- counters ---- *)
\* Rows of the other release edge that share a release with the rows of edge naming value.
Others(g, edge, column, value, other) ==
  {o \in g[other] : \E e \in g[edge] : e[column] = value /\ e.release_id = o.release_id}
Distinct(rows, column) == Cardinality({r[column] : r \in rows})

DatedYears(db, g, edge, column, tag) ==
  {Number[Trimmed(GetText(db.releases[e.release_id], "year"))] :
     e \in {x \in g[edge] : /\ x[column] = tag /\ x.release_id \in DOMAIN db.releases
                            /\ PositiveDecimal(Trimmed(GetText(db.releases[x.release_id], "year")))}}
FirstYear(db, g, edge, column, tag) ==
  LET years == DatedYears(db, g, edge, column, tag) IN IF years = {} THEN Null ELSE Min(years)

GenreStats(db, g) ==
  {[name |-> n.name, release_count |-> Cardinality({e \in g.in_genre : e.genre_name = n.name}),
    artist_count |-> Distinct(Others(g, "in_genre", "genre_name", n.name, "by_artist"), "artist_id"),
    label_count |-> Distinct(Others(g, "in_genre", "genre_name", n.name, "on_label"), "label_id"),
    style_count |-> Distinct(Others(g, "in_genre", "genre_name", n.name, "in_style"), "style_name"),
    first_year |-> FirstYear(db, g, "in_genre", "genre_name", n.name)] : n \in g.genre}
StyleStats(db, g) ==
  {[name |-> n.name, release_count |-> Cardinality({e \in g.in_style : e.style_name = n.name}),
    artist_count |-> Distinct(Others(g, "in_style", "style_name", n.name, "by_artist"), "artist_id"),
    label_count |-> Distinct(Others(g, "in_style", "style_name", n.name, "on_label"), "label_id"),
    genre_count |-> Distinct(Others(g, "in_style", "style_name", n.name, "in_genre"), "genre_name"),
    first_year |-> FirstYear(db, g, "in_style", "style_name", n.name)] : n \in g.style}
\* A row for each row of the graph.label view.
LabelStats(db, g) ==
  {[label_id |-> l.label_id, release_count |-> Cardinality({e \in g.on_label : e.label_id = l.label_id}),
    artist_count |-> Distinct(Others(g, "on_label", "label_id", l.label_id, "by_artist"), "artist_id"),
    genre_count |-> Distinct(Others(g, "on_label", "label_id", l.label_id, "in_genre"), "genre_name")] :
     l \in Labels(db)}

\* Rows per value of the end of an edge, over a set of <<relation, column>> ends.
Tally(g, ends, value) ==
  MapThenSumSet(LAMBDA end : Cardinality({r \in g[end[1]] : r[end[2]] = value}), ends)
EndValues(g, ends) == UNION {{r[end[2]] : r \in g[end[1]]} : end \in ends}
ArtistEnds == {<<"by_artist", "artist_id">>, <<"master_by_artist", "artist_id">>, <<"same_as", "artist_id">>,
               <<"member_of", "member_artist_id">>, <<"member_of", "group_artist_id">>,
               <<"alias_of", "alias_artist_id">>, <<"alias_of", "artist_id">>}
ArtistDegree(g) == {[artist_id |-> v, degree |-> Tally(g, ArtistEnds, v)] : v \in EndValues(g, ArtistEnds)}
ReleaseEnds == {"by_artist", "on_label", "in_genre", "in_style", "derived_from",
                "credited_on", "credited_to", "issued_on"} \X {"release_id"}
ReleaseDegreeBase(g) ==
  {[release_id |-> v, degree |-> Tally(g, ReleaseEnds, v)] : v \in EndValues(g, ReleaseEnds)}

PathRelations ==
  {<<"by_artist", "r", "release_id", "a", "artist_id">>, <<"master_by_artist", "m", "master_id", "a", "artist_id">>,
   <<"on_label", "r", "release_id", "l", "label_id">>, <<"in_genre", "r", "release_id", "g", "genre_name">>,
   <<"in_style", "r", "release_id", "s", "style_name">>, <<"master_in_genre", "m", "master_id", "g", "genre_name">>,
   <<"master_in_style", "m", "master_id", "s", "style_name">>, <<"derived_from", "r", "release_id", "m", "master_id">>,
   <<"alias_of", "a", "alias_artist_id", "a", "artist_id">>,
   <<"artist_member_of", "a", "member_artist_id", "a", "group_artist_id">>}
VertexDegreeEnds(kind) == {<<p[1], p[3]>> : p \in {x \in PathRelations : x[2] = kind}}
                          \cup {<<p[1], p[5]>> : p \in {x \in PathRelations : x[4] = kind}}
VertexKinds == {p[2] : p \in PathRelations} \cup {p[4] : p \in PathRelations}
VertexDegree(g) ==
  UNION {{[kind |-> k, key |-> v, degree |-> Tally(g, VertexDegreeEnds(k), v)] :
            v \in EndValues(g, VertexDegreeEnds(k))} : k \in VertexKinds}
\* A row for each artist, or label, and genre that a release has an edge to.
ArtistGenre(g) ==
  UNION {{[artist_id |-> b.artist_id, genre_name |-> n.genre_name,
           release_count |-> Cardinality({c \in g.by_artist : c.artist_id = b.artist_id
                               /\ [release_id |-> c.release_id, genre_name |-> n.genre_name] \in g.in_genre})] :
            n \in {x \in g.in_genre : x.release_id = b.release_id}} : b \in g.by_artist}
LabelGenre(g) ==
  UNION {{[label_id |-> b.label_id, genre_name |-> n.genre_name,
           release_count |-> Cardinality({c \in g.on_label : c.label_id = b.label_id
                               /\ [release_id |-> c.release_id, genre_name |-> n.genre_name] \in g.in_genre})] :
            n \in {x \in g.in_genre : x.release_id = b.release_id}} : b \in g.on_label}

(* ---- the fill ---- *)
MaterializedVertices == <<"genre", "style", "person", "media_family", "medium", "company">>
MaterializedEdges ==
  <<"by_artist", "on_label", "derived_from", "in_genre", "in_style", "master_by_artist",
    "master_in_genre", "master_in_style", "member_of", "alias_of", "credited_on", "same_as",
    "track_credited_on", "track_by_artist", "credited_to", "issued_on">>
Counters == <<"genre_stats", "style_stats", "label_stats", "artist_degree", "release_degree_base",
              "vertex_degree", "artist_genre", "label_genre">>
\* Mutant: the counters are filled before the union of memberships they count.
CountersFirst == MaterializedVertices \o MaterializedEdges \o Counters \o <<"artist_member_of">>
BootstrapFillOrder == MaterializedVertices \o MaterializedEdges \o <<"artist_member_of">> \o Counters

VertexBody(relation, db) ==
  CASE relation = "genre" -> TagVertices(db, "genres")
    [] relation = "style" -> TagVertices(db, "styles")
    [] relation = "person" -> Person(db)
    [] relation = "media_family" -> MediaFamily(db)
    [] relation = "medium" -> Medium(db)
    [] relation = "company" -> Company(db)
EdgeBody(relation, db) ==
  CASE relation = "by_artist" -> IdEdges(db.releases, "release_id", "artists", "artist_id")
    [] relation = "on_label" -> IdEdges(db.releases, "release_id", "labels", "label_id")
    [] relation = "master_by_artist" -> IdEdges(db.masters, "master_id", "artists", "artist_id")
    [] relation = "in_genre" -> TagEdges(db.releases, "release_id", "genres", "genre_name")
    [] relation = "in_style" -> TagEdges(db.releases, "release_id", "styles", "style_name")
    [] relation = "master_in_genre" -> TagEdges(db.masters, "master_id", "genres", "genre_name")
    [] relation = "master_in_style" -> TagEdges(db.masters, "master_id", "styles", "style_name")
    [] relation = "alias_of" -> IdEdges(db.artists, "artist_id", "aliases", "alias_artist_id")
    [] relation = "derived_from" -> DerivedFrom(db)
    [] relation = "member_of" -> MemberOf(db)
    [] relation = "credited_on" -> CreditedOn(db)
    [] relation = "same_as" -> SameAs(db)
    [] relation = "track_credited_on" -> TrackCreditedOn(db)
    [] relation = "track_by_artist" -> TrackPerformerSource(db)
    [] relation = "credited_to" -> CreditedTo(db)
    [] relation = "issued_on" -> IssuedOn(db)
CounterBody(relation, db, g) ==
  CASE relation = "genre_stats" -> GenreStats(db, g)
    [] relation = "style_stats" -> StyleStats(db, g)
    [] relation = "label_stats" -> LabelStats(db, g)
    [] relation = "artist_degree" -> ArtistDegree(g)
    [] relation = "release_degree_base" -> ReleaseDegreeBase(g)
    [] relation = "vertex_degree" -> VertexDegree(g)
    [] relation = "artist_genre" -> ArtistGenre(g)
    [] relation = "label_genre" -> LabelGenre(g)
Body(relation, db, g) ==
  CASE relation \in DOMAIN VertexKeys -> VertexBody(relation, db)
    [] relation \in DOMAIN CounterKeys -> CounterBody(relation, db, g)
    [] relation = "artist_member_of" -> ArtistMemberOf(db, g)
    [] OTHER -> EdgeBody(relation, db)

\* What makes the INSERT of a body raise: a key twice (graph.label twice is a key of
\* label_stats twice), and a year that is no int4.
Duplicates(relation, db, rows) ==
  \/ ~Unique(relation, rows)
  \/ relation = "label_stats" /\ \E l, m \in Labels(db) : l # m /\ l.label_id = m.label_id
Overflows(relation, db, g) ==
  \/ relation = "genre_stats" /\ \E n \in g.genre : \E y \in DatedYears(db, g, "in_genre", "genre_name", n.name) : y > MaxInteger
  \/ relation = "style_stats" /\ \E n \in g.style : \E y \in DatedYears(db, g, "in_style", "style_name", n.name) : y > MaxInteger

(* ---- vertex views that carry counters ---- *)
Stat(rows, column, value, counted, default) ==
  LET found == {r \in rows : r[column] = value}
  IN IF found = {} THEN default ELSE (CHOOSE r \in found : TRUE)[counted]
\* storage LEFT JOIN counters: a count not computed yet reads 0, an unknown year NULL.
CounterVertex(storage, counters, column, counted) ==
  {Over(v, [c \in counted |-> Stat(counters, column, v[column], c, IF c = "first_year" THEN Null ELSE 0)]) : v \in storage}
GenreVertex(g) == CounterVertex(g.genre, g.genre_stats, "name",
                    {"release_count", "artist_count", "label_count", "style_count", "first_year"})
StyleVertex(g) == CounterVertex(g.style, g.style_stats, "name",
                    {"release_count", "artist_count", "label_count", "genre_count", "first_year"})
LabelVertex(db, g) == CounterVertex(Labels(db), g.label_stats, "label_id", {"release_count", "artist_count", "genre_count"})
ArtistVertex(db, g) == CounterVertex(Artists(db), g.artist_degree, "artist_id", {"degree"})
\* The catalog's half, and the live collection and wantlist rows of the release's number.
ReleaseDegree(db, g) ==
  LET SameNumber(row, id) == id \in DOMAIN Number /\ Number[row.release_id] = Number[id]
  IN {[release_id |-> b.release_id,
       degree |-> b.degree + Cardinality({c \in db.collections : SameNumber(c, b.release_id)})
                           + Cardinality({w \in db.wantlists : SameNumber(w, b.release_id)})] :
        b \in g.release_degree_base}
=============================================================================
