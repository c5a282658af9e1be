----------------------------- MODULE GraphProofs -----------------------------
(***************************************************************************)
(* The graph tables: what GraphFill keeps of them while fills, refreshes    *)
(* and loaders run side by side, and what GraphUpgrade keeps of one of them *)
(* through the migrations.                                                  *)
(*                                                                         *)
(* GraphFill.  FillInv is inductive.  Its parts: the calls are those of     *)
(* their sessions and hold what they have rebuilt (ShapeInv, CallInv,       *)
(* ProgressInv); what one has rewritten nobody else holds (LockInv); every  *)
(* table, committed or not, is unique on its key (RowInv); edges have their *)
(* vertices (JoinInv); what a fill has rebuilt is what the documents state  *)
(* (FillerInv), and so are the tables after it (FilledInv).  FillerInv is   *)
(* the heart: the documents change under the fill, and stay true of what it *)
(* has rebuilt because a loader that would change such a table waits.       *)
(* Proved for any catalogs that satisfy CatalogAssumption and               *)
(* DocumentAssumption, any texts and any JSON that satisfy the assumptions  *)
(* of GraphProjection.                                                      *)
(*                                                                         *)
(* GraphUpgrade.  Type correctness, that no table in service is ever        *)
(* without a key, that only one statement takes a last key, and that a      *)
(* settled relation is left alone, for any set of databases to start from   *)
(* that satisfies its StartAssumption.                                      *)
(***************************************************************************)
EXTENDS GraphFill, GraphUpgrade, TLAPS, WellFoundedInduction

-----------------------------------------------------------------------------
(* Keys.                                                                   *)

\* Laying one table of keys over a disjoint one keeps both.
LEMMA Over2 ==
  ASSUME NEW f, NEW g, DOMAIN f \cap DOMAIN g = {}
  PROVE  /\ DOMAIN Over(f, g) = DOMAIN f \cup DOMAIN g
         /\ \A x \in DOMAIN f : Over(f, g)[x] = f[x]
         /\ \A x \in DOMAIN g : Over(f, g)[x] = g[x]
  BY DEF Over

\* The relations of each group.
LEMMA Groups ==
  /\ DOMAIN VertexKeys = {"genre", "style", "person", "media_family", "medium", "company"}
  /\ DOMAIN DocumentEdgeKeys =
       {"by_artist", "on_label", "derived_from", "in_genre", "in_style", "master_by_artist",
        "master_in_genre", "master_in_style", "member_of", "alias_of"}
  /\ DOMAIN CreditEdgeKeys =
       {"credited_on", "same_as", "track_credited_on", "track_by_artist", "credited_to", "issued_on"}
  /\ DOMAIN DerivedKeys = {"artist_member_of"}
  /\ DOMAIN CounterKeys =
       {"genre_stats", "style_stats", "label_stats", "artist_degree", "release_degree_base",
        "vertex_degree", "artist_genre", "label_genre"}
  BY DEF VertexKeys, DocumentEdgeKeys, CreditEdgeKeys, DerivedKeys, CounterKeys

\* Each relation has the key columns of its group.
LEMMA Columns ==
  /\ Relations = DOMAIN VertexKeys \cup DOMAIN DocumentEdgeKeys \cup DOMAIN CreditEdgeKeys
                   \cup DOMAIN DerivedKeys \cup DOMAIN CounterKeys
  /\ \A r \in DOMAIN VertexKeys : KeyColumns[r] = VertexKeys[r]
  /\ \A r \in DOMAIN DocumentEdgeKeys : KeyColumns[r] = DocumentEdgeKeys[r]
  /\ \A r \in DOMAIN CreditEdgeKeys : KeyColumns[r] = CreditEdgeKeys[r]
  /\ \A r \in DOMAIN DerivedKeys : KeyColumns[r] = DerivedKeys[r]
  /\ \A r \in DOMAIN CounterKeys : KeyColumns[r] = CounterKeys[r]
<1> DEFINE C == Over(DerivedKeys, CounterKeys)
           B == Over(CreditEdgeKeys, C)
           A == Over(DocumentEdgeKeys, B)
<1>1. KeyColumns = Over(VertexKeys, A)
  BY DEF KeyColumns
<1>0. /\ DOMAIN DerivedKeys \cap DOMAIN CounterKeys = {}
      /\ DOMAIN CreditEdgeKeys \cap (DOMAIN DerivedKeys \cup DOMAIN CounterKeys) = {}
      /\ DOMAIN DocumentEdgeKeys
           \cap (DOMAIN CreditEdgeKeys \cup DOMAIN DerivedKeys \cup DOMAIN CounterKeys) = {}
      /\ DOMAIN VertexKeys \cap (DOMAIN DocumentEdgeKeys \cup DOMAIN CreditEdgeKeys \cup DOMAIN DerivedKeys
                                \cup DOMAIN CounterKeys) = {}
  BY Groups
<1>2. /\ DOMAIN C = DOMAIN DerivedKeys \cup DOMAIN CounterKeys
      /\ \A x \in DOMAIN DerivedKeys : C[x] = DerivedKeys[x]
      /\ \A x \in DOMAIN CounterKeys : C[x] = CounterKeys[x]
  <2>1. DOMAIN DerivedKeys \cap DOMAIN CounterKeys = {}
    BY <1>0
  <2>2. /\ DOMAIN Over(DerivedKeys, CounterKeys) = DOMAIN DerivedKeys \cup DOMAIN CounterKeys
        /\ \A x \in DOMAIN DerivedKeys : Over(DerivedKeys, CounterKeys)[x] = DerivedKeys[x]
        /\ \A x \in DOMAIN CounterKeys : Over(DerivedKeys, CounterKeys)[x] = CounterKeys[x]
    BY Over2, <2>1
  <2> QED  BY <2>2
<1> HIDE DEF C
<1>3. /\ DOMAIN B = DOMAIN CreditEdgeKeys \cup DOMAIN C
      /\ \A x \in DOMAIN CreditEdgeKeys : B[x] = CreditEdgeKeys[x]
      /\ \A x \in DOMAIN C : B[x] = C[x]
  <2>1. DOMAIN CreditEdgeKeys \cap DOMAIN C = {}
    BY <1>0, <1>2
  <2> QED  BY Over2, <2>1
<1> HIDE DEF B
<1>4. /\ DOMAIN A = DOMAIN DocumentEdgeKeys \cup DOMAIN B
      /\ \A x \in DOMAIN DocumentEdgeKeys : A[x] = DocumentEdgeKeys[x]
      /\ \A x \in DOMAIN B : A[x] = B[x]
  <2>1. DOMAIN DocumentEdgeKeys \cap DOMAIN B = {}
    BY <1>0, <1>2, <1>3
  <2> QED  BY Over2, <2>1
<1> HIDE DEF A
<1>5. /\ DOMAIN KeyColumns = DOMAIN VertexKeys \cup DOMAIN A
      /\ \A x \in DOMAIN VertexKeys : KeyColumns[x] = VertexKeys[x]
      /\ \A x \in DOMAIN A : KeyColumns[x] = A[x]
  <2>1. DOMAIN VertexKeys \cap DOMAIN A = {}
    BY <1>0, <1>2, <1>3, <1>4
  <2>2. /\ DOMAIN Over(VertexKeys, A) = DOMAIN VertexKeys \cup DOMAIN A
        /\ \A x \in DOMAIN VertexKeys : Over(VertexKeys, A)[x] = VertexKeys[x]
        /\ \A x \in DOMAIN A : Over(VertexKeys, A)[x] = A[x]
    BY Over2, <2>1
  <2> QED  BY <2>2, <1>1
<1> QED
  BY <1>2, <1>3, <1>4, <1>5 DEF Relations

\* Rows of one key agree in its columns.
LEMMA SameKey ==
  ASSUME NEW relation, NEW r, NEW q
  PROVE  Key(relation, r) = Key(relation, q) <=> \A c \in KeyColumns[relation] : r[c] = q[c]
<1>1. ASSUME Key(relation, r) = Key(relation, q), NEW c \in KeyColumns[relation]
      PROVE  r[c] = q[c]
  <2>1. Key(relation, r)[c] = r[c] /\ Key(relation, q)[c] = q[c]
    BY DEF Key, Restrict
  <2> QED  BY <1>1, <2>1
<1>2. ASSUME \A c \in KeyColumns[relation] : r[c] = q[c]
      PROVE  Key(relation, r) = Key(relation, q)
  BY <1>2 DEF Key, Restrict
<1> QED  BY <1>1, <1>2

\* The order of the fill.
Place ==
  [genre |-> 1, style |-> 2, person |-> 3, media_family |-> 4, medium |-> 5, company |-> 6,
   by_artist |-> 7, on_label |-> 8, derived_from |-> 9, in_genre |-> 10, in_style |-> 11,
   master_by_artist |-> 12, master_in_genre |-> 13, master_in_style |-> 14, member_of |-> 15,
   alias_of |-> 16, credited_on |-> 17, same_as |-> 18, track_credited_on |-> 19,
   track_by_artist |-> 20, credited_to |-> 21, issued_on |-> 22, artist_member_of |-> 23,
   genre_stats |-> 24, style_stats |-> 25, label_stats |-> 26, artist_degree |-> 27,
   release_degree_base |-> 28, vertex_degree |-> 29, artist_genre |-> 30, label_genre |-> 31]

\* The fill has each relation once.
LEMMA FillOrder ==
  /\ Len(BootstrapFillOrder) = 31 /\ DOMAIN BootstrapFillOrder = 1..31
  /\ \A r \in Relations : Place[r] \in 1..31 /\ BootstrapFillOrder[Place[r]] = r
  /\ \A i \in 1..31 : BootstrapFillOrder[i] \in Relations /\ Place[BootstrapFillOrder[i]] = i
<1> DEFINE o == BootstrapFillOrder
<1>1. Len(o) = 31 /\ DOMAIN o = 1..31
  BY DEF BootstrapFillOrder, MaterializedVertices, MaterializedEdges, Counters
<1>2. /\ o[1] = "genre" /\ o[2] = "style" /\ o[3] = "person" /\ o[4] = "media_family" /\ o[5] = "medium"
      /\ o[6] = "company"
  BY DEF BootstrapFillOrder, MaterializedVertices, MaterializedEdges, Counters
<1>3. /\ o[7] = "by_artist" /\ o[8] = "on_label" /\ o[9] = "derived_from" /\ o[10] = "in_genre"
      /\ o[11] = "in_style" /\ o[12] = "master_by_artist" /\ o[13] = "master_in_genre"
      /\ o[14] = "master_in_style" /\ o[15] = "member_of" /\ o[16] = "alias_of" /\ o[17] = "credited_on"
      /\ o[18] = "same_as" /\ o[19] = "track_credited_on" /\ o[20] = "track_by_artist"
      /\ o[21] = "credited_to" /\ o[22] = "issued_on"
  BY DEF BootstrapFillOrder, MaterializedVertices, MaterializedEdges, Counters
<1>4. /\ o[23] = "artist_member_of" /\ o[24] = "genre_stats" /\ o[25] = "style_stats" /\ o[26] = "label_stats"
      /\ o[27] = "artist_degree" /\ o[28] = "release_degree_base" /\ o[29] = "vertex_degree"
      /\ o[30] = "artist_genre" /\ o[31] = "label_genre"
  BY DEF BootstrapFillOrder, MaterializedVertices, MaterializedEdges, Counters
<1> HIDE DEF o
<1>5. \A r \in Relations : Place[r] \in 1..31 /\ o[Place[r]] = r
  BY <1>2, <1>3, <1>4, Columns, Groups DEF Place
<1>6. \A i \in 1..31 : o[i] \in Relations /\ Place[o[i]] = i
  <2>1. \A i \in 1..31 : i \in 1..6 \/ i \in 7..22 \/ i \in 23..31
    OBVIOUS
  <2>2. \A i \in 1..6 : o[i] \in Relations /\ Place[o[i]] = i
    BY <1>2, Columns, Groups DEF Place
  <2>3. \A i \in 7..22 : o[i] \in Relations /\ Place[o[i]] = i
    BY <1>3, Columns, Groups DEF Place
  <2>4. \A i \in 23..31 : o[i] \in Relations /\ Place[o[i]] = i
    BY <1>4, Columns, Groups DEF Place
  <2> QED  BY <2>1, <2>2, <2>3, <2>4
<1> QED
  BY <1>1, <1>5, <1>6 DEF o

\* The key of each relation.
LEMMA Keys ==
  /\ KeyColumns["genre"] = {"name"} /\ KeyColumns["style"] = {"name"} /\ KeyColumns["person"] = {"name"}
  /\ KeyColumns["media_family"] = {"name"} /\ KeyColumns["medium"] = {"medium_id"}
  /\ KeyColumns["company"] = {"company_id"}
  /\ KeyColumns["by_artist"] = {"release_id", "artist_id"} /\ KeyColumns["on_label"] = {"release_id", "label_id"}
  /\ KeyColumns["derived_from"] = {"release_id", "master_id"}
  /\ KeyColumns["in_genre"] = {"release_id", "genre_name"} /\ KeyColumns["in_style"] = {"release_id", "style_name"}
  /\ KeyColumns["master_by_artist"] = {"master_id", "artist_id"}
  /\ KeyColumns["master_in_genre"] = {"master_id", "genre_name"}
  /\ KeyColumns["master_in_style"] = {"master_id", "style_name"}
  /\ KeyColumns["member_of"] = {"member_artist_id", "group_artist_id"}
  /\ KeyColumns["alias_of"] = {"alias_artist_id", "artist_id"}
  /\ KeyColumns["credited_on"] = {"release_id", "person_name", "role"}
  /\ KeyColumns["same_as"] = {"artist_id", "person_name"}
  /\ KeyColumns["track_credited_on"] = {"release_id", "track_ordinal", "sub_track_ordinal", "person_name", "role"}
  /\ KeyColumns["track_by_artist"] = {"release_id", "track_ordinal", "sub_track_ordinal", "artist_id"}
  /\ KeyColumns["credited_to"] = {"release_id", "company_id", "role", "source"}
  /\ KeyColumns["issued_on"] = {"release_id", "medium_id", "source"}
  /\ KeyColumns["artist_member_of"] = {"member_artist_id", "group_artist_id", "source"}
  /\ KeyColumns["genre_stats"] = {"name"} /\ KeyColumns["style_stats"] = {"name"}
  /\ KeyColumns["label_stats"] = {"label_id"} /\ KeyColumns["artist_degree"] = {"artist_id"}
  /\ KeyColumns["release_degree_base"] = {"release_id"} /\ KeyColumns["vertex_degree"] = {"kind", "key"}
  /\ KeyColumns["artist_genre"] = {"artist_id", "genre_name"}
  /\ KeyColumns["label_genre"] = {"label_id", "genre_name"}
  BY Columns, Groups DEF VertexKeys, DocumentEdgeKeys, CreditEdgeKeys, DerivedKeys, CounterKeys

\* The body of each relation.
LEMMA Bodies ==
  ASSUME NEW db, NEW g
  PROVE  /\ Body("genre", db, g) = TagVertices(db, "genres") /\ Body("style", db, g) = TagVertices(db, "styles")
         /\ Body("person", db, g) = Person(db) /\ Body("media_family", db, g) = MediaFamily(db)
         /\ Body("medium", db, g) = Medium(db) /\ Body("company", db, g) = Company(db)
         /\ Body("by_artist", db, g) = IdEdges(db.releases, "release_id", "artists", "artist_id")
         /\ Body("on_label", db, g) = IdEdges(db.releases, "release_id", "labels", "label_id")
         /\ Body("derived_from", db, g) = DerivedFrom(db)
         /\ Body("in_genre", db, g) = TagEdges(db.releases, "release_id", "genres", "genre_name")
         /\ Body("in_style", db, g) = TagEdges(db.releases, "release_id", "styles", "style_name")
         /\ Body("master_by_artist", db, g) = IdEdges(db.masters, "master_id", "artists", "artist_id")
         /\ Body("master_in_genre", db, g) = TagEdges(db.masters, "master_id", "genres", "genre_name")
         /\ Body("master_in_style", db, g) = TagEdges(db.masters, "master_id", "styles", "style_name")
         /\ Body("member_of", db, g) = MemberOf(db)
         /\ Body("alias_of", db, g) = IdEdges(db.artists, "artist_id", "aliases", "alias_artist_id")
         /\ Body("credited_on", db, g) = CreditedOn(db) /\ Body("same_as", db, g) = SameAs(db)
         /\ Body("track_credited_on", db, g) = TrackCreditedOn(db)
         /\ Body("track_by_artist", db, g) = TrackPerformerSource(db)
         /\ Body("credited_to", db, g) = CreditedTo(db) /\ Body("issued_on", db, g) = IssuedOn(db)
         /\ Body("artist_member_of", db, g) = ArtistMemberOf(db, g)
         /\ Body("genre_stats", db, g) = GenreStats(db, g) /\ Body("style_stats", db, g) = StyleStats(db, g)
         /\ Body("label_stats", db, g) = LabelStats(db, g) /\ Body("artist_degree", db, g) = ArtistDegree(g)
         /\ Body("release_degree_base", db, g) = ReleaseDegreeBase(g)
         /\ Body("vertex_degree", db, g) = VertexDegree(g) /\ Body("artist_genre", db, g) = ArtistGenre(g)
         /\ Body("label_genre", db, g) = LabelGenre(g)
  BY Groups DEF Body, VertexBody, EdgeBody, CounterBody

-----------------------------------------------------------------------------
(* Every body is unique on the key of its table.                           *)

\* Rows that are nothing but their key.
Whole(relation, rows) == \A e \in rows : e = Key(relation, e)

\* Rows that are their keys are unique.
LEMMA WholeUnique ==
  ASSUME NEW relation, NEW rows, Whole(relation, rows)
  PROVE  Unique(relation, rows)
<1> SUFFICES ASSUME NEW r \in rows, NEW q \in rows, Key(relation, r) = Key(relation, q)
             PROVE  r = q
  BY DEF Unique
<1> QED  BY DEF Whole

\* An edge row of two columns is its key.
LEMMA EndsRow ==
  ASSUME NEW a, NEW x, NEW b, NEW y, a # b
  PROVE  /\ Ends(a, x, b, y)[a] = x /\ Ends(a, x, b, y)[b] = y
         /\ \A relation : KeyColumns[relation] = {a, b} => Ends(a, x, b, y) = Key(relation, Ends(a, x, b, y))
<1>1. Ends(a, x, b, y)[a] = x /\ Ends(a, x, b, y)[b] = y
  BY DEF Ends
<1>2. ASSUME NEW relation, KeyColumns[relation] = {a, b}
      PROVE  Ends(a, x, b, y) = Key(relation, Ends(a, x, b, y))
  BY <1>2 DEF Key, Restrict, Ends
<1> QED  BY <1>1, <1>2

\* Every id edge comes of a document and an id in its array.
LEMMA IdRows ==
  ASSUME NEW docs, NEW a, NEW array, NEW b, NEW e \in IdEdges(docs, a, array, b)
  PROVE  \E id \in DOMAIN docs : \E t \in Ids(docs[id], array) : e = Ends(a, id, b, t)
  BY DEF IdEdges
\* Every tag edge comes of a document and a tag in its array.
LEMMA TagRows ==
  ASSUME NEW docs, NEW a, NEW array, NEW b, NEW e \in TagEdges(docs, a, array, b)
  PROVE  \E id \in DOMAIN docs : \E t \in Tags(Get(docs[id], array)) : e = Ends(a, id, b, t)
  BY DEF TagEdges

\* The tables whose rows are nothing but their key.
Plain == {"genre", "style", "person", "media_family", "same_as"} \cup DOMAIN DocumentEdgeKeys
\* The relations with no column beside their key.
LEMMA PlainBodies ==
  ASSUME NEW db, NEW g, NEW r \in Plain
  PROVE  Whole(r, Body(r, db, g))
<1> DEFINE b == Body(r, db, g)
<1> SUFFICES ASSUME NEW e \in b PROVE e = Key(r, e)
  BY DEF Whole
<1>1. ASSUME NEW docs, NEW source, NEW array, NEW target, source # target,
             KeyColumns[r] = {source, target},
             b = IdEdges(docs, source, array, target) \/ b = TagEdges(docs, source, array, target)
      PROVE  e = Key(r, e)
  BY <1>1, IdRows, TagRows, EndsRow
<1>2. ASSUME NEW n, e = [name |-> n], KeyColumns[r] = {"name"}
      PROVE  e = Key(r, e)
  BY <1>2 DEF Key, Restrict
<1>3. CASE r \in {"genre", "style"}
  BY <1>2, <1>3, Bodies, Keys DEF TagVertices
<1>4. CASE r = "person"
  BY <1>2, <1>4, Bodies, Keys DEF Person
<1>5. CASE r = "media_family"
  BY <1>2, <1>5, Bodies, Keys DEF MediaFamily
<1>6. CASE r = "same_as"
  <2>1. PICK c : e = [person_name |-> c.person_name, artist_id |-> c.artist_id]
    BY <1>6, Bodies DEF SameAs
  <2> QED  BY <2>1, <1>6, Keys DEF Key, Restrict
<1>7. CASE r = "derived_from"
  <2>1. PICK id, m : e = [release_id |-> id, master_id |-> m]
    BY <1>7, Bodies DEF DerivedFrom
  <2> QED  BY <2>1, <1>7, Keys DEF Key, Restrict
<1>8. CASE r = "member_of"
  <2>1. CASE e \in IdEdges(db.artists, "group_artist_id", "members", "member_artist_id")
    BY <1>8, <2>1, IdRows, EndsRow, Keys
  <2>2. CASE e \in IdEdges(db.artists, "member_artist_id", "groups", "group_artist_id")
    BY <1>8, <2>2, IdRows, EndsRow, Keys
  <2> QED  BY <1>8, <2>1, <2>2, Bodies DEF MemberOf
<1>9. CASE r \in {"by_artist", "on_label", "master_by_artist"}
  BY <1>9, <1>1, Bodies, Keys
<1>10. CASE r \in {"in_genre", "in_style", "master_in_genre", "master_in_style"}
  BY <1>10, <1>1, Bodies, Keys
<1>11. CASE r = "alias_of"
  BY <1>11, <1>1, Bodies, Keys
<1> QED
  BY <1>3, <1>4, <1>5, <1>6, <1>7, <1>8, <1>9, <1>10, <1>11, Groups DEF Plain

\* JSON access stays within JSON.
Value == Json \cup {Absent}
\* Reading a JSON value gives JSON, text or nothing, and no array that is not one.
LEMMA GetValue ==
  ASSUME NEW v \in Value, NEW key
  PROVE  /\ Get(v, key) \in Value /\ AsText(v) \in Texts \cup {Null} /\ GetText(v, key) \in Texts \cup {Null}
         /\ JsonbArray(v) \in Seq(Json)
<1>1. ASSUME NEW u \in Value
      PROVE  Get(u, key) \in Value /\ AsText(u) \in Texts \cup {Null} /\ JsonbArray(u) \in Seq(Json)
  <2>1. CASE u = Absent
    BY <2>1 DEF Get, AsText, JsonbArray, Absent, Value
  <2>2. CASE u \in Json
    BY <2>2, JsonAssumption DEF Get, AsText, JsonbArray, Value
  <2> QED  BY <2>1, <2>2 DEF Value
<1> QED  BY <1>1 DEF GetText

\* Trimming keeps text and NULL.
LEMMA TrimmedText ==
  ASSUME NEW t \in Texts \cup {Null}
  PROVE  Trimmed(t) \in Texts \cup {Null} /\ NullIfEmpty(Trimmed(t)) \in Texts \cup {Null}
  BY TextAssumption DEF Trimmed, NullIfEmpty, NonEmpty

\* What xmltodict made of a list is a list.
LEMMA XmlArray ==
  ASSUME NEW v \in Value, NEW key
  PROVE  XmltodictArray(v, key) \in Seq(Json)
<1> DEFINE inner == Get(v, key)
           wrapped == CASE inner.type = "array" -> inner.items
                        [] inner.type = "null"  -> <<>>
                        [] OTHER                -> <<inner>>
<1>1. CASE v.type = "array"
  <2>1. v \in Json
    BY <1>1 DEF Value, Absent
  <2> QED  BY <1>1, <2>1, JsonAssumption DEF XmltodictArray
<1>2. CASE v.type = "object" /\ key \in DOMAIN v.fields
  <2>1. v \in Json
    BY <1>2 DEF Value, Absent
  <2>2. inner \in Json
    BY <1>2, <2>1, JsonAssumption DEF Get
  <2>3. wrapped \in Seq(Json)
    <3> HIDE DEF inner
    <3>1. CASE inner.type = "array"
      BY <3>1, <2>2, JsonAssumption
    <3>2. CASE inner.type = "null"
      BY <3>2
    <3>3. CASE inner.type \notin {"array", "null"}
      BY <3>3, <2>2
    <3> QED  BY <3>1, <3>2, <3>3
  <2>4. XmltodictArray(v, key) = wrapped
    BY <1>2 DEF XmltodictArray
  <2> QED  BY <2>3, <2>4
<1>3. CASE v.type \in {"absent", "null"} \/ (v.type = "object" /\ key \notin DOMAIN v.fields)
  <2>1. XmltodictArray(v, key) = <<>>
    BY <1>3 DEF XmltodictArray
  <2> QED  BY <2>1
<1>4. CASE v.type \notin {"array", "absent", "object", "null"}
  <2>1. v \in Json
    BY <1>4 DEF Value, Absent
  <2>2. XmltodictArray(v, key) = <<v>>
    BY <1>4 DEF XmltodictArray
  <2> QED  BY <2>1, <2>2
<1> QED  BY <1>1, <1>2, <1>3, <1>4

\* A track, and a sub-track, is told by its ordinals.
LEMMA TrackAt ==
  ASSUME NEW doc \in Value, NEW t \in TracksOf(doc), NEW u \in TracksOf(doc), t.ordinal = u.ordinal, t.sub = u.sub
  PROVE  t = u
<1> DEFINE tracks == XmltodictArray(Get(doc, "tracklist"), "track")
           Subs(i) == XmltodictArray(Get(tracks[i], "sub_tracks"), "track")
           Top == {[ordinal |-> i, sub |-> 0, value |-> tracks[i]] : i \in DOMAIN tracks}
           Low == UNION {{[ordinal |-> i, sub |-> j, value |-> Subs(i)[j]] : j \in DOMAIN Subs(i)} :
                           i \in DOMAIN tracks}
<1>1. TracksOf(doc) = Top \cup Low
  BY DEF TracksOf
<1>2. tracks \in Seq(Json)
  BY GetValue, XmlArray
<1>3. \A i \in DOMAIN tracks : Subs(i) \in Seq(Json)
  <2> TAKE i \in DOMAIN tracks
  <2>1. tracks[i] \in Value
    BY <1>2 DEF Value
  <2> QED  BY <2>1, GetValue, XmlArray
<1> HIDE DEF tracks, Subs
<1>4. \A i \in DOMAIN tracks : 0 \notin DOMAIN Subs(i)
  BY <1>3
<1>5. \A x \in Top : x.sub = 0 /\ x.ordinal \in DOMAIN tracks /\ x = [ordinal |-> x.ordinal, sub |-> 0, value |-> tracks[x.ordinal]]
  OBVIOUS
<1>6. \A x \in Low : /\ x.sub # 0
                     /\ x = [ordinal |-> x.ordinal, sub |-> x.sub, value |-> Subs(x.ordinal)[x.sub]]
  BY <1>4
<1> QED  BY <1>1, <1>5, <1>6

\* A credit on a track carries the place of the track.
LEMMA TrackRow ==
  ASSUME NEW id, NEW t, NEW c \in Placed(OnTrack(id, t), Credits(XmltodictArray(Get(t.value, "extraartists"), "artist")))
  PROVE  /\ c.release_id = id /\ c.track_ordinal = t.ordinal /\ c.sub_track_ordinal = t.sub
         /\ c.track_position = GetText(t.value, "position")
<1>1. PICK row : c = Over(OnTrack(id, t), row)
  BY DEF Placed
<1> QED  BY <1>1 DEF Over, OnTrack

\* No two tracks of a release have one place, so credits on tracks are unique on theirs.
LEMMA TrackedBodies ==
  ASSUME NEW db, WellFormed(db)
  PROVE  Unique("track_credited_on", TrackCreditedOn(db)) /\ Unique("track_by_artist", TrackPerformerSource(db))
<1>1. ASSUME NEW id \in DOMAIN db.releases
      PROVE  db.releases[id] \in Value
  BY <1>1 DEF WellFormed, Value
<1>2. Unique("track_credited_on", TrackCreditedOn(db))
  <2> SUFFICES ASSUME NEW r \in TrackCreditedOn(db), NEW q \in TrackCreditedOn(db),
                      Key("track_credited_on", r) = Key("track_credited_on", q)
               PROVE  r = q
    BY DEF Unique
  <2>1. r.release_id = q.release_id /\ r.track_ordinal = q.track_ordinal /\ r.sub_track_ordinal = q.sub_track_ordinal
        /\ r.person_name = q.person_name /\ r.role = q.role
    BY SameKey, Keys
  <2>2. ASSUME NEW x \in TrackCreditedOn(db)
        PROVE  \E id \in DOMAIN db.releases : \E t \in TracksOf(db.releases[id]) :
                 x = [person_name |-> x.person_name, release_id |-> id, track_ordinal |-> t.ordinal,
                      sub_track_ordinal |-> t.sub, track_position |-> GetText(t.value, "position"),
                      role |-> x.role, role_category |-> CreditRoleCategory(x.role)]
    <3>1. PICK c \in TrackCreditSource(db) :
            x = [person_name |-> c.person_name, release_id |-> c.release_id, track_ordinal |-> c.track_ordinal,
                 sub_track_ordinal |-> c.sub_track_ordinal, track_position |-> c.track_position, role |-> c.role,
                 role_category |-> CreditRoleCategory(c.role)]
      BY DEF TrackCreditedOn
    <3>2. PICK id \in DOMAIN db.releases : \E t \in TracksOf(db.releases[id]) :
            c \in Placed(OnTrack(id, t), Credits(XmltodictArray(Get(t.value, "extraartists"), "artist")))
      BY DEF TrackCreditSource
    <3>2a. PICK t \in TracksOf(db.releases[id]) :
            c \in Placed(OnTrack(id, t), Credits(XmltodictArray(Get(t.value, "extraartists"), "artist")))
      BY <3>2
    <3>3. /\ c.release_id = id /\ c.track_ordinal = t.ordinal /\ c.sub_track_ordinal = t.sub
          /\ c.track_position = GetText(t.value, "position")
      BY <3>2a, TrackRow
    <3>4. x.person_name = c.person_name /\ x.role = c.role
      BY <3>1
    <3> QED  BY <3>1, <3>3, <3>4
  <2>3. PICK id \in DOMAIN db.releases : \E t \in TracksOf(db.releases[id]) :
          r = [person_name |-> r.person_name, release_id |-> id, track_ordinal |-> t.ordinal,
               sub_track_ordinal |-> t.sub, track_position |-> GetText(t.value, "position"),
               role |-> r.role, role_category |-> CreditRoleCategory(r.role)]
    BY <2>2
  <2>3a. PICK t \in TracksOf(db.releases[id]) :
          r = [person_name |-> r.person_name, release_id |-> id, track_ordinal |-> t.ordinal,
               sub_track_ordinal |-> t.sub, track_position |-> GetText(t.value, "position"),
               role |-> r.role, role_category |-> CreditRoleCategory(r.role)]
    BY <2>3
  <2>4. PICK jd \in DOMAIN db.releases : \E u \in TracksOf(db.releases[jd]) :
          q = [person_name |-> q.person_name, release_id |-> jd, track_ordinal |-> u.ordinal,
               sub_track_ordinal |-> u.sub, track_position |-> GetText(u.value, "position"),
               role |-> q.role, role_category |-> CreditRoleCategory(q.role)]
    BY <2>2
  <2>4a. PICK u \in TracksOf(db.releases[jd]) :
          q = [person_name |-> q.person_name, release_id |-> jd, track_ordinal |-> u.ordinal,
               sub_track_ordinal |-> u.sub, track_position |-> GetText(u.value, "position"),
               role |-> q.role, role_category |-> CreditRoleCategory(q.role)]
    BY <2>4
  <2>5. id = jd /\ t.ordinal = u.ordinal /\ t.sub = u.sub
    BY <2>1, <2>3a, <2>4a
  <2>6. t = u
    BY <2>5, <1>1, TrackAt
  <2> QED  BY <2>1, <2>3a, <2>4a, <2>5, <2>6
<1>3. Unique("track_by_artist", TrackPerformerSource(db))
  <2> SUFFICES ASSUME NEW r \in TrackPerformerSource(db), NEW q \in TrackPerformerSource(db),
                      Key("track_by_artist", r) = Key("track_by_artist", q)
               PROVE  r = q
    BY DEF Unique
  <2>1. r.release_id = q.release_id /\ r.track_ordinal = q.track_ordinal /\ r.sub_track_ordinal = q.sub_track_ordinal
        /\ r.artist_id = q.artist_id
    BY SameKey, Keys
  <2>2. ASSUME NEW x \in TrackPerformerSource(db)
        PROVE  \E id \in DOMAIN db.releases : \E t \in TracksOf(db.releases[id]) :
                 /\ x.release_id = id /\ x.track_ordinal = t.ordinal /\ x.sub_track_ordinal = t.sub
                 /\ x = Over(OnTrack(id, t), [artist_id |-> x.artist_id])
    <3>1. PICK id \in DOMAIN db.releases : \E t \in TracksOf(db.releases[id]) : \E a :
            x = Over(OnTrack(id, t), [artist_id |-> Trimmed(GetText(a, "id"))])
      BY DEF TrackPerformerSource
    <3>1b. PICK t \in TracksOf(db.releases[id]) : \E a :
            x = Over(OnTrack(id, t), [artist_id |-> Trimmed(GetText(a, "id"))])
      BY <3>1
    <3>1a. PICK a : x = Over(OnTrack(id, t), [artist_id |-> Trimmed(GetText(a, "id"))])
      BY <3>1b
    <3>2. /\ x.release_id = id /\ x.track_ordinal = t.ordinal /\ x.sub_track_ordinal = t.sub
          /\ x.artist_id = Trimmed(GetText(a, "id"))
      BY <3>1a DEF Over, OnTrack
    <3> QED  BY <3>1a, <3>2
  <2>3. PICK id \in DOMAIN db.releases : \E t \in TracksOf(db.releases[id]) :
          /\ r.release_id = id /\ r.track_ordinal = t.ordinal /\ r.sub_track_ordinal = t.sub
          /\ r = Over(OnTrack(id, t), [artist_id |-> r.artist_id])
    BY <2>2
  <2>3a. PICK t \in TracksOf(db.releases[id]) :
          /\ r.release_id = id /\ r.track_ordinal = t.ordinal /\ r.sub_track_ordinal = t.sub
          /\ r = Over(OnTrack(id, t), [artist_id |-> r.artist_id])
    BY <2>3
  <2>4. PICK jd \in DOMAIN db.releases : \E u \in TracksOf(db.releases[jd]) :
          /\ q.release_id = jd /\ q.track_ordinal = u.ordinal /\ q.sub_track_ordinal = u.sub
          /\ q = Over(OnTrack(jd, u), [artist_id |-> q.artist_id])
    BY <2>2
  <2>4a. PICK u \in TracksOf(db.releases[jd]) :
          /\ q.release_id = jd /\ q.track_ordinal = u.ordinal /\ q.sub_track_ordinal = u.sub
          /\ q = Over(OnTrack(jd, u), [artist_id |-> q.artist_id])
    BY <2>4
  <2>5. id = jd /\ t.ordinal = u.ordinal /\ t.sub = u.sub
    BY <2>1, <2>3a, <2>4a
  <2>6. t = u
    BY <2>5, <1>1, TrackAt
  <2> QED  BY <2>1, <2>3a, <2>4a, <2>5, <2>6
<1> QED  BY <1>2, <1>3

\* The family of a medium, and the name and the place of a company credit.
LEMMA MediumRow ==
  ASSUME NEW db, WellFormed(db), NEW row \in MediaSource(db)
  PROVE  row.family_name \in Texts
<1>1. ASSUME NEW media \in Value, NEW place, NEW x \in MediaOf(media, place),
             "family_name" \notin DOMAIN place
      PROVE  x.family_name \in Texts
  <2> DEFINE items == JsonbArray(Get(media, "items"))
  <2>1. items \in Seq(Json)
    BY GetValue
  <2> HIDE DEF items
  <2>2. PICK i \in DOMAIN items :
          /\ NonEmpty(GetText(items[i], "family"))
          /\ x = Over(place, [entry |-> i, medium_id |-> GetText(items[i], "medium"),
                              family_name |-> GetText(items[i], "family"), qty |-> MediumQuantity(items[i])])
    BY DEF MediaOf, items
  <2>3. x.family_name = GetText(items[i], "family")
    BY <2>2, <1>1 DEF Over
  <2>4. items[i] \in Value
    BY <2>1 DEF Value
  <2> QED  BY <2>2, <2>3, <2>4, GetValue DEF NonEmpty
<1>2. CASE row \in DiscogsMedia(db)
  <2>1. PICK id \in DOMAIN db.releases :
             row \in MediaOf(db.media[id], [release_id |-> id, provider |-> "discogs", from |-> id])
    BY <1>2 DEF DiscogsMedia
  <2>2. db.media[id] \in Value
    BY DEF WellFormed, Value
  <2> QED  BY <1>1, <2>1, <2>2
<1>3. CASE row \in MusicBrainzMedia(db)
  <2>1. PICK b \in DOMAIN db.mb["release"] :
             row \in MediaOf(db.mb["release"][b].media,
                           [release_id |-> db.mb["release"][b].discogs, provider |-> "musicbrainz", from |-> b])
    BY <1>3 DEF MusicBrainzMedia
  <2>2. db.mb["release"][b].media \in Value
    BY DEF WellFormed, Value
  <2>3. "family_name" \notin DOMAIN [release_id |-> db.mb["release"][b].discogs, provider |-> "musicbrainz", from |-> b]
    OBVIOUS
  <2> QED  BY <1>1, <2>1, <2>2, <2>3
<1> QED  BY <1>2, <1>3 DEF MediaSource

CompanyItems(db, id) == JsonbArray(Get(Get(db.releases[id], "companies"), "items"))
CompanyAt(db, id, i) ==
  LET item == CompanyItems(db, id)[i]
      category == NullIfEmpty(Trimmed(GetText(item, "role_category")))
  IN [release_id |-> id, entry_position |-> i, company_id |-> CompanyId(item),
      company_name |-> NullIfEmpty(Trimmed(GetText(item, "name"))),
      role |-> NullIfEmpty(Trimmed(GetText(item, "role"))),
      role_category |-> IF category = Null THEN "other" ELSE category]
\* A company credit is determined by its release and its place in the list.
LEMMA CompanyRow ==
  ASSUME NEW db, WellFormed(db), NEW c \in CompanySource(db), c.company_id # Null
  PROVE  /\ Named(c) \in Texts /\ c.entry_position \in Nat
         /\ c = CompanyAt(db, c.release_id, c.entry_position)
<1> DEFINE items(id) == CompanyItems(db, id)
           category(id, i) == NullIfEmpty(Trimmed(GetText(items(id)[i], "role_category")))
           At(id, i) == [release_id |-> id, entry_position |-> i, company_id |-> CompanyId(items(id)[i]),
              company_name |-> NullIfEmpty(Trimmed(GetText(items(id)[i], "name"))),
              role |-> NullIfEmpty(Trimmed(GetText(items(id)[i], "role"))),
              role_category |-> IF category(id, i) = Null THEN "other" ELSE category(id, i)]
<1>1. PICK id \in DOMAIN db.releases : \E i \in DOMAIN items(id) : c = At(id, i)
  BY DEF CompanySource, CompanyItems
<1>2. PICK i \in DOMAIN items(id) : c = At(id, i)
  BY <1>1
<1>3. db.releases[id] \in Value
  BY DEF WellFormed, Value
<1>4. items(id) \in Seq(Json)
  BY <1>3, GetValue DEF CompanyItems
<1>5. items(id)[i] \in Value
  BY <1>4 DEF Value
<1> HIDE DEF items
<1>6. c.entry_position = i /\ c.release_id = id /\ c.company_id = CompanyId(items(id)[i])
      /\ c.company_name = NullIfEmpty(Trimmed(GetText(items(id)[i], "name")))
  BY <1>2
<1>7. i \in Nat
  BY <1>4
<1>8. c.company_name \in Texts \cup {Null}
  BY <1>5, <1>6, GetValue, TrimmedText
<1>9. ASSUME c.company_name = Null PROVE c.company_id \in Texts
  <2>1. ~NonEmpty(Trimmed(GetText(items(id)[i], "name")))
    BY <1>6, <1>9 DEF NullIfEmpty, NonEmpty
  <2>2. PositiveDecimal(Trimmed(GetText(items(id)[i], "discogs_id")))
        /\ c.company_id = Trimmed(GetText(items(id)[i], "discogs_id"))
    BY <1>6, <2>1 DEF CompanyId
  <2> QED  BY <2>2, VocabularyAssumption DEF PositiveDecimal
<1>10. Named(c) \in Texts
  BY <1>8, <1>9 DEF Named
<1>11. c = CompanyAt(db, id, i)
  BY <1>2 DEF CompanyAt, items
<1> QED  BY <1>6, <1>7, <1>10, <1>11

\* The collation orders texts strictly.
LEMMA CollateInjective ==
  \A t, u \in Texts : Collate[t] <= Collate[u] /\ Collate[u] <= Collate[t] => t = u
<1> SUFFICES ASSUME NEW t \in Texts, NEW u \in Texts, Collate[t] <= Collate[u], Collate[u] <= Collate[t]
             PROVE  t = u
  OBVIOUS
<1>1. Collate[t] \in Nat /\ Collate[u] \in Nat
  BY TextAssumption
<1>2. Collate[t] = Collate[u]
  BY <1>1
<1> QED  BY <1>2, TextAssumption

\* DISTINCT ON leaves one row of a key: the order it chooses by has no ties that differ.
LEMMA ChosenBodies ==
  ASSUME NEW db, WellFormed(db)
  PROVE  Unique("medium", Medium(db)) /\ Unique("company", Company(db)) /\ Unique("credited_to", CreditedTo(db))
<1>1. Unique("medium", Medium(db))
  <2> SUFFICES ASSUME NEW r \in Medium(db), NEW q \in Medium(db), Key("medium", r) = Key("medium", q)
               PROVE  r = q
    BY DEF Unique
  <2> DEFINE Least(x) == \A y \in MediaSource(db) :
                           y.medium_id = x.medium_id => Collate[x.family_name] <= Collate[y.family_name]
  <2>1. PICK x \in MediaSource(db) :
          /\ r = [medium_id |-> x.medium_id, family |-> x.family_name, label |-> MediumLabel(x.medium_id)]
          /\ Least(x)
    BY DEF Medium
  <2>2. PICK y \in MediaSource(db) :
          /\ q = [medium_id |-> y.medium_id, family |-> y.family_name, label |-> MediumLabel(y.medium_id)]
          /\ Least(y)
    BY DEF Medium
  <2>3. x.medium_id = y.medium_id
    BY <2>1, <2>2, SameKey, Keys
  <2>4. x.family_name = y.family_name
    BY <2>1, <2>2, <2>3, MediumRow, CollateInjective
  <2> QED  BY <2>1, <2>2, <2>3, <2>4
<1>2. Unique("company", Company(db))
  <2> SUFFICES ASSUME NEW r \in Company(db), NEW q \in Company(db), Key("company", r) = Key("company", q)
               PROVE  r = q
    BY DEF Unique
  <2> DEFINE Least(x) == \A y \in CompanyCredits(db) :
                           y.company_id = x.company_id => Collate[Named(x)] <= Collate[Named(y)]
  <2>1. PICK x \in CompanyCredits(db) :
          /\ r = [company_id |-> x.company_id, name |-> Named(x),
                  discogs_label_id |-> IF x.company_id \in DOMAIN Number THEN x.company_id ELSE Null]
          /\ Least(x)
    BY DEF Company
  <2>2. PICK y \in CompanyCredits(db) :
          /\ q = [company_id |-> y.company_id, name |-> Named(y),
                  discogs_label_id |-> IF y.company_id \in DOMAIN Number THEN y.company_id ELSE Null]
          /\ Least(y)
    BY DEF Company
  <2>3. x.company_id = y.company_id
    <3>1. r.company_id = q.company_id
      BY SameKey, Keys
    <3> QED  BY <2>1, <2>2, <3>1
  <2>4. Named(x) = Named(y)
    <3>1. Named(x) \in Texts /\ Named(y) \in Texts
      BY CompanyRow DEF CompanyCredits
    <3>2. Collate[Named(x)] <= Collate[Named(y)] /\ Collate[Named(y)] <= Collate[Named(x)]
      BY <2>1, <2>2, <2>3
    <3> QED  BY <3>1, <3>2, CollateInjective
  <2> QED  BY <2>1, <2>2, <2>3, <2>4
<1>3. Unique("credited_to", CreditedTo(db))
  <2> SUFFICES ASSUME NEW r \in CreditedTo(db), NEW q \in CreditedTo(db), Key("credited_to", r) = Key("credited_to", q)
               PROVE  r = q
    BY DEF Unique
  <2> DEFINE Same(x, y) == y.release_id = x.release_id /\ y.company_id = x.company_id /\ y.role = x.role
             Edge(c) == [release_id |-> c.release_id, company_id |-> c.company_id, role |-> c.role,
                         role_category |-> c.role_category, source |-> "discogs"]
             Earliest(x) == \A y \in CompanyCredits(db) : Same(x, y) => x.entry_position <= y.entry_position
  <2>1. PICK x \in CompanyCredits(db) : r = Edge(x) /\ Earliest(x)
    BY DEF CreditedTo
  <2>2. PICK y \in CompanyCredits(db) : q = Edge(y) /\ Earliest(y)
    BY DEF CreditedTo
  <2>3. Same(x, y) /\ Same(y, x)
    <3>1. r.release_id = q.release_id /\ r.company_id = q.company_id /\ r.role = q.role
      BY SameKey, Keys
    <3>2. /\ r.release_id = x.release_id /\ r.company_id = x.company_id /\ r.role = x.role
          /\ q.release_id = y.release_id /\ q.company_id = y.company_id /\ q.role = y.role
      BY <2>1, <2>2
    <3> QED  BY <3>1, <3>2
  <2>4. x.entry_position <= y.entry_position /\ y.entry_position <= x.entry_position
    <3> HIDE DEF Same
    <3> QED  BY <2>1, <2>2, <2>3
  <2>5. /\ x.entry_position \in Nat /\ y.entry_position \in Nat
        /\ x = CompanyAt(db, x.release_id, x.entry_position) /\ y = CompanyAt(db, y.release_id, y.entry_position)
    BY CompanyRow DEF CompanyCredits
  <2>6. x.entry_position = y.entry_position
    BY <2>4, <2>5
  <2>7. x = y
    BY <2>3, <2>5, <2>6
  <2> QED  BY <2>1, <2>2, <2>7
<1> QED  BY <1>1, <1>2, <1>3

\* GROUP BY leaves one row of a key.
LEMMA GroupedBodies ==
  ASSUME NEW db
  PROVE  Unique("credited_on", CreditedOn(db)) /\ Unique("issued_on", IssuedOn(db))
<1>1. Unique("credited_on", CreditedOn(db))
  <2> SUFFICES ASSUME NEW r \in CreditedOn(db), NEW q \in CreditedOn(db), Key("credited_on", r) = Key("credited_on", q)
               PROVE  r = q
    BY DEF Unique
  <2> DEFINE Edge(c) == [person_name |-> c.person_name, release_id |-> c.release_id, role |-> c.role,
                         role_category |-> CreditRoleCategory(c.role)]
  <2>1. PICK x \in CreditSource(db) : r = Edge(x)
    BY DEF CreditedOn
  <2>2. PICK y \in CreditSource(db) : q = Edge(y)
    BY DEF CreditedOn
  <2>3. r.release_id = q.release_id /\ r.person_name = q.person_name /\ r.role = q.role
    BY SameKey, Keys
  <2>4. x.release_id = y.release_id /\ x.person_name = y.person_name /\ x.role = y.role
    BY <2>1, <2>2, <2>3
  <2> QED  BY <2>1, <2>2, <2>4
<1>2. Unique("issued_on", IssuedOn(db))
  <2> SUFFICES ASSUME NEW r \in IssuedOn(db), NEW q \in IssuedOn(db), Key("issued_on", r) = Key("issued_on", q)
               PROVE  r = q
    BY DEF Unique
  <2> DEFINE Group(m) == {x \in MediaSource(db) : /\ x.release_id = m.release_id /\ x.medium_id = m.medium_id
                                                  /\ x.provider = m.provider}
             Edge(m) == [release_id |-> m.release_id, medium_id |-> m.medium_id, source |-> m.provider,
                         qty |-> MapThenSumSet(LAMBDA x : x.qty, Group(m))]
  <2>1. PICK x \in MediaSource(db) : r = Edge(x)
    BY DEF IssuedOn
  <2>2. PICK y \in MediaSource(db) : q = Edge(y)
    BY DEF IssuedOn
  <2>3. r.release_id = q.release_id /\ r.medium_id = q.medium_id /\ r.source = q.source
    BY SameKey, Keys
  <2>4. x.release_id = y.release_id /\ x.medium_id = y.medium_id /\ x.provider = y.provider
    BY <2>1, <2>2, <2>3
  <2>5. Group(x) = Group(y)
    BY <2>4
  <2>6. Edge(x) = Edge(y)
    <3> HIDE DEF Group
    <3> QED  BY <2>4, <2>5
  <2> QED  BY <2>1, <2>2, <2>6
<1> QED  BY <1>1, <1>2

\* One label view row of a label, since an external id has one open alias.
LEMMA LabelRows ==
  ASSUME NEW db, WellFormed(db), NEW l \in Labels(db), NEW m \in Labels(db), l.label_id = m.label_id
  PROVE  l = m
<1> DEFINE Row(id, native) == [label_id |-> id, gm_id |-> native]
<1>1. ASSUME NEW x \in Labels(db)
      PROVE  \E native \in NativeIdentityJoin(db, "label", x.label_id) : x = Row(x.label_id, native)
  <2>1. PICK id \in DOMAIN db.labels : \E native \in NativeIdentityJoin(db, "label", id) : x = Row(id, native)
    BY DEF Labels
  <2>2. x.label_id = id
    BY <2>1
  <2> QED  BY <2>1, <2>2
<1>2. ASSUME NEW id, NEW n \in NativeIdentityJoin(db, "label", id), NEW o \in NativeIdentityJoin(db, "label", id)
      PROVE  n = o
  <2> DEFINE found == {x \in db.aliases : x.provider = "discogs" /\ x.kind = "label" /\ x.external_id = id /\ x.open}
  <2>1. \A a, b \in found : a.native_id = b.native_id
    <3> SUFFICES ASSUME NEW a \in found, NEW b \in found PROVE a.native_id = b.native_id
      OBVIOUS
    <3>1. <<a.provider, a.kind, a.external_id>> = <<b.provider, b.kind, b.external_id>>
      OBVIOUS
    <3>2. a \in db.aliases /\ b \in db.aliases /\ a.open /\ b.open
      OBVIOUS
    <3> QED  BY <3>1, <3>2 DEF WellFormed
  <2>2. NativeIdentityJoin(db, "label", id)
          = IF {a.native_id : a \in found} = {} THEN {Null} ELSE {a.native_id : a \in found}
    BY DEF NativeIdentityJoin
  <2> HIDE DEF found
  <2> QED  BY <2>1, <2>2
<1>3. PICK n \in NativeIdentityJoin(db, "label", l.label_id) : l = Row(l.label_id, n)
  BY <1>1
<1>4. PICK o \in NativeIdentityJoin(db, "label", m.label_id) : m = Row(m.label_id, o)
  BY <1>1
<1>5. n = o
  BY <1>2
<1> QED  BY <1>3, <1>4, <1>5

\* The counters have one row of what they count.
LEMMA CounterBodies ==
  ASSUME NEW db, NEW g
  PROVE  /\ Unique("genre_stats", GenreStats(db, g)) /\ Unique("style_stats", StyleStats(db, g))
         /\ Unique("label_stats", LabelStats(db, g)) /\ Unique("artist_degree", ArtistDegree(g))
         /\ Unique("release_degree_base", ReleaseDegreeBase(g)) /\ Unique("vertex_degree", VertexDegree(g))
         /\ Unique("artist_genre", ArtistGenre(g)) /\ Unique("label_genre", LabelGenre(g))
<1>1. Unique("genre_stats", GenreStats(db, g))
  <2> DEFINE Row(name) ==
         [name |-> name, release_count |-> Cardinality({e \in g.in_genre : e.genre_name = name}),
          artist_count |-> Distinct(Others(g, "in_genre", "genre_name", name, "by_artist"), "artist_id"),
          label_count |-> Distinct(Others(g, "in_genre", "genre_name", name, "on_label"), "label_id"),
          style_count |-> Distinct(Others(g, "in_genre", "genre_name", name, "in_style"), "style_name"),
          first_year |-> FirstYear(db, g, "in_genre", "genre_name", name)]
  <2>1. ASSUME NEW r \in GenreStats(db, g) PROVE r = Row(r.name)
    <3>1. PICK n \in g.genre : r = Row(n.name)
      BY DEF GenreStats
    <3>2. r.name = n.name
      BY <3>1
    <3> QED  BY <3>1, <3>2
  <2> HIDE DEF Row
  <2> QED  BY <2>1, SameKey, Keys DEF Unique
<1>2. Unique("style_stats", StyleStats(db, g))
  <2> DEFINE Row(name) ==
         [name |-> name, release_count |-> Cardinality({e \in g.in_style : e.style_name = name}),
          artist_count |-> Distinct(Others(g, "in_style", "style_name", name, "by_artist"), "artist_id"),
          label_count |-> Distinct(Others(g, "in_style", "style_name", name, "on_label"), "label_id"),
          genre_count |-> Distinct(Others(g, "in_style", "style_name", name, "in_genre"), "genre_name"),
          first_year |-> FirstYear(db, g, "in_style", "style_name", name)]
  <2>1. ASSUME NEW r \in StyleStats(db, g) PROVE r = Row(r.name)
    <3>1. PICK n \in g.style : r = Row(n.name)
      BY DEF StyleStats
    <3>2. r.name = n.name
      BY <3>1
    <3> QED  BY <3>1, <3>2
  <2> HIDE DEF Row
  <2> QED  BY <2>1, SameKey, Keys DEF Unique
<1>3. Unique("label_stats", LabelStats(db, g))
  <2> DEFINE Row(id) ==
         [label_id |-> id, release_count |-> Cardinality({e \in g.on_label : e.label_id = id}),
          artist_count |-> Distinct(Others(g, "on_label", "label_id", id, "by_artist"), "artist_id"),
          genre_count |-> Distinct(Others(g, "on_label", "label_id", id, "in_genre"), "genre_name")]
  <2>1. ASSUME NEW r \in LabelStats(db, g) PROVE r = Row(r.label_id)
    <3>1. PICK l \in Labels(db) : r = Row(l.label_id)
      BY DEF LabelStats
    <3>2. r.label_id = l.label_id
      BY <3>1
    <3> QED  BY <3>1, <3>2
  <2> HIDE DEF Row
  <2> QED  BY <2>1, SameKey, Keys DEF Unique
<1>4. Unique("artist_degree", ArtistDegree(g))
  <2> DEFINE Row(id) == [artist_id |-> id, degree |-> Tally(g, ArtistEnds, id)]
  <2>1. ASSUME NEW r \in ArtistDegree(g) PROVE r = Row(r.artist_id)
    <3>1. PICK v \in EndValues(g, ArtistEnds) : r = Row(v)
      BY DEF ArtistDegree
    <3>2. r.artist_id = v
      BY <3>1
    <3> QED  BY <3>1, <3>2
  <2> HIDE DEF Row
  <2> QED  BY <2>1, SameKey, Keys DEF Unique
<1>5. Unique("release_degree_base", ReleaseDegreeBase(g))
  <2> DEFINE Row(id) == [release_id |-> id, degree |-> Tally(g, ReleaseEnds, id)]
  <2>1. ASSUME NEW r \in ReleaseDegreeBase(g) PROVE r = Row(r.release_id)
    <3>1. PICK v \in EndValues(g, ReleaseEnds) : r = Row(v)
      BY DEF ReleaseDegreeBase
    <3>2. r.release_id = v
      BY <3>1
    <3> QED  BY <3>1, <3>2
  <2> HIDE DEF Row
  <2> QED  BY <2>1, SameKey, Keys DEF Unique
<1>6. Unique("vertex_degree", VertexDegree(g))
  <2> DEFINE Row(k, v) == [kind |-> k, key |-> v, degree |-> Tally(g, VertexDegreeEnds(k), v)]
  <2>1. ASSUME NEW r \in VertexDegree(g) PROVE r = Row(r.kind, r.key)
    <3>1. PICK k \in VertexKinds : \E v \in EndValues(g, VertexDegreeEnds(k)) : r = Row(k, v)
      BY DEF VertexDegree
    <3>2. PICK v : r = Row(k, v)
      BY <3>1
    <3>3. r.kind = k /\ r.key = v
      BY <3>2
    <3> QED  BY <3>2, <3>3
  <2> HIDE DEF Row
  <2> QED  BY <2>1, SameKey, Keys DEF Unique
<1>7. Unique("artist_genre", ArtistGenre(g))
  <2> DEFINE Row(id, name) ==
         [artist_id |-> id, genre_name |-> name,
          release_count |-> Cardinality({c \in g.by_artist : c.artist_id = id
                              /\ [release_id |-> c.release_id, genre_name |-> name] \in g.in_genre})]
  <2>1. ASSUME NEW r \in ArtistGenre(g) PROVE r = Row(r.artist_id, r.genre_name)
    <3>1. PICK b \in g.by_artist : \E n \in {x \in g.in_genre : x.release_id = b.release_id} :
            r = Row(b.artist_id, n.genre_name)
      BY DEF ArtistGenre
    <3>2. PICK n : r = Row(b.artist_id, n.genre_name)
      BY <3>1
    <3>3. r.artist_id = b.artist_id /\ r.genre_name = n.genre_name
      BY <3>2
    <3> QED  BY <3>2, <3>3
  <2> HIDE DEF Row
  <2> QED  BY <2>1, SameKey, Keys DEF Unique
<1>8. Unique("label_genre", LabelGenre(g))
  <2> DEFINE Row(id, name) ==
         [label_id |-> id, genre_name |-> name,
          release_count |-> Cardinality({c \in g.on_label : c.label_id = id
                              /\ [release_id |-> c.release_id, genre_name |-> name] \in g.in_genre})]
  <2>1. ASSUME NEW r \in LabelGenre(g) PROVE r = Row(r.label_id, r.genre_name)
    <3>1. PICK b \in g.on_label : \E n \in {x \in g.in_genre : x.release_id = b.release_id} :
            r = Row(b.label_id, n.genre_name)
      BY DEF LabelGenre
    <3>2. PICK n : r = Row(b.label_id, n.genre_name)
      BY <3>1
    <3>3. r.label_id = b.label_id /\ r.genre_name = n.genre_name
      BY <3>2
    <3> QED  BY <3>2, <3>3
  <2> HIDE DEF Row
  <2> QED  BY <2>1, SameKey, Keys DEF Unique
<1> QED  BY <1>1, <1>2, <1>3, <1>4, <1>5, <1>6, <1>7, <1>8

\* The memberships of MusicBrainz differ from those of Discogs in their source.
LEMMA MembershipBody ==
  ASSUME NEW db, NEW g, Whole("member_of", g.member_of)
  PROVE  Unique("artist_member_of", ArtistMemberOf(db, g))
<1> DEFINE Two(m, n, s) == [member_artist_id |-> m, group_artist_id |-> n, source |-> s]
<1>1. ASSUME NEW r \in ArtistMemberOf(db, g)
      PROVE  r = Two(r.member_artist_id, r.group_artist_id, r.source)
  <2>1. CASE \E e \in g.member_of : r = Over(e, [source |-> "discogs"])
    <3>1. PICK e \in g.member_of : r = Over(e, [source |-> "discogs"])
      BY <2>1
    <3>2. e = Key("member_of", e)
      BY DEF Whole
    <3>3. DOMAIN e = {"member_artist_id", "group_artist_id"}
      <4>1. DOMAIN Key("member_of", e) = KeyColumns["member_of"]
        BY DEF Key, Restrict
      <4> QED  BY <3>2, <4>1, Keys
    <3> QED  BY <3>1, <3>3 DEF Over
  <2>2. CASE \E m, n : r = Two(m, n, "musicbrainz")
    BY <2>2
  <2> QED  BY <2>1, <2>2 DEF ArtistMemberOf
<1> HIDE DEF Two
<1> QED  BY <1>1, SameKey, Keys DEF Unique

\* No INSERT of a body raises on a duplicate.
LEMMA NoDuplicates ==
  ASSUME NEW db, WellFormed(db), NEW g, NEW r \in Relations,
         r = "artist_member_of" => Whole("member_of", g.member_of)
  PROVE  Unique(r, Body(r, db, g)) /\ ~Duplicates(r, db, Body(r, db, g))
<1>1. Unique(r, Body(r, db, g))
  <2>1. CASE r \in Plain
    BY <2>1, PlainBodies, WholeUnique
  <2>2. CASE r \in {"medium", "company", "credited_to"}
    BY <2>2, ChosenBodies, Bodies
  <2>3. CASE r \in {"credited_on", "issued_on"}
    BY <2>3, GroupedBodies, Bodies
  <2>4. CASE r \in {"track_credited_on", "track_by_artist"}
    BY <2>4, TrackedBodies, Bodies
  <2>5. CASE r = "artist_member_of"
    BY <2>5, MembershipBody, Bodies
  <2>6. CASE r \in DOMAIN CounterKeys
    BY <2>6, CounterBodies, Bodies, Groups
  <2> QED  BY <2>1, <2>2, <2>3, <2>4, <2>5, <2>6, Columns, Groups DEF Plain
<1> QED  BY <1>1, LabelRows DEF Duplicates

-----------------------------------------------------------------------------
(* What a body states of one release, master or artist.                    *)

SameRelease(x, y, id) == id \in DOMAIN x.releases /\ id \in DOMAIN y.releases /\ Release(x, id) = Release(y, id)
SameDocument(f, h, id) == id \in DOMAIN f /\ id \in DOMAIN h /\ f[id] = h[id]
\* What the documents of x say, those of y or of z say as well.
Covered(x, y, z) ==
  /\ \A id \in DOMAIN x.releases : SameRelease(x, y, id) \/ SameRelease(x, z, id)
  /\ \A id \in DOMAIN x.masters : SameDocument(x.masters, y.masters, id) \/ SameDocument(x.masters, z.masters, id)
  /\ \A id \in DOMAIN x.artists : SameDocument(x.artists, y.artists, id) \/ SameDocument(x.artists, z.artists, id)

\* What two catalogs agree on when they say the same of a release.
LEMMA ReleaseParts ==
  ASSUME NEW x, NEW y, NEW id, SameRelease(x, y, id)
  PROVE  /\ x.releases[id] = y.releases[id] /\ x.media[id] = y.media[id]
         /\ \A m \in DOMAIN x.mb["release"] : x.mb["release"][m].discogs = id =>
              m \in DOMAIN y.mb["release"] /\ y.mb["release"][m] = x.mb["release"][m]
<1> DEFINE Mb(db) == {<<m, db.mb["release"][m]>> :
                        m \in {n \in DOMAIN db.mb["release"] : db.mb["release"][n].discogs = id}}
<1>1. Release(x, id) = <<x.releases[id], x.media[id], Mb(x)>> /\ Release(y, id) = <<y.releases[id], y.media[id], Mb(y)>>
  BY DEF Release
<1>2. x.releases[id] = y.releases[id] /\ x.media[id] = y.media[id] /\ Mb(x) = Mb(y)
  <2> HIDE DEF Mb
  <2>1. <<x.releases[id], x.media[id], Mb(x)>> = <<y.releases[id], y.media[id], Mb(y)>>
    BY <1>1 DEF SameRelease
  <2>2. \A a, b, c, d, e, f : <<a, b, c>> = <<d, e, f>> => a = d /\ b = e /\ c = f
    OBVIOUS
  <2> QED  BY <2>1, <2>2, Zenon
<1>3. ASSUME NEW m \in DOMAIN x.mb["release"], x.mb["release"][m].discogs = id
      PROVE  m \in DOMAIN y.mb["release"] /\ y.mb["release"][m] = x.mb["release"][m]
  <2>1. <<m, x.mb["release"][m]>> \in Mb(x)
    BY <1>3
  <2>2. <<m, x.mb["release"][m]>> \in Mb(y)
    BY <2>1, <1>2
  <2>3. PICK n \in DOMAIN y.mb["release"] : <<m, x.mb["release"][m]>> = <<n, y.mb["release"][n]>>
    BY <2>2
  <2> QED  BY <2>3
<1> QED  BY <1>2, <1>3

\* A row of a source comes from one release.
LEMMA CreditOf ==
  ASSUME NEW db, NEW c
  PROVE  c \in CreditSource(db) <=>
           /\ c.release_id \in DOMAIN db.releases
           /\ c \in Placed([release_id |-> c.release_id], Credits(JsonbArray(Get(db.releases[c.release_id], "extraartists"))))
<1>1. ASSUME c \in CreditSource(db)
      PROVE  /\ c.release_id \in DOMAIN db.releases
             /\ c \in Placed([release_id |-> c.release_id], Credits(JsonbArray(Get(db.releases[c.release_id], "extraartists"))))
  <2>1. PICK id \in DOMAIN db.releases :
          c \in Placed([release_id |-> id], Credits(JsonbArray(Get(db.releases[id], "extraartists"))))
    BY <1>1 DEF CreditSource
  <2>2. PICK row : c = Over([release_id |-> id], row)
    BY <2>1 DEF Placed
  <2>3. c.release_id = id
    BY <2>2 DEF Over
  <2> QED  BY <2>1, <2>3
<1>2. ASSUME c.release_id \in DOMAIN db.releases,
             c \in Placed([release_id |-> c.release_id], Credits(JsonbArray(Get(db.releases[c.release_id], "extraartists"))))
      PROVE  c \in CreditSource(db)
  BY <1>2 DEF CreditSource
<1> QED  BY <1>1, <1>2

TrackCreditAt(id, t) ==
  Placed(OnTrack(id, t), Credits(XmltodictArray(Get(t.value, "extraartists"), "artist")))
\* A track credit is stated by its own release and a track of it.
LEMMA TrackCreditOf ==
  ASSUME NEW db, NEW c
  PROVE  c \in TrackCreditSource(db) <=>
           /\ c.release_id \in DOMAIN db.releases
           /\ \E t \in TracksOf(db.releases[c.release_id]) : c \in TrackCreditAt(c.release_id, t)
<1>1. ASSUME c \in TrackCreditSource(db)
      PROVE  /\ c.release_id \in DOMAIN db.releases
             /\ \E t \in TracksOf(db.releases[c.release_id]) : c \in TrackCreditAt(c.release_id, t)
  <2>1. PICK id \in DOMAIN db.releases : \E t \in TracksOf(db.releases[id]) : c \in TrackCreditAt(id, t)
    BY <1>1 DEF TrackCreditSource, TrackCreditAt
  <2>2. c.release_id = id
    BY <2>1, TrackRow DEF TrackCreditAt
  <2> QED  BY <2>1, <2>2
<1>2. ASSUME c.release_id \in DOMAIN db.releases,
             \E t \in TracksOf(db.releases[c.release_id]) : c \in TrackCreditAt(c.release_id, t)
      PROVE  c \in TrackCreditSource(db)
  BY <1>2 DEF TrackCreditSource, TrackCreditAt
<1> QED  BY <1>1, <1>2

TrackPerformerAt(id, t) ==
  {Over(OnTrack(id, t), [artist_id |-> Trimmed(GetText(a, "id"))]) :
     a \in {x \in Range(XmltodictArray(Get(t.value, "artists"), "artist")) : UsableId(GetText(x, "id"))}}
\* A track performer is stated by its own release and a track of it.
LEMMA TrackPerformerOf ==
  ASSUME NEW db, NEW c
  PROVE  c \in TrackPerformerSource(db) <=>
           /\ c.release_id \in DOMAIN db.releases
           /\ \E t \in TracksOf(db.releases[c.release_id]) : c \in TrackPerformerAt(c.release_id, t)
<1>1. ASSUME c \in TrackPerformerSource(db)
      PROVE  /\ c.release_id \in DOMAIN db.releases
             /\ \E t \in TracksOf(db.releases[c.release_id]) : c \in TrackPerformerAt(c.release_id, t)
  <2>1. PICK id \in DOMAIN db.releases : \E t \in TracksOf(db.releases[id]) : c \in TrackPerformerAt(id, t)
    BY <1>1 DEF TrackPerformerSource, TrackPerformerAt
  <2>2. PICK t, row : c = Over(OnTrack(id, t), row)
    BY <2>1 DEF TrackPerformerAt
  <2>3. c.release_id = id
    BY <2>2 DEF Over, OnTrack
  <2> QED  BY <2>1, <2>3
<1>2. ASSUME c.release_id \in DOMAIN db.releases,
             \E t \in TracksOf(db.releases[c.release_id]) : c \in TrackPerformerAt(c.release_id, t)
      PROVE  c \in TrackPerformerSource(db)
  BY <1>2 DEF TrackPerformerSource, TrackPerformerAt
<1> QED  BY <1>1, <1>2

\* A company credit is stated by its own release and a place in its list.
LEMMA CompanyOf ==
  ASSUME NEW db, NEW c
  PROVE  c \in CompanySource(db) <=>
           /\ c.release_id \in DOMAIN db.releases
           /\ \E i \in DOMAIN CompanyItems(db, c.release_id) : c = CompanyAt(db, c.release_id, i)
<1>1. ASSUME c \in CompanySource(db)
      PROVE  /\ c.release_id \in DOMAIN db.releases
             /\ \E i \in DOMAIN CompanyItems(db, c.release_id) : c = CompanyAt(db, c.release_id, i)
  <2>1. PICK id \in DOMAIN db.releases : \E i \in DOMAIN CompanyItems(db, id) : c = CompanyAt(db, id, i)
    BY <1>1 DEF CompanySource, CompanyItems, CompanyAt
  <2>2. c.release_id = id
    BY <2>1 DEF CompanyAt
  <2> QED  BY <2>1, <2>2
<1>2. ASSUME c.release_id \in DOMAIN db.releases,
             \E i \in DOMAIN CompanyItems(db, c.release_id) : c = CompanyAt(db, c.release_id, i)
      PROVE  c \in CompanySource(db)
  BY <1>2 DEF CompanySource, CompanyItems, CompanyAt
<1> QED  BY <1>1, <1>2

\* A source row of one catalog is one of another that says the same of its release.
LEMMA Carried ==
  ASSUME NEW x, NEW y, NEW c
  PROVE  /\ SameRelease(x, y, c.release_id) =>
              /\ c \in CreditSource(x) => c \in CreditSource(y)
              /\ c \in TrackCreditSource(x) => c \in TrackCreditSource(y)
              /\ c \in TrackPerformerSource(x) => c \in TrackPerformerSource(y)
              /\ c \in CompanySource(x) => c \in CompanySource(y)
              /\ c \in MediaSource(x) => c \in MediaSource(y)
         /\ c \in MediaSource(x) => c.release_id \in DOMAIN x.releases
<1> DEFINE id == c.release_id
<1>1. ASSUME SameRelease(x, y, id)
      PROVE  id \in DOMAIN y.releases /\ x.releases[id] = y.releases[id] /\ x.media[id] = y.media[id]
  BY <1>1, ReleaseParts DEF SameRelease
<1>2. SameRelease(x, y, id) /\ c \in CreditSource(x) => c \in CreditSource(y)
  <2> HIDE DEF id
  <2>1. c \in CreditSource(x) => c \in Placed([release_id |-> id], Credits(JsonbArray(Get(x.releases[id], "extraartists"))))
    BY CreditOf DEF id
  <2>2. id \in DOMAIN y.releases /\ c \in Placed([release_id |-> id], Credits(JsonbArray(Get(y.releases[id], "extraartists"))))
          => c \in CreditSource(y)
    BY CreditOf DEF id
  <2> QED  BY <1>1, <2>1, <2>2
<1>3. SameRelease(x, y, id) /\ c \in TrackCreditSource(x) => c \in TrackCreditSource(y)
  <2>1. c \in TrackCreditSource(x) => \E t \in TracksOf(x.releases[id]) : c \in TrackCreditAt(id, t)
    BY TrackCreditOf
  <2>2. id \in DOMAIN y.releases /\ (\E t \in TracksOf(y.releases[id]) : c \in TrackCreditAt(id, t))
          => c \in TrackCreditSource(y)
    BY TrackCreditOf
  <2> HIDE DEF id
  <2> QED  BY <1>1, <2>1, <2>2
<1>4. SameRelease(x, y, id) /\ c \in TrackPerformerSource(x) => c \in TrackPerformerSource(y)
  <2>1. c \in TrackPerformerSource(x) => \E t \in TracksOf(x.releases[id]) : c \in TrackPerformerAt(id, t)
    BY TrackPerformerOf
  <2>2. id \in DOMAIN y.releases /\ (\E t \in TracksOf(y.releases[id]) : c \in TrackPerformerAt(id, t))
          => c \in TrackPerformerSource(y)
    BY TrackPerformerOf
  <2> HIDE DEF id
  <2> QED  BY <1>1, <2>1, <2>2
<1>5. SameRelease(x, y, id) /\ c \in CompanySource(x) => c \in CompanySource(y)
  <2>1. c \in CompanySource(x) => \E i \in DOMAIN CompanyItems(x, id) : c = CompanyAt(x, id, i)
    BY CompanyOf
  <2>2. id \in DOMAIN y.releases /\ (\E i \in DOMAIN CompanyItems(y, id) : c = CompanyAt(y, id, i)) => c \in CompanySource(y)
    BY CompanyOf
  <2> HIDE DEF id
  <2>3. SameRelease(x, y, id) => CompanyItems(x, id) = CompanyItems(y, id)
    BY <1>1 DEF CompanyItems
  <2>4. ASSUME CompanyItems(x, id) = CompanyItems(y, id), NEW i PROVE CompanyAt(x, id, i) = CompanyAt(y, id, i)
    BY <2>4 DEF CompanyAt
  <2> QED  BY <1>1, <2>1, <2>2, <2>3, <2>4
<1>6. ASSUME NEW media, NEW place, c \in MediaOf(media, place), "release_id" \in DOMAIN place
      PROVE  id = place.release_id
  <2>1. PICK row : c = Over(place, row)
    BY <1>6 DEF MediaOf
  <2> QED  BY <2>1, <1>6 DEF Over
<1>7. ASSUME c \in DiscogsMedia(x)
      PROVE  /\ id \in DOMAIN x.releases
             /\ SameRelease(x, y, id) => c \in MediaSource(y)
  <2>1. PICK n \in DOMAIN x.releases : c \in MediaOf(x.media[n], [release_id |-> n, provider |-> "discogs", from |-> n])
    BY <1>7 DEF DiscogsMedia
  <2>2. n = id
    BY <2>1, <1>6
  <2>3. ASSUME SameRelease(x, y, id)
        PROVE  c \in DiscogsMedia(y)
    <3>1. c \in MediaOf(y.media[n], [release_id |-> n, provider |-> "discogs", from |-> n]) /\ n \in DOMAIN y.releases
      BY <2>1, <2>2, <2>3, <1>1
    <3> HIDE DEF id
    <3> QED  BY <3>1 DEF DiscogsMedia
  <2> QED  BY <2>2, <2>3 DEF MediaSource
<1>8. ASSUME c \in MusicBrainzMedia(x)
      PROVE  /\ id \in DOMAIN x.releases
             /\ SameRelease(x, y, id) => c \in MediaSource(y)
  <2> DEFINE At(db, b) == MediaOf(db.mb["release"][b].media,
                            [release_id |-> db.mb["release"][b].discogs, provider |-> "musicbrainz", from |-> b])
  <2>1. PICK b \in DOMAIN x.mb["release"] : x.mb["release"][b].discogs \in DOMAIN x.releases /\ c \in At(x, b)
    BY <1>8 DEF MusicBrainzMedia
  <2>2. x.mb["release"][b].discogs = id
    <3>1. "release_id" \in DOMAIN [release_id |-> x.mb["release"][b].discogs, provider |-> "musicbrainz", from |-> b]
      OBVIOUS
    <3> HIDE DEF id
    <3> QED  BY <2>1, <1>6, <3>1
  <2>3. ASSUME SameRelease(x, y, id)
        PROVE  c \in MusicBrainzMedia(y)
    <3>1. b \in DOMAIN y.mb["release"] /\ y.mb["release"][b] = x.mb["release"][b]
      BY <2>2, <2>3, ReleaseParts
    <3>2. c \in At(y, b)
      BY <2>1, <3>1
    <3>3. y.mb["release"][b].discogs \in DOMAIN y.releases
      BY <2>2, <2>3, <3>1, <1>1
    <3> QED  BY <3>1, <3>2, <3>3 DEF MusicBrainzMedia
  <2> QED  BY <2>1, <2>2, <2>3 DEF MediaSource
<1> QED  BY <1>2, <1>3, <1>4, <1>5, <1>7, <1>8 DEF MediaSource

\* A catalog covered by two others states no source row that neither states.
LEMMA SourcesCovered ==
  ASSUME NEW x, NEW y, NEW z, Covered(x, y, z)
  PROVE  /\ CreditSource(x) \subseteq CreditSource(y) \cup CreditSource(z)
         /\ TrackCreditSource(x) \subseteq TrackCreditSource(y) \cup TrackCreditSource(z)
         /\ TrackPerformerSource(x) \subseteq TrackPerformerSource(y) \cup TrackPerformerSource(z)
         /\ CompanyCredits(x) \subseteq CompanyCredits(y) \cup CompanyCredits(z)
         /\ MediaSource(x) \subseteq MediaSource(y) \cup MediaSource(z)
         /\ TaggedDocuments(x) \subseteq TaggedDocuments(y) \cup TaggedDocuments(z)
<1>1. \A id \in DOMAIN x.releases : SameRelease(x, y, id) \/ SameRelease(x, z, id)
  BY DEF Covered
<1>2. CreditSource(x) \subseteq CreditSource(y) \cup CreditSource(z)
  BY <1>1, CreditOf, Carried
<1>3. TrackCreditSource(x) \subseteq TrackCreditSource(y) \cup TrackCreditSource(z)
  BY <1>1, TrackCreditOf, Carried
<1>4. TrackPerformerSource(x) \subseteq TrackPerformerSource(y) \cup TrackPerformerSource(z)
  BY <1>1, TrackPerformerOf, Carried
<1>5. CompanyCredits(x) \subseteq CompanyCredits(y) \cup CompanyCredits(z)
  BY <1>1, CompanyOf, Carried DEF CompanyCredits
<1>6. MediaSource(x) \subseteq MediaSource(y) \cup MediaSource(z)
  BY <1>1, Carried
<1>7. TaggedDocuments(x) \subseteq TaggedDocuments(y) \cup TaggedDocuments(z)
  <2> SUFFICES ASSUME NEW doc \in TaggedDocuments(x)
               PROVE  doc \in TaggedDocuments(y) \cup TaggedDocuments(z)
    OBVIOUS
  <2>1. CASE doc \in Range(x.releases)
    <3>1. PICK id \in DOMAIN x.releases : doc = x.releases[id]
      BY <2>1 DEF Range
    <3>2. (id \in DOMAIN y.releases /\ doc = y.releases[id]) \/ (id \in DOMAIN z.releases /\ doc = z.releases[id])
      BY <1>1, <3>1, ReleaseParts DEF SameRelease
    <3> QED  BY <3>2 DEF TaggedDocuments, Range
  <2>2. CASE doc \in Range(x.masters)
    <3>1. PICK id \in DOMAIN x.masters : doc = x.masters[id]
      BY <2>2 DEF Range
    <3> QED  BY <3>1 DEF TaggedDocuments, Range, Covered, SameDocument
  <2> QED  BY <2>1, <2>2 DEF TaggedDocuments
<1> QED  BY <1>2, <1>3, <1>4, <1>5, <1>6, <1>7

-----------------------------------------------------------------------------
(* What a body keys: the rows chosen as the first of their key stand for    *)
(* all of them.                                                            *)

\* Every set of naturals that has a member has a least one.
LEMMA LeastNat ==
  ASSUME NEW N \in SUBSET Nat, N # {}
  PROVE  \E n \in N : \A m \in N : n <= m
<1>1. IsWellFoundedOn(OpToRel(<, Nat), Nat)
  BY NatLessThanWellFounded
<1>2. PICK n \in N : \A m \in N : ~(<<m, n>> \in OpToRel(<, Nat))
  BY <1>1, WFMin
<1>3. \A m \in N : ~(m < n)
  BY <1>2 DEF OpToRel
<1> QED  BY <1>3

\* DISTINCT ON drops no medium.
LEMMA FirstMedium ==
  ASSUME NEW db, WellFormed(db), NEW m \in MediaSource(db)
  PROVE  \E v \in Medium(db) : v.medium_id = m.medium_id
<1> DEFINE Same == {x \in MediaSource(db) : x.medium_id = m.medium_id}
           Ranks == {Collate[x.family_name] : x \in Same}
<1>0. \A t \in Texts : Collate[t] \in Nat
  BY TextAssumption
<1>1. Ranks \in SUBSET Nat
  <2>1. \A x \in Same : x.family_name \in Texts
    BY MediumRow
  <2> HIDE DEF Same
  <2> QED  BY <1>0, <2>1
<1>2. Ranks # {}
  OBVIOUS
<1>3. PICK n \in Ranks : \A k \in Ranks : n <= k
  <2> HIDE DEF Ranks
  <2> QED  BY <1>1, <1>2, LeastNat
<1>4. PICK x \in Same : n = Collate[x.family_name]
  OBVIOUS
<1>5. x \in MediaSource(db) /\ x.medium_id = m.medium_id
  OBVIOUS
<1>6. \A y \in MediaSource(db) : y.medium_id = x.medium_id => Collate[x.family_name] <= Collate[y.family_name]
  BY <1>3, <1>4, <1>5
<1> DEFINE v == [medium_id |-> x.medium_id, family |-> x.family_name, label |-> MediumLabel(x.medium_id)]
<1>7. v \in Medium(db)
  BY <1>5, <1>6 DEF Medium
<1> QED  BY <1>5, <1>7

\* DISTINCT ON drops no company.
LEMMA FirstCompany ==
  ASSUME NEW db, WellFormed(db), NEW c \in CompanyCredits(db)
  PROVE  \E v \in Company(db) : v.company_id = c.company_id
<1> DEFINE Same == {x \in CompanyCredits(db) : x.company_id = c.company_id}
           Ranks == {Collate[Named(x)] : x \in Same}
<1>0. \A t \in Texts : Collate[t] \in Nat
  BY TextAssumption
<1>1. Ranks \in SUBSET Nat
  <2>1. \A x \in Same : Named(x) \in Texts
    BY CompanyRow DEF CompanyCredits
  <2> HIDE DEF Same
  <2> QED  BY <1>0, <2>1
<1>2. Ranks # {}
  OBVIOUS
<1>3. PICK n \in Ranks : \A k \in Ranks : n <= k
  <2> HIDE DEF Ranks
  <2> QED  BY <1>1, <1>2, LeastNat
<1>4. PICK x \in Same : n = Collate[Named(x)]
  OBVIOUS
<1>5. x \in CompanyCredits(db) /\ x.company_id = c.company_id
  OBVIOUS
<1>6. \A y \in CompanyCredits(db) : y.company_id = x.company_id => Collate[Named(x)] <= Collate[Named(y)]
  BY <1>3, <1>4, <1>5
<1> DEFINE v == [company_id |-> x.company_id, name |-> Named(x),
                 discogs_label_id |-> IF x.company_id \in DOMAIN Number THEN x.company_id ELSE Null]
<1>7. v \in Company(db)
  BY <1>5, <1>6 DEF Company
<1> QED  BY <1>5, <1>7

\* DISTINCT ON drops no company credit.
LEMMA FirstCredit ==
  ASSUME NEW db, WellFormed(db), NEW c \in CompanyCredits(db)
  PROVE  \E e \in CreditedTo(db) : /\ e.release_id = c.release_id /\ e.company_id = c.company_id /\ e.role = c.role
                                   /\ e.source = "discogs"
<1> DEFINE Alike(x, y) == y.release_id = x.release_id /\ y.company_id = x.company_id /\ y.role = x.role
           Same == {x \in CompanyCredits(db) : Alike(c, x)}
           Ranks == {x.entry_position : x \in Same}
<1>1. Ranks \in SUBSET Nat
  BY CompanyRow DEF CompanyCredits
<1>2. Ranks # {}
  OBVIOUS
<1>3. PICK n \in Ranks : \A k \in Ranks : n <= k
  <2> HIDE DEF Ranks
  <2> QED  BY <1>1, <1>2, LeastNat
<1>4. PICK x \in Same : n = x.entry_position
  OBVIOUS
<1>5. x \in CompanyCredits(db) /\ Alike(c, x)
  OBVIOUS
<1>6. \A y \in CompanyCredits(db) : Alike(x, y) => x.entry_position <= y.entry_position
  BY <1>3, <1>4, <1>5
<1> DEFINE e == [release_id |-> x.release_id, company_id |-> x.company_id, role |-> x.role,
                 role_category |-> x.role_category, source |-> "discogs"]
<1>7. e \in CreditedTo(db)
  BY <1>5, <1>6 DEF CreditedTo
<1> QED  BY <1>5, <1>7

\* Edges of documents that two other sets of documents have between them.
LEMMA IdEdgesCovered ==
  ASSUME NEW x, NEW y, NEW z, NEW source, NEW array, NEW target,
         \A id \in DOMAIN x : SameDocument(x, y, id) \/ SameDocument(x, z, id)
  PROVE  /\ IdEdges(x, source, array, target) \subseteq IdEdges(y, source, array, target) \cup IdEdges(z, source, array, target)
         /\ TagEdges(x, source, array, target) \subseteq TagEdges(y, source, array, target) \cup TagEdges(z, source, array, target)
<1>1. ASSUME NEW e \in IdEdges(x, source, array, target)
      PROVE  e \in IdEdges(y, source, array, target) \cup IdEdges(z, source, array, target)
  <2>1. PICK id \in DOMAIN x : \E t \in Ids(x[id], array) : e = Ends(source, id, target, t)
    BY <1>1, IdRows
  <2>2. CASE SameDocument(x, y, id)
    BY <2>1, <2>2 DEF SameDocument, IdEdges
  <2>3. CASE SameDocument(x, z, id)
    BY <2>1, <2>3 DEF SameDocument, IdEdges
  <2> QED  BY <2>2, <2>3
<1>2. ASSUME NEW e \in TagEdges(x, source, array, target)
      PROVE  e \in TagEdges(y, source, array, target) \cup TagEdges(z, source, array, target)
  <2>1. PICK id \in DOMAIN x : \E t \in Tags(Get(x[id], array)) : e = Ends(source, id, target, t)
    BY <1>2, TagRows
  <2>2. CASE SameDocument(x, y, id)
    BY <2>1, <2>2 DEF SameDocument, TagEdges
  <2>3. CASE SameDocument(x, z, id)
    BY <2>1, <2>3 DEF SameDocument, TagEdges
  <2> QED  BY <2>2, <2>3
<1> QED  BY <1>1, <1>2

\* The body of a document relation reads no table.
LEMMA SameBody ==
  ASSUME NEW db, NEW g, NEW h, NEW r \in DocumentRelations
  PROVE  Body(r, db, g) = Body(r, db, h)
<1>1. \A k : Body(r, db, k) = IF r \in DOMAIN VertexKeys THEN VertexBody(r, db) ELSE EdgeBody(r, db)
  BY Groups DEF Body, DocumentRelations
<1> QED  BY <1>1

\* The keys of the rows a catalog states for a table.
Stated(r, db) == KeysOf(r, Body(r, db, <<>>))

\* A key is stated by a row of the body.
LEMMA StatedRow ==
  ASSUME NEW r, NEW db, NEW k
  PROVE  k \in Stated(r, db) <=> \E e \in Body(r, db, <<>>) : k = Key(r, e)
  BY DEF Stated, KeysOf

\* The tables a row of which comes from a row of one source.
Direct == DocumentRelations \ {"medium", "company", "credited_to", "issued_on"}
\* The bodies that keep every row they find, over two catalogs that cover a third.
LEMMA DirectCovered ==
  ASSUME NEW x, NEW y, NEW z, Covered(x, y, z), NEW r \in Direct
  PROVE  Body(r, x, <<>>) \subseteq Body(r, y, <<>>) \cup Body(r, z, <<>>)
<1>0. /\ \A id \in DOMAIN x.releases : SameDocument(x.releases, y.releases, id) \/ SameDocument(x.releases, z.releases, id)
      /\ \A id \in DOMAIN x.masters : SameDocument(x.masters, y.masters, id) \/ SameDocument(x.masters, z.masters, id)
      /\ \A id \in DOMAIN x.artists : SameDocument(x.artists, y.artists, id) \/ SameDocument(x.artists, z.artists, id)
  BY ReleaseParts DEF Covered, SameRelease, SameDocument
<1>1. CASE r \in {"genre", "style"}
  <2>1. \A tags : TagVertices(x, tags) \subseteq TagVertices(y, tags) \cup TagVertices(z, tags)
    BY SourcesCovered DEF TagVertices
  <2> QED  BY <1>1, <2>1, Bodies
<1>2. CASE r = "person"
  <2>1. Person(x) \subseteq Person(y) \cup Person(z)
    BY SourcesCovered DEF Person
  <2> QED  BY <1>2, <2>1, Bodies
<1>3. CASE r = "media_family"
  <2>1. MediaFamily(x) \subseteq MediaFamily(y) \cup MediaFamily(z)
    BY SourcesCovered DEF MediaFamily
  <2> QED  BY <1>3, <2>1, Bodies
<1>4. CASE r \in {"by_artist", "on_label", "in_genre", "in_style", "master_by_artist", "master_in_genre",
                  "master_in_style", "alias_of"}
  <2>1. \A source, array, target :
          /\ IdEdges(x.releases, source, array, target)
               \subseteq IdEdges(y.releases, source, array, target) \cup IdEdges(z.releases, source, array, target)
          /\ TagEdges(x.releases, source, array, target)
               \subseteq TagEdges(y.releases, source, array, target) \cup TagEdges(z.releases, source, array, target)
          /\ IdEdges(x.masters, source, array, target)
               \subseteq IdEdges(y.masters, source, array, target) \cup IdEdges(z.masters, source, array, target)
          /\ TagEdges(x.masters, source, array, target)
               \subseteq TagEdges(y.masters, source, array, target) \cup TagEdges(z.masters, source, array, target)
          /\ IdEdges(x.artists, source, array, target)
               \subseteq IdEdges(y.artists, source, array, target) \cup IdEdges(z.artists, source, array, target)
    BY <1>0, IdEdgesCovered
  <2> QED  BY <1>4, <2>1, Bodies
<1>5. CASE r = "derived_from"
  <2>1. DerivedFrom(x) \subseteq DerivedFrom(y) \cup DerivedFrom(z)
    <3> SUFFICES ASSUME NEW e \in DerivedFrom(x) PROVE e \in DerivedFrom(y) \cup DerivedFrom(z)
      OBVIOUS
    <3>1. PICK id \in DOMAIN x.releases :
            /\ UsableId(GetText(x.releases[id], "master_id"))
            /\ e = [release_id |-> id, master_id |-> Trimmed(GetText(x.releases[id], "master_id"))]
      BY DEF DerivedFrom
    <3>2. CASE SameDocument(x.releases, y.releases, id)
      BY <3>1, <3>2 DEF SameDocument, DerivedFrom
    <3>3. CASE SameDocument(x.releases, z.releases, id)
      BY <3>1, <3>3 DEF SameDocument, DerivedFrom
    <3> QED  BY <1>0, <3>2, <3>3
  <2> QED  BY <1>5, <2>1, Bodies
<1>6. CASE r = "member_of"
  <2>1. MemberOf(x) \subseteq MemberOf(y) \cup MemberOf(z)
    <3>1. \A source, array, target :
            IdEdges(x.artists, source, array, target)
               \subseteq IdEdges(y.artists, source, array, target) \cup IdEdges(z.artists, source, array, target)
      BY <1>0, IdEdgesCovered
    <3> QED  BY <3>1 DEF MemberOf
  <2> QED  BY <1>6, <2>1, Bodies
<1>7. CASE r = "credited_on"
  <2>1. CreditedOn(x) \subseteq CreditedOn(y) \cup CreditedOn(z)
    BY SourcesCovered DEF CreditedOn
  <2> QED  BY <1>7, <2>1, Bodies
<1>8. CASE r = "same_as"
  <2>1. SameAs(x) \subseteq SameAs(y) \cup SameAs(z)
    BY SourcesCovered DEF SameAs
  <2> QED  BY <1>8, <2>1, Bodies
<1>9. CASE r = "track_credited_on"
  <2>1. TrackCreditedOn(x) \subseteq TrackCreditedOn(y) \cup TrackCreditedOn(z)
    BY SourcesCovered DEF TrackCreditedOn
  <2> QED  BY <1>9, <2>1, Bodies
<1>10. CASE r = "track_by_artist"
  BY <1>10, SourcesCovered, Bodies
<1> QED
  BY <1>1, <1>2, <1>3, <1>4, <1>5, <1>6, <1>7, <1>8, <1>9, <1>10, Groups DEF Direct, DocumentRelations

\* A catalog covered by two others states no key that neither states.
LEMMA StatedCovered ==
  ASSUME NEW x, NEW y, NEW z, WellFormed(y), WellFormed(z), Covered(x, y, z), NEW r \in DocumentRelations
  PROVE  Stated(r, x) \subseteq Stated(r, y) \cup Stated(r, z)
<1> SUFFICES ASSUME NEW k \in Stated(r, x) PROVE k \in Stated(r, y) \/ k \in Stated(r, z)
  OBVIOUS
<1>1. PICK e \in Body(r, x, <<>>) : k = Key(r, e)
  BY StatedRow
<1>2. ASSUME NEW db, NEW f \in Body(r, db, <<>>), \A c \in KeyColumns[r] : e[c] = f[c]
      PROVE  k \in Stated(r, db)
  <2>1. Key(r, e) = Key(r, f)
    BY <1>2, SameKey
  <2> QED  BY <1>1, <2>1, StatedRow
<1>3. CASE r \in Direct
  BY <1>2, <1>3, DirectCovered
<1>4. CASE r = "medium"
  <2>1. PICK m \in MediaSource(x) : e.medium_id = m.medium_id
    BY <1>4, Bodies DEF Medium
  <2>2. ASSUME NEW db, WellFormed(db), m \in MediaSource(db) PROVE k \in Stated(r, db)
    <3>1. PICK v \in Medium(db) : v.medium_id = m.medium_id
      BY <2>2, FirstMedium
    <3>2. v \in Body(r, db, <<>>)
      BY <3>1, <1>4, Bodies
    <3>3. \A col \in KeyColumns[r] : e[col] = v[col]
      BY <3>1, <2>1, <1>4, Keys
    <3> QED  BY <3>2, <3>3, <1>2
  <2> QED  BY <2>2, SourcesCovered
<1>5. CASE r = "company"
  <2>1. PICK c \in CompanyCredits(x) : e.company_id = c.company_id
    BY <1>5, Bodies DEF Company
  <2>2. ASSUME NEW db, WellFormed(db), c \in CompanyCredits(db) PROVE k \in Stated(r, db)
    <3>1. PICK v \in Company(db) : v.company_id = c.company_id
      BY <2>2, FirstCompany
    <3>2. v \in Body(r, db, <<>>)
      BY <3>1, <1>5, Bodies
    <3>3. \A col \in KeyColumns[r] : e[col] = v[col]
      BY <3>1, <2>1, <1>5, Keys
    <3> QED  BY <3>2, <3>3, <1>2
  <2> QED  BY <2>2, SourcesCovered
<1>6. CASE r = "credited_to"
  <2>1. PICK c \in CompanyCredits(x) : /\ e.release_id = c.release_id /\ e.company_id = c.company_id
                                       /\ e.role = c.role /\ e.source = "discogs"
    BY <1>6, Bodies DEF CreditedTo
  <2>2. ASSUME NEW db, WellFormed(db), c \in CompanyCredits(db) PROVE k \in Stated(r, db)
    <3>1. PICK v \in CreditedTo(db) : /\ v.release_id = c.release_id /\ v.company_id = c.company_id
                                      /\ v.role = c.role /\ v.source = "discogs"
      BY <2>2, FirstCredit
    <3>2. v \in Body(r, db, <<>>)
      BY <3>1, <1>6, Bodies
    <3>3. \A col \in KeyColumns[r] : e[col] = v[col]
      BY <3>1, <2>1, <1>6, Keys
    <3> QED  BY <3>2, <3>3, <1>2
  <2> QED  BY <2>2, SourcesCovered
<1>7. CASE r = "issued_on"
  <2> DEFINE Qty(db, m) == MapThenSumSet(LAMBDA q : q.qty,
                 {q \in MediaSource(db) : /\ q.release_id = m.release_id /\ q.medium_id = m.medium_id
                                          /\ q.provider = m.provider})
             Edge(db, m) == [release_id |-> m.release_id, medium_id |-> m.medium_id, source |-> m.provider, qty |-> Qty(db, m)]
  <2>0. \A db : IssuedOn(db) = {Edge(db, m) : m \in MediaSource(db)}
    BY DEF IssuedOn
  <2> HIDE DEF Qty
  <2>1. PICK m \in MediaSource(x) : e = Edge(x, m)
    BY <1>7, <2>0, Bodies
  <2>2. ASSUME NEW db, m \in MediaSource(db) PROVE k \in Stated(r, db)
    <3>1. Edge(db, m) \in Body(r, db, <<>>)
      BY <2>2, <2>0, <1>7, Bodies
    <3>2. \A col \in KeyColumns[r] : e[col] = Edge(db, m)[col]
      BY <2>1, <1>7, Keys
    <3> QED  BY <3>1, <3>2, <1>2
  <2> QED  BY <2>2, SourcesCovered
<1> QED  BY <1>3, <1>4, <1>5, <1>6, <1>7 DEF Direct

-----------------------------------------------------------------------------
(* An edge and the vertex it names are stated by one document.             *)

\* An edge table, its column, the vertex table the column names, and the key it names it by.
Joins ==
  {<<"in_genre", "genre_name", "genre", "name">>, <<"master_in_genre", "genre_name", "genre", "name">>,
   <<"in_style", "style_name", "style", "name">>, <<"master_in_style", "style_name", "style", "name">>,
   <<"credited_on", "person_name", "person", "name">>, <<"same_as", "person_name", "person", "name">>,
   <<"track_credited_on", "person_name", "person", "name">>,
   <<"credited_to", "company_id", "company", "company_id">>, <<"issued_on", "medium_id", "medium", "medium_id">>,
   <<"medium", "family", "media_family", "name">>}

\* An edge names a vertex by the whole of its key, from a column of its own.
LEMMA JoinKeys ==
  ASSUME NEW j \in Joins
  PROVE  /\ j[1] \in DocumentRelations /\ j[3] \in DOMAIN VertexKeys /\ KeyColumns[j[3]] = {j[4]}
         /\ Place[j[3]] < Place[j[1]]
         /\ j[1] # "medium" => j[2] \in KeyColumns[j[1]] /\ j[1] \in DOMAIN DocumentEdgeKeys \cup DOMAIN CreditEdgeKeys
         /\ j[1] = "medium" => j = <<"medium", "family", "media_family", "name">>
<1>1. CASE j[1] = "medium"
  BY <1>1, Groups, Keys DEF Joins, DocumentRelations, Place
<1>2. CASE j[1] \in {"in_genre", "master_in_genre", "in_style", "master_in_style"}
  BY <1>2, Groups, Keys DEF Joins, DocumentRelations, Place
<1>3. CASE j[1] \in {"credited_on", "same_as", "track_credited_on"}
  BY <1>3, Groups, Keys DEF Joins, DocumentRelations, Place
<1>4. CASE j[1] \in {"credited_to", "issued_on"}
  BY <1>4, Groups, Keys DEF Joins, DocumentRelations, Place
<1> QED  BY <1>1, <1>2, <1>3, <1>4 DEF Joins

\* A tag on an edge has its vertex.
LEMMA TagJoin ==
  ASSUME NEW db, NEW docs, Range(docs) \subseteq TaggedDocuments(db), NEW source, NEW tags, NEW target, source # target
  PROVE  Resolve(TagEdges(docs, source, tags, target), target, TagVertices(db, tags), "name")
<1> SUFFICES ASSUME NEW e \in TagEdges(docs, source, tags, target)
             PROVE  \E v \in TagVertices(db, tags) : v["name"] = e[target]
  BY DEF Resolve
<1>1. PICK id \in DOMAIN docs : \E t \in Tags(Get(docs[id], tags)) : e = Ends(source, id, target, t)
  BY TagRows
<1>2. PICK t \in Tags(Get(docs[id], tags)) : e = Ends(source, id, target, t)
  BY <1>1
<1>3. e[target] = t
  BY <1>2, EndsRow
<1>4. docs[id] \in TaggedDocuments(db)
  BY DEF Range
<1>5. [name |-> t] \in TagVertices(db, tags)
  BY <1>4 DEF TagVertices
<1> QED  BY <1>3, <1>5

\* In the bodies of one catalog every edge has its vertex.
LEMMA BodyJoins ==
  ASSUME NEW db, WellFormed(db), NEW j \in Joins
  PROVE  Resolve(Body(j[1], db, <<>>), j[2], Body(j[3], db, <<>>), j[4])
<1>1. CASE j \in {<<"in_genre", "genre_name", "genre", "name">>, <<"master_in_genre", "genre_name", "genre", "name">>,
                  <<"in_style", "style_name", "style", "name">>, <<"master_in_style", "style_name", "style", "name">>}
  <2>1. Range(db.releases) \subseteq TaggedDocuments(db) /\ Range(db.masters) \subseteq TaggedDocuments(db)
    BY DEF TaggedDocuments
  <2>2. /\ Resolve(TagEdges(db.releases, "release_id", "genres", "genre_name"), "genre_name", TagVertices(db, "genres"), "name")
        /\ Resolve(TagEdges(db.masters, "master_id", "genres", "genre_name"), "genre_name", TagVertices(db, "genres"), "name")
        /\ Resolve(TagEdges(db.releases, "release_id", "styles", "style_name"), "style_name", TagVertices(db, "styles"), "name")
        /\ Resolve(TagEdges(db.masters, "master_id", "styles", "style_name"), "style_name", TagVertices(db, "styles"), "name")
    BY <2>1, TagJoin
  <2> QED  BY <1>1, <2>2, Bodies
<1>2. CASE j = <<"credited_on", "person_name", "person", "name">>
  <2>1. Resolve(CreditedOn(db), "person_name", Person(db), "name")
    <3> SUFFICES ASSUME NEW e \in CreditedOn(db) PROVE \E v \in Person(db) : v["name"] = e["person_name"]
      BY DEF Resolve
    <3>1. PICK c \in CreditSource(db) : e["person_name"] = c.person_name
      BY DEF CreditedOn
    <3>2. [name |-> c.person_name] \in Person(db)
      BY DEF Person
    <3> QED  BY <3>1, <3>2
  <2> QED  BY <1>2, <2>1, Bodies
<1>3. CASE j = <<"same_as", "person_name", "person", "name">>
  <2>1. Resolve(SameAs(db), "person_name", Person(db), "name")
    <3> SUFFICES ASSUME NEW e \in SameAs(db) PROVE \E v \in Person(db) : v["name"] = e["person_name"]
      BY DEF Resolve
    <3>1. PICK c \in CreditSource(db) \cup TrackCreditSource(db) : e["person_name"] = c.person_name
      BY DEF SameAs
    <3>2. [name |-> c.person_name] \in Person(db)
      BY DEF Person
    <3> QED  BY <3>1, <3>2
  <2> QED  BY <1>3, <2>1, Bodies
<1>4. CASE j = <<"track_credited_on", "person_name", "person", "name">>
  <2>1. Resolve(TrackCreditedOn(db), "person_name", Person(db), "name")
    <3> SUFFICES ASSUME NEW e \in TrackCreditedOn(db) PROVE \E v \in Person(db) : v["name"] = e["person_name"]
      BY DEF Resolve
    <3>1. PICK c \in TrackCreditSource(db) : e["person_name"] = c.person_name
      BY DEF TrackCreditedOn
    <3>2. [name |-> c.person_name] \in Person(db)
      BY DEF Person
    <3> QED  BY <3>1, <3>2
  <2> QED  BY <1>4, <2>1, Bodies
<1>5. CASE j = <<"credited_to", "company_id", "company", "company_id">>
  <2>1. Resolve(CreditedTo(db), "company_id", Company(db), "company_id")
    <3> SUFFICES ASSUME NEW e \in CreditedTo(db) PROVE \E v \in Company(db) : v.company_id = e.company_id
      BY DEF Resolve
    <3>1. PICK c \in CompanyCredits(db) : e.company_id = c.company_id
      BY DEF CreditedTo
    <3> QED  BY <3>1, FirstCompany
  <2> QED  BY <1>5, <2>1, Bodies
<1>6. CASE j = <<"issued_on", "medium_id", "medium", "medium_id">>
  <2>1. Resolve(IssuedOn(db), "medium_id", Medium(db), "medium_id")
    <3> SUFFICES ASSUME NEW e \in IssuedOn(db) PROVE \E v \in Medium(db) : v.medium_id = e.medium_id
      BY DEF Resolve
    <3>1. PICK m \in MediaSource(db) : \E q :
            e = [release_id |-> m.release_id, medium_id |-> m.medium_id, source |-> m.provider, qty |-> q]
      BY DEF IssuedOn
    <3> QED  BY <3>1, FirstMedium
  <2> QED  BY <1>6, <2>1, Bodies
<1>7. CASE j = <<"medium", "family", "media_family", "name">>
  <2>1. Resolve(Medium(db), "family", MediaFamily(db), "name")
    <3> SUFFICES ASSUME NEW e \in Medium(db) PROVE \E v \in MediaFamily(db) : v["name"] = e["family"]
      BY DEF Resolve
    <3>1. PICK m \in MediaSource(db) : e["family"] = m.family_name
      BY DEF Medium
    <3>2. [name |-> m.family_name] \in MediaFamily(db)
      BY DEF MediaFamily
    <3> QED  BY <3>1, <3>2
  <2> QED  BY <1>7, <2>1, Bodies
<1> QED  BY <1>1, <1>2, <1>3, <1>4, <1>5, <1>6, <1>7 DEF Joins

-----------------------------------------------------------------------------
(* What a loader's transaction makes of a table.                           *)

\* What a loader writes and what it found before it cover what it leaves.
LEMMA OnlyParts ==
  ASSUME NEW to \in DOMAIN Catalogs, NEW from \in DOMAIN Catalogs
  PROVE  /\ WellFormed(Catalogs[to]) /\ WellFormed(Only(to, from))
         /\ Covered(Catalogs[to], Only(to, from), Catalogs[from])
         /\ Covered(Only(to, from), Catalogs[to], Catalogs[to])
<1> DEFINE c == Catalogs[to]
           o == Catalogs[from]
           n == Only(to, from)
           news == {i \in DOMAIN c.releases : i \notin DOMAIN o.releases \/ Release(c, i) # Release(o, i)}
<1>1. WellFormed(c)
  BY DocumentAssumption
<1>2. n = [c EXCEPT !.releases = Restrict(c.releases, news), !.masters = Fresh(c.masters, o.masters),
                    !.artists = Fresh(c.artists, o.artists)]
  BY DEF Only
<1>3. /\ DOMAIN n = DOMAIN c
      /\ n.releases = Restrict(c.releases, news) /\ n.masters = Fresh(c.masters, o.masters)
      /\ n.artists = Fresh(c.artists, o.artists)
      /\ n.media = c.media /\ n.labels = c.labels /\ n.mb = c.mb /\ n.aliases = c.aliases
      /\ n.relationships = c.relationships /\ n.collections = c.collections /\ n.wantlists = c.wantlists
  <2>1. DOMAIN c = {"releases", "media", "masters", "artists", "labels", "mb", "relationships", "aliases",
                    "collections", "wantlists"}
    BY <1>1 DEF WellFormed
  <2> HIDE DEF c, news, n
  <2> QED  BY <1>2, <2>1
<1> HIDE DEF n
<1>4. /\ DOMAIN n.releases = news /\ \A id \in news : n.releases[id] = c.releases[id]
      /\ DOMAIN n.masters \subseteq DOMAIN c.masters /\ \A id \in DOMAIN n.masters : n.masters[id] = c.masters[id]
      /\ DOMAIN n.artists \subseteq DOMAIN c.artists /\ \A id \in DOMAIN n.artists : n.artists[id] = c.artists[id]
      /\ \A id \in DOMAIN c.masters : id \in DOMAIN n.masters \/ SameDocument(c.masters, o.masters, id)
      /\ \A id \in DOMAIN c.artists : id \in DOMAIN n.artists \/ SameDocument(c.artists, o.artists, id)
  <2>1. DOMAIN n.releases = news /\ \A id \in news : n.releases[id] = c.releases[id]
    BY <1>3 DEF Restrict
  <2>2. /\ DOMAIN n.masters \subseteq DOMAIN c.masters /\ \A id \in DOMAIN n.masters : n.masters[id] = c.masters[id]
        /\ \A id \in DOMAIN c.masters : id \in DOMAIN n.masters \/ SameDocument(c.masters, o.masters, id)
    BY <1>3 DEF Fresh, Restrict, SameDocument
  <2>3. /\ DOMAIN n.artists \subseteq DOMAIN c.artists /\ \A id \in DOMAIN n.artists : n.artists[id] = c.artists[id]
        /\ \A id \in DOMAIN c.artists : id \in DOMAIN n.artists \/ SameDocument(c.artists, o.artists, id)
    BY <1>3 DEF Fresh, Restrict, SameDocument
  <2> QED  BY <2>1, <2>2, <2>3
<1>5. news \subseteq DOMAIN c.releases
  OBVIOUS
<1>6. \A id \in DOMAIN c.releases : id \in news \/ SameRelease(c, o, id)
  BY DEF SameRelease
<1>7. \A id \in news : Release(n, id) = Release(c, id)
  <2> TAKE id \in news
  <2>1. n.releases[id] = c.releases[id] /\ n.media = c.media /\ n.mb = c.mb
    BY <1>3, <1>4
  <2> HIDE DEF c
  <2> QED  BY <2>1 DEF Release
<1> HIDE DEF news
<1>8. \A id \in news : SameRelease(c, n, id) /\ SameRelease(n, c, id)
  BY <1>4, <1>5, <1>7 DEF SameRelease
<1>9. WellFormed(n)
  <2>1. \A id \in DOMAIN n.releases : n.releases[id] \in Json /\ n.media[id] \in Json
    BY <1>1, <1>3, <1>4, <1>5 DEF WellFormed
  <2>2. \A id \in DOMAIN n.masters : n.masters[id] \in Json
    BY <1>1, <1>4 DEF WellFormed
  <2>3. \A id \in DOMAIN n.artists : n.artists[id] \in Json
    BY <1>1, <1>4 DEF WellFormed
  <2> QED  BY <1>1, <1>3, <2>1, <2>2, <2>3 DEF WellFormed
<1>10. Covered(c, n, o)
  BY <1>4, <1>6, <1>8 DEF Covered, SameDocument
<1>11. Covered(n, c, c)
  BY <1>4, <1>8 DEF Covered, SameDocument
<1> QED  BY <1>1, <1>9, <1>10, <1>11 DEF n

\* The rows of a table after a loader's transaction, from those before.
Applied(r, rows, from, to) ==
  LET kept == {e \in rows : Key(r, e) \notin Withdrawn(r, from, to)}
  IN kept \cup {e \in Rows(r, to, from) : Key(r, e) \notin KeysOf(r, kept)}

\* The keys of a table after a loader, and its rows.
LEMMA AppliedParts ==
  ASSUME NEW r, NEW rows, NEW from, NEW to
  PROVE  /\ KeysOf(r, Applied(r, rows, from, to)) = (KeysOf(r, rows) \ Withdrawn(r, from, to)) \cup KeysOf(r, Rows(r, to, from))
         /\ Applied(r, rows, from, to) \subseteq rows \cup Rows(r, to, from)
         /\ Rows(r, to, from) = {} /\ Withdrawn(r, from, to) = {} => Applied(r, rows, from, to) = rows
         /\ Withdrawn(r, from, to) = {} => rows \subseteq Applied(r, rows, from, to)
         /\ Unique(r, rows) /\ Unique(r, Rows(r, to, from)) => Unique(r, Applied(r, rows, from, to))
<1> DEFINE W == Withdrawn(r, from, to)
           N == Rows(r, to, from)
           kept == {e \in rows : Key(r, e) \notin W}
           fresh == {e \in N : Key(r, e) \notin KeysOf(r, kept)}
<1>1. Applied(r, rows, from, to) = kept \cup fresh
  BY DEF Applied
<1> HIDE DEF W, N
<1>2. KeysOf(r, kept \cup fresh) = (KeysOf(r, rows) \ W) \cup KeysOf(r, N)
  <2>1. \A k : k \in KeysOf(r, kept \cup fresh) <=> (\E e \in kept : k = Key(r, e)) \/ (\E e \in fresh : k = Key(r, e))
    BY DEF KeysOf
  <2>2. \A k : k \in KeysOf(r, rows) <=> \E e \in rows : k = Key(r, e)
    BY DEF KeysOf
  <2>3. \A k : k \in KeysOf(r, N) <=> \E e \in N : k = Key(r, e)
    BY DEF KeysOf
  <2>4. \A k : k \in KeysOf(r, kept) <=> \E e \in kept : k = Key(r, e)
    BY DEF KeysOf
  <2>5. \A k : k \in KeysOf(r, kept) <=> k \in KeysOf(r, rows) /\ k \notin W
    BY <2>2, <2>4
  <2>6. \A k : k \in KeysOf(r, kept \cup fresh) <=> k \in KeysOf(r, kept) \/ k \in KeysOf(r, N)
    BY <2>1, <2>3, <2>4
  <2> QED  BY <2>5, <2>6
<1>3. kept \cup fresh \subseteq rows \cup N
  OBVIOUS
<1>4. N = {} /\ W = {} => kept \cup fresh = rows
  OBVIOUS
<1>5. W = {} => rows \subseteq kept \cup fresh
  OBVIOUS
<1>6. ASSUME Unique(r, rows), Unique(r, N)
      PROVE  Unique(r, kept \cup fresh)
  <2> SUFFICES ASSUME NEW e \in kept \cup fresh, NEW f \in kept \cup fresh, Key(r, e) = Key(r, f)
               PROVE  e = f
    BY DEF Unique
  <2>1. \A d \in kept : Key(r, d) \in KeysOf(r, kept)
    BY DEF KeysOf
  <2>2. CASE e \in kept /\ f \in kept
    BY <2>2, <1>6 DEF Unique
  <2>3. CASE e \in fresh /\ f \in fresh
    BY <2>3, <1>6 DEF Unique
  <2> QED  BY <2>1, <2>2, <2>3
<1> QED  BY <1>1, <1>2, <1>3, <1>4, <1>5, <1>6 DEF W, N

EdgeTables == DOMAIN DocumentEdgeKeys \cup DOMAIN CreditEdgeKeys
\* The key sets: exact for an edge table, at least what is stated for a vertex table.
Exact(r, rows, db) ==
  /\ Stated(r, db) \subseteq KeysOf(r, rows)
  /\ r \in EdgeTables => KeysOf(r, rows) = Stated(r, db)

\* A table that holds what one state of the documents says, brought by a loader to the next, holds
\* what that says.
LEMMA AppliedExact ==
  ASSUME NEW r \in DocumentRelations, NEW from \in DOMAIN Catalogs, NEW to \in DOMAIN Catalogs, NEW rows,
         Exact(r, rows, Catalogs[from])
  PROVE  Exact(r, Applied(r, rows, from, to), Catalogs[to])
<1> DEFINE F == Stated(r, Catalogs[from])
           T == Stated(r, Catalogs[to])
           N == Stated(r, Only(to, from))
           O == Stated(r, Only(from, to))
           W == Withdrawn(r, from, to)
           K == KeysOf(r, rows)
<1>1. T \subseteq N \cup F /\ N \subseteq T /\ F \subseteq O \cup T
  <2>1. T \subseteq N \cup F /\ N \subseteq T \cup T
    BY OnlyParts, StatedCovered
  <2>2. F \subseteq O \cup T
    BY OnlyParts, StatedCovered
  <2> QED  BY <2>1, <2>2
<1>2. KeysOf(r, Rows(r, to, from)) = N
  BY DEF Rows, Stated
<1>3. KeysOf(r, Applied(r, rows, from, to)) = (K \ W) \cup N
  BY <1>2, AppliedParts
<1>4. W = IF r \in DOMAIN VertexKeys THEN {} ELSE O \ T
  BY DEF Withdrawn, Rows, Stated
<1>5. F \subseteq K /\ (r \in EdgeTables => K = F)
  BY DEF Exact
<1>6. r \in EdgeTables <=> r \notin DOMAIN VertexKeys
  BY Groups DEF DocumentRelations, EdgeTables
<1> HIDE DEF F, T, N, O, W, K
<1>7. T \subseteq (K \ W) \cup N
  BY <1>1, <1>4, <1>5
<1>8. r \in EdgeTables => (K \ W) \cup N = T
  BY <1>1, <1>4, <1>5, <1>6
<1> QED  BY <1>3, <1>7, <1>8 DEF Exact, T

\* A loader leaves no edge without its vertex: it writes both, and withdraws no vertex.
LEMMA AppliedJoins ==
  ASSUME NEW j \in Joins, NEW from \in DOMAIN Catalogs, NEW to \in DOMAIN Catalogs, NEW edges, NEW vertices,
         Resolve(edges, j[2], vertices, j[4])
  PROVE  Resolve(Applied(j[1], edges, from, to), j[2], Applied(j[3], vertices, from, to), j[4])
<1> DEFINE E == Applied(j[1], edges, from, to)
           V == Applied(j[3], vertices, from, to)
<1>1. Withdrawn(j[3], from, to) = {}
  BY JoinKeys DEF Withdrawn
<1>2. vertices \subseteq V /\ KeysOf(j[3], Rows(j[3], to, from)) \subseteq KeysOf(j[3], V)
  BY <1>1, AppliedParts
<1>3. E \subseteq edges \cup Rows(j[1], to, from)
  BY AppliedParts
<1>4. Resolve(Rows(j[1], to, from), j[2], Rows(j[3], to, from), j[4])
  BY OnlyParts, BodyJoins DEF Rows
<1> HIDE DEF E, V
<1> SUFFICES ASSUME NEW e \in E PROVE \E v \in V : v[j[4]] = e[j[2]]
  BY DEF Resolve, E, V
<1>5. CASE e \in edges
  BY <1>2, <1>5 DEF Resolve
<1>6. CASE e \in Rows(j[1], to, from)
  <2>1. PICK v \in Rows(j[3], to, from) : v[j[4]] = e[j[2]]
    BY <1>4, <1>6 DEF Resolve
  <2>2. Key(j[3], v) \in KeysOf(j[3], V)
    BY <1>2 DEF KeysOf
  <2>3. PICK w \in V : Key(j[3], v) = Key(j[3], w)
    BY <2>2 DEF KeysOf
  <2>4. v[j[4]] = w[j[4]]
    BY <2>3, SameKey, JoinKeys
  <2> QED  BY <2>1, <2>4
<1> QED  BY <1>3, <1>5, <1>6

-----------------------------------------------------------------------------
(* The inductive invariant.                                                *)

OperatorCalls == {Idle, [kind |-> "bootstrap_fill"]}
RefresherCalls == {Idle, [kind |-> "refresh_artist_member_of"], [kind |-> "refresh_vertex_degree"]}
LoaderCalls == [kind : {"revise"}, to : DOMAIN Catalogs, left : SUBSET DocumentRelations, backwards : BOOLEAN]
\* The tables whose INSERT the call of s has run.
Built(s) == {Program(s)[i] : i \in 1..step[s]}

ShapeInv ==
  /\ now \in DOMAIN Catalogs /\ DOMAIN graph = Relations /\ filled \in BOOLEAN
  /\ DOMAIN call = Sessions /\ DOMAIN mine = Sessions /\ DOMAIN reading = Sessions /\ DOMAIN writing = Sessions
  /\ step \in [Sessions -> Nat] /\ emptied \in [Sessions -> BOOLEAN] /\ calls \in [Sessions -> 0..MaxCalls]
CallInv ==
  /\ call["operator"] \in OperatorCalls /\ call["refresher"] \in RefresherCalls
  /\ (call["loader"] = Idle /\ writing["loader"] = {}) \/ call["loader"] \in LoaderCalls
  /\ \A s \in Sessions \ {"loader"} : writing[s] = {}
  /\ writing["loader"] \subseteq DocumentRelations
  /\ call["loader"] \in LoaderCalls =>
       /\ <<now, call["loader"].to>> \in Revisions
       /\ call["loader"].left \cup writing["loader"] = Touched[<<now, call["loader"].to>>]
\* A call holds what it has rebuilt, and the table it has just emptied.
ProgressInv == \A s \in Sessions :
  /\ step[s] \in 0..Len(Program(s))
  /\ emptied[s] => step[s] < Len(Program(s)) /\ mine[s][Target(s)] = {}
  /\ DOMAIN mine[s] = Built(s) \cup (IF emptied[s] THEN {Target(s)} ELSE {})
LockInv == \A s, t \in Sessions : s # t => KeepsAllOff(s) \cap Holds(t) = {}
Sound(r, rows) == Unique(r, rows) /\ (r \in Plain => Whole(r, rows))
RowInv ==
  /\ \A r \in Relations : Sound(r, graph[r])
  /\ \A s \in Sessions : \A r \in DOMAIN mine[s] : Sound(r, mine[s][r])
JoinInv == \A j \in Joins : Resolve(graph[j[1]], j[2], graph[j[3]], j[4])
\* Whatever loaders commit, what the fill has rebuilt still is what the documents state: the
\* tables of a document it would change are among those the fill keeps them off.
FillerInv ==
  /\ \A r \in DocumentRelations \cap Built("operator") : Exact(r, mine["operator"][r], Documents)
  /\ "medium" \in Built("operator") => Resolve(mine["operator"]["medium"], "family", mine["operator"]["media_family"], "name")
FilledInv == filled => \A r \in DocumentRelations : Exact(r, graph[r], Documents)
RaiseInv == raised \in {"none", "year"} /\ InsertsNeverConflict

FillInv == ShapeInv /\ CallInv /\ ProgressInv /\ LockInv /\ RowInv /\ JoinInv /\ FillerInv /\ FilledInv /\ RaiseInv

\* What each call runs.
LEMMA CallKinds ==
  ASSUME NEW c
  PROVE  /\ Idle.kind = "idle" /\ Idle \notin LoaderCalls
         /\ c \in LoaderCalls => c.kind = "revise" /\ Programs(c.kind) = <<>>
         /\ c \in OperatorCalls => /\ c = Idle \/ c.kind = "bootstrap_fill"
                                   /\ c.kind # "revise"
         /\ c \in RefresherCalls => /\ c = Idle \/ c.kind \in {"refresh_artist_member_of", "refresh_vertex_degree"}
                                    /\ c.kind \notin {"revise", "bootstrap_fill"}
         /\ Programs("idle") = <<>> /\ Programs("bootstrap_fill") = BootstrapFillOrder
         /\ Programs("refresh_artist_member_of") = <<"artist_member_of">>
         /\ Programs("refresh_vertex_degree") = <<"vertex_degree">>
<1>1. Idle.kind = "idle" /\ Idle \notin LoaderCalls
  BY DEF Idle, LoaderCalls
<1>2. c \in LoaderCalls => c.kind = "revise" /\ Programs(c.kind) = <<>>
  BY DEF LoaderCalls, Programs
<1>3. c \in OperatorCalls => (c = Idle \/ c.kind = "bootstrap_fill") /\ c.kind # "revise"
  BY DEF OperatorCalls, Idle
<1>4. c \in RefresherCalls => /\ c = Idle \/ c.kind \in {"refresh_artist_member_of", "refresh_vertex_degree"}
                              /\ c.kind \notin {"revise", "bootstrap_fill"}
  BY DEF RefresherCalls, Idle
<1>5. /\ Programs("idle") = <<>> /\ Programs("bootstrap_fill") = BootstrapFillOrder
      /\ Programs("refresh_artist_member_of") = <<"artist_member_of">>
      /\ Programs("refresh_vertex_degree") = <<"vertex_degree">>
  BY DEF Programs
<1> QED  BY <1>1, <1>2, <1>3, <1>4, <1>5

\* What each session may be running.
LEMMA SessionKinds ==
  ASSUME CallInv, NEW s \in Sessions
  PROVE  /\ call[s].kind = "revise" <=> s = "loader" /\ call[s] \in LoaderCalls
         /\ call[s].kind = "bootstrap_fill" => s = "operator"
         /\ Program(s) # <<>> => s # "loader"
         /\ Program(s) # <<>> /\ s = "operator" => call[s].kind = "bootstrap_fill" /\ Program(s) = BootstrapFillOrder
         /\ Program(s) # <<>> /\ s = "refresher" => Program(s) \in {<<"artist_member_of">>, <<"vertex_degree">>}
         /\ call[s] = Idle => Program(s) = <<>>
<1>1. CASE s = "operator"
  BY <1>1, CallKinds DEF CallInv, Program
<1>2. CASE s = "refresher"
  BY <1>2, CallKinds DEF CallInv, Program
<1>3. CASE s = "loader"
  BY <1>3, CallKinds DEF CallInv, Program
<1> QED  BY <1>1, <1>2, <1>3 DEF Sessions

\* A program names each of its tables once.
LEMMA ProgramTables ==
  ASSUME CallInv, NEW s \in Sessions
  PROVE  /\ Len(Program(s)) \in Nat /\ DOMAIN Program(s) = 1..Len(Program(s))
         /\ \A i \in 1..Len(Program(s)) : Program(s)[i] \in Relations
         /\ \A i, k \in 1..Len(Program(s)) : Program(s)[i] = Program(s)[k] => i = k
         /\ Len(Program(s)) > 0 => Program(s) # <<>>
<1>1. CASE Program(s) = <<>>
  BY <1>1
<1>2. CASE Program(s) = BootstrapFillOrder
  <2>1. Len(Program(s)) = 31 /\ DOMAIN Program(s) = 1..31
    BY <1>2, FillOrder
  <2>2. \A i \in 1..31 : Program(s)[i] \in Relations /\ Place[Program(s)[i]] = i
    BY <1>2, FillOrder
  <2>3. \A i, k \in 1..31 : Program(s)[i] = Program(s)[k] => i = k
    BY <2>2
  <2>4. Len(Program(s)) \in Nat /\ DOMAIN Program(s) = 1..Len(Program(s))
    BY <2>1
  <2>5. Program(s) # <<>>
    <3>1. Len(<<>>) = 0
      OBVIOUS
    <3>2. Len(Program(s)) # Len(<<>>)
      BY <2>1, <3>1
    <3> QED  BY <3>2, Zenon
  <2> QED  BY <2>1, <2>2, <2>3, <2>4, <2>5
<1>3. CASE Program(s) \in {<<"artist_member_of">>, <<"vertex_degree">>}
  <2>1. "artist_member_of" \in Relations /\ "vertex_degree" \in Relations
    BY Columns, Groups
  <2> QED  BY <1>3, <2>1
<1> QED  BY <1>1, <1>2, <1>3, SessionKinds DEF Sessions

\* The table a call rebuilds next is none it has rebuilt.
LEMMA NextTable ==
  ASSUME ShapeInv, CallInv, ProgressInv, NEW s \in Sessions, step[s] < Len(Program(s))
  PROVE  /\ Program(s) # <<>> /\ s # "loader" /\ Target(s) \in Relations
         /\ Target(s) \notin Built(s) /\ Built(s) \subseteq Relations
         /\ {Program(s)[i] : i \in 1..(step[s] + 1)} = Built(s) \cup {Target(s)}
         /\ step[s] + 1 \in 0..Len(Program(s))
<1> DEFINE p == Program(s)
           n == step[s]
<1>1. n \in Nat /\ Len(p) \in Nat /\ n + 1 \in 1..Len(p) /\ n + 1 \in Nat
  BY ProgramTables DEF ShapeInv
<1>2. Target(s) = p[n + 1]
  BY DEF Target
<1>3. Built(s) = {p[i] : i \in 1..n}
  BY DEF Built
<1>4. p # <<>> /\ s # "loader"
  BY <1>1, ProgramTables, SessionKinds
<1>5. /\ \A i \in 1..Len(p) : p[i] \in Relations
      /\ \A i, k \in 1..Len(p) : p[i] = p[k] => i = k
  BY ProgramTables
<1> HIDE DEF p, n
<1>6. p[n + 1] \in Relations /\ \A i \in 1..n : p[i] \in Relations /\ p[i] # p[n + 1]
  BY <1>1, <1>5
<1>7. {p[i] : i \in 1..(n + 1)} = {p[i] : i \in 1..n} \cup {p[n + 1]}
  <2>1. \A i : i \in 1..(n + 1) <=> i \in 1..n \/ i = n + 1
    BY <1>1
  <2> QED  BY <2>1
<1> QED  BY <1>1, <1>2, <1>3, <1>4, <1>6, <1>7 DEF p, n

\* An idle session has rebuilt nothing.
LEMMA IdleSession ==
  ASSUME ShapeInv, CallInv, ProgressInv, NEW s \in Sessions, Program(s) = <<>>
  PROVE  step[s] = 0 /\ emptied[s] = FALSE /\ Built(s) = {} /\ DOMAIN mine[s] = {}
<1>1. Len(Program(s)) = 0
  OBVIOUS
<1>2. step[s] = 0 /\ emptied[s] = FALSE
  BY <1>1 DEF ShapeInv, ProgressInv
<1>3. Built(s) = {}
  BY <1>2 DEF Built
<1> QED  BY <1>2, <1>3 DEF ProgressInv

\* A call that does not change keeps its program.
LEMMA SameSession ==
  ASSUME NEW u \in Sessions, call'[u] = call[u]
  PROVE  /\ Program(u)' = Program(u)
         /\ step'[u] = step[u] => Target(u)' = Target(u) /\ Built(u)' = Built(u)
  BY DEF Program, Target, Built

\* The end of a call.
LEMMA EndCall ==
  ASSUME ShapeInv, CallInv, ProgressInv, LockInv, NEW s \in Sessions, End(s), now' = now \/ s = "loader"
  PROVE  /\ DOMAIN call' = Sessions /\ DOMAIN mine' = Sessions /\ DOMAIN reading' = Sessions /\ DOMAIN writing' = Sessions
         /\ step' \in [Sessions -> Nat] /\ emptied' \in [Sessions -> BOOLEAN] /\ calls' \in [Sessions -> 0..MaxCalls]
         /\ CallInv' /\ ProgressInv' /\ LockInv'
         /\ DOMAIN mine'[s] = {} /\ Built(s)' = {}
         /\ \A u \in Sessions \ {s} : call'[u] = call[u] /\ mine'[u] = mine[u] /\ Built(u)' = Built(u)
<1>1. /\ DOMAIN call' = Sessions /\ DOMAIN mine' = Sessions /\ DOMAIN reading' = Sessions /\ DOMAIN writing' = Sessions
      /\ step' \in [Sessions -> Nat] /\ emptied' \in [Sessions -> BOOLEAN] /\ calls' \in [Sessions -> 0..MaxCalls]
  BY DEF End, ShapeInv
<1>2. /\ call'[s] = Idle /\ step'[s] = 0 /\ emptied'[s] = FALSE /\ mine'[s] = <<>> /\ reading'[s] = {} /\ writing'[s] = {}
      /\ \A u \in Sessions \ {s} : /\ call'[u] = call[u] /\ step'[u] = step[u] /\ emptied'[u] = emptied[u]
                                   /\ mine'[u] = mine[u] /\ reading'[u] = reading[u] /\ writing'[u] = writing[u]
  BY DEF End, ShapeInv
<1>3. DOMAIN mine'[s] = {}
  BY <1>2
<1>4. Program(s)' = <<>> /\ Built(s)' = {}
  <2>1. Program(s)' = <<>>
    BY <1>2, CallKinds DEF Program
  <2>2. Built(s)' = {}
    BY <1>2 DEF Built
  <2> QED  BY <2>1, <2>2
<1>5. \A u \in Sessions \ {s} : Program(u)' = Program(u) /\ Target(u)' = Target(u) /\ Built(u)' = Built(u)
  BY <1>2, SameSession
<1>6. CallInv'
  <2>1. CASE s = "loader"
    <3>1. call'["loader"] = Idle /\ writing'["loader"] = {}
      BY <1>2, <2>1
    <3>2. call'["operator"] = call["operator"] /\ call'["refresher"] = call["refresher"]
      BY <1>2, <2>1 DEF Sessions
    <3>3. \A u \in Sessions \ {"loader"} : writing'[u] = {}
      BY <1>2, <2>1 DEF CallInv
    <3> QED  BY <3>1, <3>2, <3>3, CallKinds DEF CallInv
  <2>2. CASE s # "loader"
    <3>1. now' = now /\ call'["loader"] = call["loader"] /\ writing'["loader"] = writing["loader"]
      BY <1>2, <2>2 DEF Sessions
    <3>2. /\ call'["operator"] = call["operator"] \/ call'["operator"] = Idle
          /\ call'["refresher"] = call["refresher"] \/ call'["refresher"] = Idle
      BY <1>2, <2>2 DEF Sessions
    <3>3. \A u \in Sessions \ {"loader"} : writing'[u] = {}
      BY <1>2, <2>2 DEF CallInv
    <3> QED  BY <3>1, <3>2, <3>3 DEF CallInv, OperatorCalls, RefresherCalls
  <2> QED  BY <2>1, <2>2
<1>7. ProgressInv'
  <2> SUFFICES ASSUME NEW u \in Sessions
               PROVE  /\ step'[u] \in 0..Len(Program(u)')
                      /\ emptied'[u] => step'[u] < Len(Program(u)') /\ mine'[u][Target(u)'] = {}
                      /\ DOMAIN mine'[u] = Built(u)' \cup (IF emptied'[u] THEN {Target(u)'} ELSE {})
    BY DEF ProgressInv
  <2>1. CASE u = s
    BY <1>2, <1>3, <1>4, <2>1
  <2>2. CASE u # s
    BY <1>2, <1>5, <2>2 DEF ProgressInv
  <2> QED  BY <2>1, <2>2
<1>8. LockInv'
  BY <1>2, <1>3 DEF LockInv, KeepsAllOff, Holds
<1> QED  BY <1>1, <1>2, <1>3, <1>4, <1>5, <1>6, <1>7, <1>8

\* A step that leaves the catalog, the committed tables and what the calls hold as they are.
LEMMA RowsStay ==
  ASSUME RowInv, JoinInv, FilledInv, RaiseInv, UNCHANGED <<now, graph, filled, raised>>,
         \A u \in Sessions : mine'[u] = mine[u] \/ DOMAIN mine'[u] = {}
  PROVE  RowInv' /\ JoinInv' /\ FilledInv' /\ RaiseInv'
<1>1. RowInv'
  BY DEF RowInv, Sound
<1>2. JoinInv'
  BY DEF JoinInv
<1>3. FilledInv'
  BY DEF FilledInv, Documents
<1>4. RaiseInv'
  BY DEF RaiseInv, InsertsNeverConflict
<1> QED  BY <1>1, <1>2, <1>3, <1>4

\* What the fill has rebuilt is untouched by the steps of others that commit nothing.
LEMMA FillerStays ==
  ASSUME FillerInv, now' = now,
         Built("operator")' = {} \/ (Built("operator")' = Built("operator") /\
                                     \A r \in Built("operator") : mine'["operator"][r] = mine["operator"][r]),
         "medium" \in Built("operator") => "media_family" \in Built("operator")
  PROVE  FillerInv'
<1>1. CASE Built("operator")' = {}
  BY <1>1 DEF FillerInv
<1>2. CASE Built("operator")' = Built("operator") /\ \A r \in Built("operator") : mine'["operator"][r] = mine["operator"][r]
  <2>1. \A r \in DocumentRelations \cap Built("operator")' : Exact(r, mine'["operator"][r], Documents')
    BY <1>2 DEF FillerInv, Documents
  <2>2. "medium" \in Built("operator")' =>
          Resolve(mine'["operator"]["medium"], "family", mine'["operator"]["media_family"], "name")
    BY <1>2 DEF FillerInv
  <2> QED  BY <2>1, <2>2 DEF FillerInv
<1> QED  BY <1>1, <1>2

\* The fill has rebuilt the relations up to its step.
LEMMA BuiltPlaces ==
  ASSUME ShapeInv, CallInv, ProgressInv
  PROVE  /\ Program("operator") = <<>> => Built("operator") = {}
         /\ Program("operator") # <<>> =>
              /\ Program("operator") = BootstrapFillOrder /\ step["operator"] \in 0..31
              /\ Built("operator") = {r \in Relations : Place[r] <= step["operator"]}
         /\ "medium" \in Built("operator") => "media_family" \in Built("operator")
<1>0. "operator" \in Sessions
  BY DEF Sessions
<1>1. Program("operator") = <<>> => Built("operator") = {}
  BY <1>0, IdleSession
<1>2. ASSUME Program("operator") # <<>>
      PROVE  /\ Program("operator") = BootstrapFillOrder /\ step["operator"] \in 0..31
             /\ Built("operator") = {r \in Relations : Place[r] <= step["operator"]}
  <2>1. Program("operator") = BootstrapFillOrder
    BY <1>0, <1>2, SessionKinds
  <2>2. step["operator"] \in 0..31
    BY <1>0, <2>1, FillOrder DEF ProgressInv
  <2>3. Built("operator") = {BootstrapFillOrder[i] : i \in 1..step["operator"]}
    BY <2>1 DEF Built
  <2>4. \A r \in Relations : Place[r] <= step["operator"] => r \in Built("operator")
    BY <2>2, <2>3, FillOrder
  <2>5. \A r \in Built("operator") : r \in Relations /\ Place[r] <= step["operator"]
    BY <2>2, <2>3, FillOrder
  <2> QED  BY <2>1, <2>2, <2>4, <2>5
<1>3. "medium" \in Relations /\ "media_family" \in Relations /\ Place["medium"] = 5 /\ Place["media_family"] = 4
  BY Columns, Groups DEF Place
<1>4. "medium" \in Built("operator") => "media_family" \in Built("operator")
  <2>1. CASE Program("operator") = <<>>
    BY <1>1, <2>1
  <2>2. CASE Program("operator") # <<>>
    <3>1. Built("operator") = {r \in Relations : Place[r] <= step["operator"]} /\ step["operator"] \in 0..31
      BY <1>2, <2>2, Zenon
    <3> QED  BY <3>1, <1>3
  <2> QED  BY <2>1, <2>2
<1> QED  BY <1>1, <1>2, <1>4

-----------------------------------------------------------------------------
(* Every step preserves the invariant.                                     *)

\* A call begins.
LEMMA BeginStep ==
  ASSUME FillInv, Fill \/ Refresh \/ Revise
  PROVE  FillInv'
<1>0. /\ ShapeInv /\ CallInv /\ ProgressInv /\ LockInv /\ RowInv /\ JoinInv /\ FillerInv /\ FilledInv /\ RaiseInv
  BY DEF FillInv
<1>a. PICK s \in Sessions : \E c :
        /\ Begin(s, c)
        /\ \/ s = "operator" /\ c = [kind |-> "bootstrap_fill"]
           \/ s = "refresher" /\ c \in {[kind |-> "refresh_artist_member_of"], [kind |-> "refresh_vertex_degree"]}
           \/ /\ s = "loader" /\ c \in LoaderCalls /\ <<now, c.to>> \in Revisions
              /\ c.left = Touched[<<now, c.to>>]
  <2>1. CASE Fill
    BY <2>1 DEF Fill, Sessions
  <2>2. CASE Refresh
    BY <2>2 DEF Refresh, Sessions
  <2>3. CASE Revise
    <3>1. PICK to \in DOMAIN Catalogs, backwards \in BOOLEAN :
            /\ <<now, to>> \in Revisions
            /\ Begin("loader", [kind |-> "revise", to |-> to, left |-> Touched[<<now, to>>], backwards |-> backwards])
      BY <2>3 DEF Revise
    <3>2. Touched[<<now, to>>] \in SUBSET DocumentRelations
      BY <3>1 DEF Touched
    <3> DEFINE d == [kind |-> "revise", to |-> to, left |-> Touched[<<now, to>>], backwards |-> backwards]
    <3>3. d \in LoaderCalls /\ d.to = to /\ d.left = Touched[<<now, to>>]
      BY <3>2 DEF LoaderCalls
    <3> QED  BY <3>1, <3>3 DEF Sessions
  <2> QED  BY <2>1, <2>2, <2>3
<1>1. PICK c :
        /\ Begin(s, c)
        /\ \/ s = "operator" /\ c = [kind |-> "bootstrap_fill"]
           \/ s = "refresher" /\ c \in {[kind |-> "refresh_artist_member_of"], [kind |-> "refresh_vertex_degree"]}
           \/ /\ s = "loader" /\ c \in LoaderCalls /\ <<now, c.to>> \in Revisions
              /\ c.left = Touched[<<now, c.to>>]
  BY <1>a
<1>2. /\ call[s] = Idle /\ call'[s] = c /\ \A u \in Sessions \ {s} : call'[u] = call[u]
      /\ DOMAIN call' = Sessions /\ calls' \in [Sessions -> 0..MaxCalls]
      /\ UNCHANGED <<now, graph, step, emptied, mine, reading, writing, raised, filled>>
  <2>1. call[s] = Idle /\ call'[s] = c /\ (\A u \in Sessions \ {s} : call'[u] = call[u]) /\ DOMAIN call' = Sessions
    BY <1>0, <1>1 DEF Begin, ShapeInv
  <2>2. calls' \in [Sessions -> 0..MaxCalls]
    <3>1. calls[s] \in 0..MaxCalls /\ calls[s] < MaxCalls /\ calls' = [calls EXCEPT ![s] = calls[s] + 1]
      BY <1>0, <1>1 DEF Begin, ShapeInv
    <3>2. calls[s] + 1 \in 0..MaxCalls
      BY <3>1, CatalogAssumption
    <3> QED  BY <1>0, <3>1, <3>2 DEF ShapeInv
  <2> QED  BY <1>1, <2>1, <2>2 DEF Begin
<1>3. step[s] = 0 /\ emptied[s] = FALSE /\ Built(s) = {} /\ DOMAIN mine[s] = {}
  BY <1>0, <1>2, SessionKinds, IdleSession
<1>4. Built(s)' = {}
  BY <1>2, <1>3 DEF Built
<1>5. \A u \in Sessions \ {s} : Program(u)' = Program(u) /\ Target(u)' = Target(u) /\ Built(u)' = Built(u)
  BY <1>2, SameSession
<1>6. ShapeInv'
  BY <1>0, <1>2 DEF ShapeInv
<1>7. CallInv'
  <2>1. CASE s = "operator"
    BY <1>0, <1>1, <1>2, <2>1 DEF CallInv, OperatorCalls, Sessions
  <2>2. CASE s = "refresher"
    BY <1>0, <1>1, <1>2, <2>2 DEF CallInv, RefresherCalls, Sessions
  <2>3. CASE s = "loader"
    <3>1. writing["loader"] = {}
      BY <1>0, <1>2, <2>3, CallKinds DEF CallInv
    <3>2. c \in LoaderCalls /\ <<now, c.to>> \in Revisions /\ c.left = Touched[<<now, c.to>>]
      BY <1>1, <2>3
    <3>3. call'["loader"] = c /\ call'["operator"] = call["operator"] /\ call'["refresher"] = call["refresher"]
      BY <1>2, <2>3 DEF Sessions
    <3> QED  BY <1>0, <1>2, <3>1, <3>2, <3>3 DEF CallInv
  <2> QED  BY <2>1, <2>2, <2>3 DEF Sessions
<1>8. ProgressInv'
  <2> SUFFICES ASSUME NEW u \in Sessions
               PROVE  /\ step'[u] \in 0..Len(Program(u)')
                      /\ emptied'[u] => step'[u] < Len(Program(u)') /\ mine'[u][Target(u)'] = {}
                      /\ DOMAIN mine'[u] = Built(u)' \cup (IF emptied'[u] THEN {Target(u)'} ELSE {})
    BY DEF ProgressInv
  <2>1. CASE u = s
    <3>1. Len(Program(s)') \in Nat
      <4>1. Program(s)' = Programs(c.kind)
        BY <1>2 DEF Program
      <4>2. Programs(c.kind) \in {<<>>, BootstrapFillOrder, <<"artist_member_of">>, <<"vertex_degree">>}
        BY <1>1, CallKinds
      <4>3. Len(BootstrapFillOrder) \in Nat
        BY FillOrder
      <4> QED  BY <4>1, <4>2, <4>3
    <3> QED  BY <1>2, <1>3, <1>4, <2>1, <3>1
  <2>2. CASE u # s
    BY <1>0, <1>2, <1>5, <2>2 DEF ProgressInv
  <2> QED  BY <2>1, <2>2
<1>9. LockInv'
  BY <1>0, <1>2 DEF LockInv, KeepsAllOff, Holds
<1>10. RowInv' /\ JoinInv' /\ FilledInv' /\ RaiseInv'
  BY <1>0, <1>2, RowsStay
<1>11. FillerInv'
  <2>1. Built("operator")' = {} \/ Built("operator")' = Built("operator")
    BY <1>4, <1>5 DEF Sessions
  <2> QED  BY <1>0, <1>2, <2>1, FillerStays, BuiltPlaces
<1> QED  BY <1>6, <1>7, <1>8, <1>9, <1>10, <1>11 DEF FillInv

\* A session that does not wait wants nothing that another one has.
LEMMA NotWaiting ==
  ASSUME NEW s \in Sessions, ~Waits(s), NEW t \in Sessions, s # t
  PROVE  /\ call[s].kind = "revise" => NextTables(call[s]) \cap KeepsAllOff(t) = {}
         /\ Program(s) # <<>> /\ step[s] < Len(Program(s)) /\ emptied[s] => Sources(Target(s)) \cap KeepsAllOff(t) = {}
         /\ Program(s) # <<>> /\ step[s] < Len(Program(s)) /\ ~emptied[s] => Target(s) \notin Holds(t)
  BY DEF Waits, WaitsFor

\* A call empties its next table.
LEMMA TruncateStep ==
  ASSUME FillInv, NEW s \in Sessions, step[s] < Len(Program(s)), ~Waits(s), ~emptied[s], Truncate(s)
  PROVE  FillInv'
<1>0. /\ ShapeInv /\ CallInv /\ ProgressInv /\ LockInv /\ RowInv /\ JoinInv /\ FillerInv /\ FilledInv /\ RaiseInv
  BY DEF FillInv
<1> DEFINE r == Target(s)
<1>1. Program(s) # <<>> /\ r \in Relations /\ r \notin Built(s)
  BY <1>0, NextTable
<1>2. UNCHANGED <<now, graph, call, step, reading, writing, calls, raised, filled>>
  BY DEF Truncate
<1>3. /\ DOMAIN mine' = Sessions /\ emptied' \in [Sessions -> BOOLEAN] /\ emptied'[s] = TRUE
      /\ mine'[s] = [x \in DOMAIN mine[s] \cup {r} |-> IF x = r THEN {} ELSE mine[s][x]]
      /\ \A u \in Sessions \ {s} : mine'[u] = mine[u] /\ emptied'[u] = emptied[u]
  BY <1>0 DEF Truncate, Rewrite, ShapeInv
<1>4. DOMAIN mine'[s] = DOMAIN mine[s] \cup {r} /\ mine'[s][r] = {} /\ \A x \in DOMAIN mine[s] \ {r} : mine'[s][x] = mine[s][x]
  BY <1>3
<1>5. \A u \in Sessions : Program(u)' = Program(u) /\ Target(u)' = Target(u) /\ Built(u)' = Built(u)
  BY <1>2, SameSession
<1>6. DOMAIN mine[s] = Built(s)
  BY <1>0 DEF ProgressInv
<1> HIDE DEF r
<1>7. ShapeInv'
  BY <1>0, <1>2, <1>3 DEF ShapeInv
<1>8. CallInv'
  BY <1>0, <1>2 DEF CallInv
<1>9. ProgressInv'
  <2> SUFFICES ASSUME NEW u \in Sessions
               PROVE  /\ step'[u] \in 0..Len(Program(u)')
                      /\ emptied'[u] => step'[u] < Len(Program(u)') /\ mine'[u][Target(u)'] = {}
                      /\ DOMAIN mine'[u] = Built(u)' \cup (IF emptied'[u] THEN {Target(u)'} ELSE {})
    BY DEF ProgressInv
  <2>1. CASE u = s
    <3>1. step[s] \in 0..Len(Program(s))
      BY <1>0 DEF ProgressInv
    <3> QED  BY <1>2, <1>3, <1>4, <1>5, <1>6, <2>1, <3>1 DEF r
  <2>2. CASE u # s
    BY <1>0, <1>2, <1>3, <1>5, <2>2 DEF ProgressInv
  <2> QED  BY <2>1, <2>2
<1>10. LockInv'
  <2>1. \A t \in Sessions \ {s} : r \notin Holds(t)
    BY <1>1, NotWaiting DEF r
  <2>2. \A u \in Sessions : KeepsAllOff(u)' \subseteq KeepsAllOff(u) \cup (IF u = s THEN {r} ELSE {})
    BY <1>3, <1>4 DEF KeepsAllOff
  <2>3. \A u \in Sessions : Holds(u)' \subseteq Holds(u) \cup (IF u = s THEN {r} ELSE {})
    BY <1>2, <2>2 DEF Holds
  <2>4. \A t \in Sessions \ {s} : r \notin KeepsAllOff(t)
    BY <2>1 DEF Holds
  <2> SUFFICES ASSUME NEW u \in Sessions, NEW t \in Sessions, u # t, NEW x \in KeepsAllOff(u)', x \in Holds(t)'
               PROVE  FALSE
    BY DEF LockInv
  <2>5. KeepsAllOff(u) \cap Holds(t) = {}
    BY <1>0 DEF LockInv
  <2> QED  BY <2>1, <2>2, <2>3, <2>4, <2>5
<1>11. RowInv'
  <2>1. Sound(r, {})
    BY DEF Sound, Unique, Whole
  <2>2. ASSUME NEW u \in Sessions, NEW x \in DOMAIN mine'[u]
        PROVE  Sound(x, mine'[u][x])
    <3>1. CASE u = s /\ x = r
      BY <1>4, <2>1, <3>1
    <3>2. CASE u = s /\ x # r
      BY <1>0, <1>4, <3>2 DEF RowInv
    <3>3. CASE u # s
      BY <1>0, <1>3, <3>3 DEF RowInv
    <3> QED  BY <3>1, <3>2, <3>3
  <2>3. \A x \in Relations : Sound(x, graph'[x])
    BY <1>0, <1>2 DEF RowInv
  <2>4. (\A x \in Relations : Sound(x, graph'[x])) /\ (\A u \in Sessions : \A x \in DOMAIN mine'[u] : Sound(x, mine'[u][x]))
        => RowInv'
    BY DEF RowInv, Sound
  <2> QED  BY <2>2, <2>3, <2>4
<1>12. JoinInv' /\ FilledInv' /\ RaiseInv'
  BY <1>0, <1>2 DEF JoinInv, FilledInv, RaiseInv, InsertsNeverConflict, Documents
<1>13. FillerInv'
  <2>1. \A x \in Built("operator") : mine'["operator"][x] = mine["operator"][x]
    BY <1>1, <1>3, <1>4, <1>6 DEF Sessions
  <2>2. Built("operator")' = Built("operator")
    BY <1>5 DEF Sessions
  <2> QED  BY <1>0, <1>2, <2>1, <2>2, FillerStays, BuiltPlaces
<1> QED  BY <1>7, <1>8, <1>9, <1>10, <1>11, <1>12, <1>13 DEF FillInv

\* What a session sees: the tables it holds as it has rewritten them, the others as committed.
LEMMA Viewed ==
  ASSUME ShapeInv, CallInv, ProgressInv, RowInv, NEW s \in Sessions
  PROVE  /\ DOMAIN mine[s] \subseteq Relations /\ DOMAIN View(s) = Relations
         /\ \A r \in Relations : View(s)[r] = IF r \in DOMAIN mine[s] THEN mine[s][r] ELSE graph[r]
         /\ \A r \in Relations : Sound(r, View(s)[r])
<1>1. DOMAIN mine[s] \subseteq Relations
  <2>1. CASE step[s] < Len(Program(s))
    <3>1. Built(s) \subseteq Relations /\ Target(s) \in Relations
      BY <2>1, NextTable
    <3> QED  BY <3>1 DEF ProgressInv
  <2>2. CASE ~(step[s] < Len(Program(s)))
    <3>1. Built(s) \subseteq Relations
      <4>1. \A i \in 1..Len(Program(s)) : Program(s)[i] \in Relations
        BY ProgramTables
      <4>2. step[s] \in 0..Len(Program(s)) /\ Len(Program(s)) \in Nat
        BY ProgramTables DEF ProgressInv
      <4> QED  BY <4>1, <4>2 DEF Built
    <3> QED  BY <2>2, <3>1 DEF ProgressInv
  <2> QED  BY <2>1, <2>2
<1>2. DOMAIN graph = Relations
  BY DEF ShapeInv
<1>3. DOMAIN View(s) = Relations /\ \A r \in Relations : View(s)[r] = IF r \in DOMAIN mine[s] THEN mine[s][r] ELSE graph[r]
  BY <1>1, <1>2 DEF View, Over
<1>4. \A r \in Relations : Sound(r, View(s)[r])
  BY <1>3 DEF RowInv
<1> QED  BY <1>1, <1>3, <1>4

\* Why an INSERT raises.
LEMMA Raises ==
  ASSUME FillInv, NEW s \in Sessions, step[s] < Len(Program(s))
  PROVE  /\ Unique(Target(s), Body(Target(s), Documents, View(s)))
         /\ ~Duplicates(Target(s), Documents, Body(Target(s), Documents, View(s)))
         /\ Overflows(Target(s), Documents, View(s)) =>
              \E c \in DOMAIN Catalogs : \E id \in DOMAIN Catalogs[c].releases :
                LET year == Trimmed(GetText(Catalogs[c].releases[id], "year"))
                IN year \in DOMAIN Number /\ Number[year] > MaxInteger
<1>0. /\ ShapeInv /\ CallInv /\ ProgressInv /\ RowInv
  BY DEF FillInv
<1>1. Target(s) \in Relations /\ WellFormed(Documents)
  BY <1>0, NextTable, DocumentAssumption DEF Documents, ShapeInv
<1>2. Whole("member_of", View(s)["member_of"])
  <2>1. "member_of" \in Relations /\ "member_of" \in Plain
    BY Columns, Groups DEF Plain
  <2> QED  BY <1>0, <2>1, Viewed DEF Sound
<1>3. ASSUME NEW edge, NEW column, NEW tag, NEW y \in DatedYears(Documents, View(s), edge, column, tag), y > MaxInteger
      PROVE  \E c \in DOMAIN Catalogs : \E id \in DOMAIN Catalogs[c].releases :
               LET year == Trimmed(GetText(Catalogs[c].releases[id], "year"))
               IN year \in DOMAIN Number /\ Number[year] > MaxInteger
  <2>1. PICK e : /\ e.release_id \in DOMAIN Documents.releases
                 /\ PositiveDecimal(Trimmed(GetText(Documents.releases[e.release_id], "year")))
                 /\ y = Number[Trimmed(GetText(Documents.releases[e.release_id], "year"))]
    BY DEF DatedYears
  <2> DEFINE id == e.release_id
  <2>2. now \in DOMAIN Catalogs /\ id \in DOMAIN Catalogs[now].releases
    BY <1>0, <2>1 DEF Documents, ShapeInv
  <2>3. LET year == Trimmed(GetText(Catalogs[now].releases[id], "year"))
        IN year \in DOMAIN Number /\ Number[year] > MaxInteger
    BY <1>3, <2>1 DEF Documents, PositiveDecimal
  <2> QED  BY <2>2, <2>3
<1>4. Overflows(Target(s), Documents, View(s)) =>
        \E edge, column, tag : \E y \in DatedYears(Documents, View(s), edge, column, tag) : y > MaxInteger
  BY DEF Overflows
<1> QED  BY <1>1, <1>2, <1>3, <1>4, NoDuplicates

\* A call ends and changes no committed table.
LEMMA RollbackStep ==
  ASSUME FillInv, NEW s \in Sessions, Rollback(s),
         \/ UNCHANGED raised
         \/ /\ raised' = "year"
            /\ \E c \in DOMAIN Catalogs : \E id \in DOMAIN Catalogs[c].releases :
                 LET year == Trimmed(GetText(Catalogs[c].releases[id], "year"))
                 IN year \in DOMAIN Number /\ Number[year] > MaxInteger
  PROVE  FillInv'
<1>0. /\ ShapeInv /\ CallInv /\ ProgressInv /\ LockInv /\ RowInv /\ JoinInv /\ FillerInv /\ FilledInv /\ RaiseInv
  BY DEF FillInv
<1>1. End(s) /\ now' = now /\ graph' = graph /\ filled' = filled
  BY DEF Rollback
<1>2. /\ DOMAIN call' = Sessions /\ DOMAIN mine' = Sessions /\ DOMAIN reading' = Sessions /\ DOMAIN writing' = Sessions
      /\ step' \in [Sessions -> Nat] /\ emptied' \in [Sessions -> BOOLEAN] /\ calls' \in [Sessions -> 0..MaxCalls]
      /\ CallInv' /\ ProgressInv' /\ LockInv' /\ DOMAIN mine'[s] = {} /\ Built(s)' = {}
      /\ \A u \in Sessions \ {s} : call'[u] = call[u] /\ mine'[u] = mine[u] /\ Built(u)' = Built(u)
  BY <1>0, <1>1, EndCall
<1>3. ShapeInv'
  BY <1>0, <1>1, <1>2 DEF ShapeInv
<1>4. RowInv'
  BY <1>0, <1>1, <1>2 DEF RowInv, Sound
<1>5. JoinInv' /\ FilledInv'
  BY <1>0, <1>1 DEF JoinInv, FilledInv, Documents
<1>6. FillerInv'
  <2>1. Built("operator")' = {} \/ (Built("operator")' = Built("operator") /\ mine'["operator"] = mine["operator"])
    BY <1>2 DEF Sessions
  <2> QED  BY <1>0, <1>1, <2>1, FillerStays, BuiltPlaces
<1>7. RaiseInv'
  BY <1>0 DEF RaiseInv, InsertsNeverConflict
<1> QED  BY <1>2, <1>3, <1>4, <1>5, <1>6, <1>7 DEF FillInv

\* Arithmetic of the fill's step.
LEMMA Successor ==
  \A n \in 0..31 : (n + 1 = 5 => n = 4) /\ (n + 1 \in 0..31 => n + 1 \in 1..31)
  OBVIOUS

\* A call fills the table it has emptied.
LEMMA InsertStep ==
  ASSUME FillInv, NEW s \in Sessions, step[s] < Len(Program(s)), ~Waits(s), emptied[s],
         LET r == Target(s)
         IN /\ Rewrite(s, mine[s][r] \cup Body(r, Documents, View(s)))
            /\ step' = [step EXCEPT ![s] = @ + 1] /\ emptied' = [emptied EXCEPT ![s] = FALSE]
            /\ reading' = [reading EXCEPT ![s] = @ \cup Sources(r)]
            /\ UNCHANGED <<now, graph, call, writing, calls, raised, filled>>
  PROVE  FillInv'
<1>0. /\ ShapeInv /\ CallInv /\ ProgressInv /\ LockInv /\ RowInv /\ JoinInv /\ FillerInv /\ FilledInv /\ RaiseInv
  BY DEF FillInv
<1> DEFINE r == Target(s)
           rows == Body(r, Documents, View(s))
<1>1. /\ Program(s) # <<>> /\ r \in Relations /\ r \notin Built(s)
      /\ {Program(s)[i] : i \in 1..(step[s] + 1)} = Built(s) \cup {r} /\ step[s] + 1 \in 0..Len(Program(s))
  BY <1>0, NextTable
<1>2. UNCHANGED <<now, graph, call, writing, calls, raised, filled>>
  OBVIOUS
<1>3. DOMAIN mine[s] = Built(s) \cup {r} /\ mine[s][r] = {}
  BY <1>0 DEF ProgressInv
<1>4. /\ DOMAIN mine' = Sessions /\ DOMAIN reading' = Sessions
      /\ step' \in [Sessions -> Nat] /\ emptied' \in [Sessions -> BOOLEAN]
      /\ emptied'[s] = FALSE /\ step'[s] = step[s] + 1 /\ reading'[s] = reading[s] \cup Sources(r)
      /\ mine'[s] = [x \in DOMAIN mine[s] \cup {r} |-> IF x = r THEN mine[s][r] \cup rows ELSE mine[s][x]]
      /\ \A u \in Sessions \ {s} : /\ mine'[u] = mine[u] /\ emptied'[u] = emptied[u] /\ step'[u] = step[u]
                                   /\ reading'[u] = reading[u]
  BY <1>0 DEF Rewrite, ShapeInv
<1>5. DOMAIN mine'[s] = Built(s) \cup {r} /\ mine'[s][r] = rows /\ \A x \in Built(s) : mine'[s][x] = mine[s][x]
  <2> HIDE DEF rows, r
  <2> QED  BY <1>1, <1>3, <1>4
<1>6. /\ \A u \in Sessions : Program(u)' = Program(u)
      /\ \A u \in Sessions \ {s} : Target(u)' = Target(u) /\ Built(u)' = Built(u)
  BY <1>2, <1>4, SameSession
<1>7. Built(s)' = Built(s) \cup {r}
  <2>1. Built(s)' = {Program(s)[i] : i \in 1..(step[s] + 1)}
    BY <1>2, <1>4 DEF Built, Program
  <2> QED  BY <1>1, <2>1
<1>8. Sound(r, rows)
  BY Raises, PlainBodies DEF Sound
<1> HIDE DEF r, rows
<1>9. ShapeInv'
  BY <1>0, <1>2, <1>4 DEF ShapeInv
<1>10. CallInv'
  BY <1>0, <1>2 DEF CallInv
<1>11. ProgressInv'
  <2> SUFFICES ASSUME NEW u \in Sessions
               PROVE  /\ step'[u] \in 0..Len(Program(u)')
                      /\ emptied'[u] => step'[u] < Len(Program(u)') /\ mine'[u][Target(u)'] = {}
                      /\ DOMAIN mine'[u] = Built(u)' \cup (IF emptied'[u] THEN {Target(u)'} ELSE {})
    BY DEF ProgressInv
  <2>1. CASE u = s
    BY <1>1, <1>4, <1>5, <1>6, <1>7, <2>1
  <2>2. CASE u # s
    BY <1>0, <1>4, <1>6, <2>2 DEF ProgressInv
  <2> QED  BY <2>1, <2>2
<1>12. LockInv'
  <2>1. \A t \in Sessions \ {s} : Sources(r) \cap KeepsAllOff(t) = {}
    BY <1>1, NotWaiting DEF r
  <2>2. \A u \in Sessions : KeepsAllOff(u)' = KeepsAllOff(u)
    BY <1>3, <1>4, <1>5 DEF KeepsAllOff
  <2>3. \A u \in Sessions : Holds(u)' \subseteq Holds(u) \cup (IF u = s THEN Sources(r) ELSE {})
    BY <1>2, <1>4, <2>2 DEF Holds
  <2> SUFFICES ASSUME NEW u \in Sessions, NEW t \in Sessions, u # t, NEW x \in KeepsAllOff(u)', x \in Holds(t)'
               PROVE  FALSE
    BY DEF LockInv
  <2>4. KeepsAllOff(u) \cap Holds(t) = {}
    BY <1>0 DEF LockInv
  <2> QED  BY <2>1, <2>2, <2>3, <2>4
<1>13. RowInv'
  <2>1. ASSUME NEW u \in Sessions, NEW x \in DOMAIN mine'[u]
        PROVE  Sound(x, mine'[u][x])
    <3>1. CASE u = s /\ x = r
      BY <1>5, <1>8, <3>1
    <3>2. CASE u = s /\ x # r
      BY <1>0, <1>3, <1>5, <3>2 DEF RowInv
    <3>3. CASE u # s
      BY <1>0, <1>4, <3>3 DEF RowInv
    <3> QED  BY <3>1, <3>2, <3>3
  <2>2. \A x \in Relations : Sound(x, graph'[x])
    BY <1>0, <1>2 DEF RowInv
  <2>3. (\A x \in Relations : Sound(x, graph'[x])) /\ (\A u \in Sessions : \A x \in DOMAIN mine'[u] : Sound(x, mine'[u][x]))
        => RowInv'
    BY DEF RowInv, Sound
  <2> QED  BY <2>1, <2>2, <2>3
<1>14. JoinInv' /\ FilledInv' /\ RaiseInv'
  BY <1>0, <1>2 DEF JoinInv, FilledInv, RaiseInv, InsertsNeverConflict, Documents
<1>15. FillerInv'
  <2>1. CASE s # "operator"
    <3>1. Built("operator")' = Built("operator") /\ mine'["operator"] = mine["operator"]
      BY <1>4, <1>6, <2>1 DEF Sessions
    <3> QED  BY <1>0, <1>2, <3>1, FillerStays, BuiltPlaces
  <2>2. CASE s = "operator"
    <3>1. ASSUME NEW x \in DocumentRelations, x \in Built("operator")'
          PROVE  Exact(x, mine'["operator"][x], Documents)
      <4>1. CASE x = r
        <5>1. KeysOf(x, rows) = Stated(x, Documents)
          <6>1. Body(x, Documents, View(s)) = Body(x, Documents, <<>>)
            BY SameBody
          <6> QED  BY <4>1, <6>1 DEF rows, Stated
        <5> QED  BY <1>5, <2>2, <4>1, <5>1 DEF Exact
      <4>2. CASE x # r
        BY <1>0, <1>5, <1>7, <2>2, <3>1, <4>2 DEF FillerInv
      <4> QED  BY <4>1, <4>2
    <3>2. ASSUME "medium" \in Built("operator")'
          PROVE  Resolve(mine'["operator"]["medium"], "family", mine'["operator"]["media_family"], "name")
      <4>0. /\ Program("operator") = BootstrapFillOrder /\ step["operator"] \in 0..31
            /\ Built("operator") = {x \in Relations : Place[x] <= step["operator"]}
        BY <1>0, <1>1, <2>2, BuiltPlaces
      <4>a. Program("operator") = BootstrapFillOrder /\ step["operator"] \in 0..31
        BY <4>0, Zenon
      <4>b. Built("operator") = {x \in Relations : Place[x] <= step["operator"]}
        BY <4>0, Zenon
      <4>1. /\ "medium" \in Relations /\ "media_family" \in Relations /\ Place["medium"] = 5 /\ Place["media_family"] = 4
            /\ "media_family" \in DocumentRelations
        BY Columns, Groups DEF Place, DocumentRelations
      <4>2. Place[r] = step["operator"] + 1
        <5>1. step["operator"] + 1 \in 1..31 /\ r = BootstrapFillOrder[step["operator"] + 1]
          <6>1. r = Program("operator")[step["operator"] + 1]
            BY <2>2 DEF r, Target
          <6>2. step["operator"] + 1 \in 0..31
            <7>1. Len(Program(s)) = 31
              BY <2>2, <4>a, FillOrder
            <7> QED  BY <1>1, <2>2, <7>1
          <6>3. step["operator"] + 1 \in 1..31
            BY <4>a, <6>2, Successor, Zenon
          <6> QED  BY <4>a, <6>1, <6>3
        <5> QED  BY <5>1, FillOrder
      <4>3. CASE r = "medium"
        <5>1. "media_family" \in Built("operator")
          <6>1. step["operator"] = 4
            <7>1. step["operator"] + 1 = 5
              BY <4>1, <4>2, <4>3
            <7> QED  BY <4>a, <7>1, Successor, Zenon
          <6>2. "media_family" \in {x \in Relations : Place[x] <= step["operator"]}
            BY <4>1, <6>1
          <6> QED  BY <4>b, <6>2
        <5>2. Stated("media_family", Documents) \subseteq KeysOf("media_family", mine["operator"]["media_family"])
          BY <1>0, <4>1, <5>1 DEF FillerInv, Exact
        <5>3. mine'["operator"]["medium"] = Body("medium", Documents, <<>>)
          <6>1. Body("medium", Documents, View(s)) = Body("medium", Documents, <<>>)
            BY SameBody, Groups DEF DocumentRelations
          <6> QED  BY <1>5, <2>2, <4>3, <6>1 DEF rows
        <5>4. mine'["operator"]["media_family"] = mine["operator"]["media_family"]
          BY <1>5, <2>2, <5>1
        <5>5. ASSUME NEW m \in Body("medium", Documents, <<>>)
              PROVE  \E v \in mine["operator"]["media_family"] : v["name"] = m["family"]
          <6> DEFINE j == <<"medium", "family", "media_family", "name">>
          <6>1. WellFormed(Documents) /\ j \in Joins
            BY <1>0, DocumentAssumption DEF Documents, ShapeInv, Joins
          <6>2. Resolve(Body("medium", Documents, <<>>), "family", Body("media_family", Documents, <<>>), "name")
            BY <6>1, BodyJoins
          <6>3. PICK v \in Body("media_family", Documents, <<>>) : v["name"] = m["family"]
            BY <6>2 DEF Resolve
          <6>4. Key("media_family", v) \in KeysOf("media_family", mine["operator"]["media_family"])
            BY <5>2, StatedRow
          <6>5. PICK w \in mine["operator"]["media_family"] : Key("media_family", v) = Key("media_family", w)
            BY <6>4 DEF KeysOf
          <6>6. v["name"] = w["name"]
            BY <6>5, SameKey, Keys
          <6> QED  BY <6>3, <6>6
        <5> QED  BY <5>3, <5>4, <5>5 DEF Resolve
      <4>4. CASE r # "medium"
        <5>1. "medium" \in Built("operator")
          BY <1>7, <2>2, <3>2, <4>4
        <5>2. "media_family" \in Built("operator")
          BY <1>0, <5>1, BuiltPlaces
        <5> QED  BY <1>0, <1>5, <2>2, <5>1, <5>2 DEF FillerInv
      <4> QED  BY <4>3, <4>4
    <3> QED  BY <1>2, <3>1, <3>2 DEF FillerInv, Documents
  <2> QED  BY <2>1, <2>2
<1> QED  BY <1>9, <1>10, <1>11, <1>12, <1>13, <1>14, <1>15 DEF FillInv

\* A fill or a refresh commits what it has rebuilt.
LEMMA CommitStep ==
  ASSUME FillInv, NEW s \in Sessions, Commit(s)
  PROVE  FillInv'
<1>0. /\ ShapeInv /\ CallInv /\ ProgressInv /\ LockInv /\ RowInv /\ JoinInv /\ FillerInv /\ FilledInv /\ RaiseInv
  BY DEF FillInv
<1>1. /\ Program(s) # <<>> /\ step[s] = Len(Program(s)) /\ graph' = View(s) /\ End(s) /\ now' = now /\ raised' = raised
      /\ filled' = (filled \/ call[s].kind = "bootstrap_fill")
  BY DEF Commit
<1>2. /\ DOMAIN call' = Sessions /\ DOMAIN mine' = Sessions /\ DOMAIN reading' = Sessions /\ DOMAIN writing' = Sessions
      /\ step' \in [Sessions -> Nat] /\ emptied' \in [Sessions -> BOOLEAN] /\ calls' \in [Sessions -> 0..MaxCalls]
      /\ CallInv' /\ ProgressInv' /\ LockInv' /\ DOMAIN mine'[s] = {} /\ Built(s)' = {}
      /\ \A u \in Sessions \ {s} : call'[u] = call[u] /\ mine'[u] = mine[u] /\ Built(u)' = Built(u)
  BY <1>0, <1>1, EndCall
<1>3. /\ DOMAIN graph' = Relations
      /\ \A r \in Relations : graph'[r] = IF r \in DOMAIN mine[s] THEN mine[s][r] ELSE graph[r]
      /\ \A r \in Relations : Sound(r, graph'[r])
  BY <1>0, <1>1, Viewed
<1>4. DOMAIN mine[s] = Built(s)
  <2>1. Len(Program(s)) \in Nat /\ step[s] = Len(Program(s))
    BY <1>0, <1>1, ProgramTables
  <2>2. ~(step[s] < Len(Program(s)))
    BY <2>1
  <2>3. emptied[s] = FALSE
    BY <1>0, <2>2 DEF ShapeInv, ProgressInv
  <2>4. DOMAIN mine[s] = Built(s) \cup (IF emptied[s] THEN {Target(s)} ELSE {})
    BY <1>0 DEF ProgressInv
  <2> QED  BY <2>3, <2>4
<1>5. ShapeInv'
  BY <1>0, <1>1, <1>2, <1>3 DEF ShapeInv
<1>6. RowInv'
  <2>1. \A u \in Sessions : \A x \in DOMAIN mine'[u] : Sound(x, mine'[u][x])
    BY <1>0, <1>2 DEF RowInv
  <2>2. (\A x \in Relations : Sound(x, graph'[x])) /\ (\A u \in Sessions : \A x \in DOMAIN mine'[u] : Sound(x, mine'[u][x]))
        => RowInv'
    BY DEF RowInv, Sound
  <2> QED  BY <1>3, <2>1, <2>2
<1>7. JoinInv' /\ FilledInv'
  <2>0. \A j \in Joins : j[1] \in DocumentRelations /\ j[3] \in DocumentRelations
    BY JoinKeys DEF DocumentRelations
  <2>00. DocumentRelations \subseteq Relations
    BY Columns DEF DocumentRelations
  <2>1. CASE s = "operator"
    <3>1. \A r \in Relations : r \in Built("operator")
      <4>1. Program("operator") = BootstrapFillOrder
        BY <1>1, <2>1, BuiltPlaces, <1>0
      <4>2. step["operator"] = 31
        BY <1>1, <2>1, <4>1, FillOrder
      <4>3. Built("operator") = {BootstrapFillOrder[i] : i \in 1..31}
        BY <4>1, <4>2 DEF Built
      <4> QED  BY <4>3, FillOrder
    <3>2. \A r \in Relations : graph'[r] = mine["operator"][r]
      BY <1>3, <1>4, <2>1, <3>1
    <3>3. \A r \in DocumentRelations : Exact(r, graph'[r], Documents)
      BY <1>0, <2>00, <3>1, <3>2 DEF FillerInv
    <3>4. ASSUME NEW j \in Joins
          PROVE  Resolve(graph'[j[1]], j[2], graph'[j[3]], j[4])
      <4>1. CASE j[1] = "medium"
        <5>1. j = <<"medium", "family", "media_family", "name">>
          BY <4>1, JoinKeys
        <5>2. "medium" \in Relations /\ "media_family" \in Relations
          BY Columns, Groups
        <5>3. Resolve(mine["operator"]["medium"], "family", mine["operator"]["media_family"], "name")
          BY <1>0, <3>1, <5>2 DEF FillerInv
        <5> QED  BY <3>2, <5>1, <5>2, <5>3
      <4>2. CASE j[1] # "medium"
        <5>1. /\ j[1] \in EdgeTables /\ j[2] \in KeyColumns[j[1]] /\ j[1] \in DocumentRelations
              /\ j[3] \in DocumentRelations /\ KeyColumns[j[3]] = {j[4]}
          BY <4>2, <2>0, JoinKeys DEF EdgeTables
        <5>2. KeysOf(j[1], graph'[j[1]]) = Stated(j[1], Documents)
              /\ Stated(j[3], Documents) \subseteq KeysOf(j[3], graph'[j[3]])
          BY <3>3, <5>1 DEF Exact
        <5> SUFFICES ASSUME NEW e \in graph'[j[1]] PROVE \E v \in graph'[j[3]] : v[j[4]] = e[j[2]]
          BY DEF Resolve
        <5>3. Key(j[1], e) \in Stated(j[1], Documents)
          BY <5>2 DEF KeysOf
        <5>4. PICK f \in Body(j[1], Documents, <<>>) : Key(j[1], e) = Key(j[1], f)
          BY <5>3, StatedRow
        <5>5. e[j[2]] = f[j[2]]
          BY <5>1, <5>4, SameKey
        <5>6. WellFormed(Documents)
          BY <1>0, DocumentAssumption DEF Documents, ShapeInv
        <5>7. PICK v \in Body(j[3], Documents, <<>>) : v[j[4]] = f[j[2]]
          BY <5>6, BodyJoins DEF Resolve
        <5>8. Key(j[3], v) \in KeysOf(j[3], graph'[j[3]])
          BY <5>2, StatedRow
        <5>9. PICK w \in graph'[j[3]] : Key(j[3], v) = Key(j[3], w)
          BY <5>8 DEF KeysOf
        <5>10. v[j[4]] = w[j[4]]
          BY <5>1, <5>9, SameKey
        <5> QED  BY <5>5, <5>7, <5>10
      <4> QED  BY <4>1, <4>2
    <3> QED  BY <1>1, <3>3, <3>4 DEF JoinInv, FilledInv, Documents
  <2>2. CASE s # "operator"
    <3>1. s = "refresher" /\ Program(s) \in {<<"artist_member_of">>, <<"vertex_degree">>}
      BY <1>0, <1>1, <2>2, SessionKinds DEF Sessions
    <3>2. Built(s) \subseteq {"artist_member_of", "vertex_degree"}
      BY <1>1, <3>1 DEF Built
    <3>3. \A r \in DocumentRelations : graph'[r] = graph[r]
      BY <1>3, <1>4, <2>00, <3>2, Groups DEF DocumentRelations
    <3>4. filled' = filled
      BY <1>0, <1>1, <2>2, SessionKinds DEF ShapeInv
    <3>5. JoinInv'
      BY <1>0, <2>0, <3>3 DEF JoinInv
    <3>6. FilledInv'
      BY <1>0, <1>1, <3>3, <3>4 DEF FilledInv, Documents
    <3> QED  BY <3>5, <3>6
  <2> QED  BY <2>1, <2>2
<1>8. FillerInv'
  <2>1. Built("operator")' = {} \/ (Built("operator")' = Built("operator") /\ mine'["operator"] = mine["operator"])
    BY <1>2 DEF Sessions
  <2> QED  BY <1>0, <1>1, <2>1, FillerStays, BuiltPlaces
<1>9. RaiseInv'
  BY <1>0, <1>1 DEF RaiseInv, InsertsNeverConflict
<1> QED  BY <1>2, <1>5, <1>6, <1>7, <1>8, <1>9 DEF FillInv

\* A loader writes the rows of one more table.
LEMMA WriteStep ==
  ASSUME FillInv, NEW s \in Sessions, WriteRows(s)
  PROVE  FillInv'
<1>0. /\ ShapeInv /\ CallInv /\ ProgressInv /\ LockInv /\ RowInv /\ JoinInv /\ FillerInv /\ FilledInv /\ RaiseInv
  BY DEF FillInv
<1>1. s = "loader" /\ call["loader"] \in LoaderCalls /\ ~Waits(s) /\ call[s].kind = "revise"
  BY <1>0, SessionKinds DEF WriteRows
<1>2. PICK t \in NextTables(call[s]) :
        /\ call' = [call EXCEPT ![s].left = @ \ {t}] /\ writing' = [writing EXCEPT ![s] = @ \cup {t}]
        /\ UNCHANGED <<now, graph, step, emptied, mine, reading, calls, raised, filled>>
  BY DEF WriteRows
<1>3. t \in call[s].left
  BY DEF NextTables
<1>4. /\ DOMAIN call' = Sessions /\ DOMAIN writing' = Sessions
      /\ call'[s] = [call[s] EXCEPT !.left = call[s].left \ {t}] /\ writing'[s] = writing[s] \cup {t}
      /\ \A u \in Sessions \ {s} : call'[u] = call[u] /\ writing'[u] = writing[u]
  BY <1>0, <1>2 DEF ShapeInv
<1>5. /\ call'[s] \in LoaderCalls /\ call'[s].to = call[s].to /\ call'[s].left = call[s].left \ {t}
      /\ t \in DocumentRelations
  BY <1>1, <1>3, <1>4 DEF LoaderCalls
<1>6. \A u \in Sessions : Program(u)' = Program(u) /\ Target(u)' = Target(u) /\ Built(u)' = Built(u)
  <2>1. Program(s)' = Program(s)
    BY <1>1, <1>5, CallKinds DEF Program
  <2>2. Target(s)' = Target(s) /\ Built(s)' = Built(s)
    BY <1>2, <2>1 DEF Target, Built
  <2>3. \A u \in Sessions \ {s} : Program(u)' = Program(u) /\ Target(u)' = Target(u) /\ Built(u)' = Built(u)
    BY <1>2, <1>4, SameSession
  <2> QED  BY <2>1, <2>2, <2>3
<1>7. ShapeInv'
  BY <1>0, <1>2, <1>4 DEF ShapeInv
<1>8. CallInv'
  <2>1. call'["operator"] = call["operator"] /\ call'["refresher"] = call["refresher"]
    BY <1>1, <1>4 DEF Sessions
  <2>2. \A u \in Sessions \ {"loader"} : writing'[u] = {}
    BY <1>0, <1>1, <1>4 DEF CallInv
  <2>3. /\ call'["loader"] \in LoaderCalls /\ <<now, call'["loader"].to>> \in Revisions
        /\ writing'["loader"] \subseteq DocumentRelations
    BY <1>0, <1>1, <1>4, <1>5 DEF CallInv
  <2>4. call'["loader"].left \cup writing'["loader"] = Touched[<<now, call'["loader"].to>>]
    <3>1. call["loader"].left \cup writing["loader"] = Touched[<<now, call["loader"].to>>]
      BY <1>0, <1>1 DEF CallInv
    <3>2. call'["loader"].left \cup writing'["loader"] = call["loader"].left \cup writing["loader"]
      BY <1>1, <1>3, <1>4, <1>5
    <3> QED  BY <1>1, <1>5, <3>1, <3>2
  <2> QED  BY <1>0, <1>2, <2>1, <2>2, <2>3, <2>4 DEF CallInv
<1>9. ProgressInv'
  BY <1>0, <1>2, <1>6 DEF ProgressInv
<1>10. LockInv'
  <2>1. \A u \in Sessions \ {s} : t \notin KeepsAllOff(u)
    BY <1>1, NotWaiting
  <2>2. \A u \in Sessions : KeepsAllOff(u)' = KeepsAllOff(u)
    BY <1>2 DEF KeepsAllOff
  <2>3. \A u \in Sessions : Holds(u)' \subseteq Holds(u) \cup (IF u = s THEN {t} ELSE {})
    BY <1>2, <1>4, <2>2 DEF Holds
  <2> SUFFICES ASSUME NEW u \in Sessions, NEW v \in Sessions, u # v, NEW x \in KeepsAllOff(u)', x \in Holds(v)'
               PROVE  FALSE
    BY DEF LockInv
  <2>4. KeepsAllOff(u) \cap Holds(v) = {}
    BY <1>0 DEF LockInv
  <2> QED  BY <2>1, <2>2, <2>3, <2>4
<1>11. RowInv' /\ JoinInv' /\ FilledInv' /\ RaiseInv'
  BY <1>0, <1>2, RowsStay
<1>12. FillerInv'
  <2>1. Built("operator")' = Built("operator")
    BY <1>6 DEF Sessions
  <2> QED  BY <1>0, <1>2, <2>1, FillerStays, BuiltPlaces
<1> QED  BY <1>7, <1>8, <1>9, <1>10, <1>11, <1>12 DEF FillInv

\* A loader commits a document and its rows.
LEMMA CommitRowsStep ==
  ASSUME FillInv, NEW s \in Sessions, CommitRows(s)
  PROVE  FillInv'
<1>0. /\ ShapeInv /\ CallInv /\ ProgressInv /\ LockInv /\ RowInv /\ JoinInv /\ FillerInv /\ FilledInv /\ RaiseInv
  BY DEF FillInv
<1> DEFINE to == call["loader"].to
<1>1. s = "loader" /\ call["loader"] \in LoaderCalls /\ call[s].left = {}
  BY <1>0, SessionKinds DEF CommitRows
<1>2. /\ End(s) /\ now' = to /\ raised' = raised /\ filled' = filled
      /\ graph' = [r \in Relations |-> IF r \in writing[s] THEN Written(r, now, to) ELSE graph[r]]
  BY <1>1 DEF CommitRows
<1>3. /\ DOMAIN call' = Sessions /\ DOMAIN mine' = Sessions /\ DOMAIN reading' = Sessions /\ DOMAIN writing' = Sessions
      /\ step' \in [Sessions -> Nat] /\ emptied' \in [Sessions -> BOOLEAN] /\ calls' \in [Sessions -> 0..MaxCalls]
      /\ CallInv' /\ ProgressInv' /\ LockInv' /\ DOMAIN mine'[s] = {} /\ Built(s)' = {}
      /\ \A u \in Sessions \ {s} : call'[u] = call[u] /\ mine'[u] = mine[u] /\ Built(u)' = Built(u)
  BY <1>0, <1>1, <1>2, EndCall
<1>4. now \in DOMAIN Catalogs /\ to \in DOMAIN Catalogs /\ <<now, to>> \in Revisions
  BY <1>0, <1>1 DEF ShapeInv, CallInv, LoaderCalls
<1>5. writing["loader"] = {t \in DocumentRelations : Rows(t, to, now) # {} \/ Withdrawn(t, now, to) # {}}
  <2>1. Touched[<<now, to>>] = {t \in DocumentRelations : Rows(t, to, now) # {} \/ Withdrawn(t, now, to) # {}}
    BY <1>4 DEF Touched
  <2>2. writing["loader"] = Touched[<<now, to>>]
    BY <1>0, <1>1 DEF CallInv
  <2> QED  BY <2>1, <2>2
<1> HIDE DEF to
<1>6. \A r \in DocumentRelations \ writing["loader"] : \A rows : Applied(r, rows, now, to) = rows
  BY <1>5, AppliedParts
<1>7. /\ DOMAIN graph' = Relations
      /\ \A r \in DocumentRelations : r \in Relations /\ graph'[r] = Applied(r, graph[r], now, to)
      /\ \A r \in Relations \ DocumentRelations : graph'[r] = graph[r]
  <2>1. DocumentRelations \subseteq Relations
    BY Columns DEF DocumentRelations
  <2>2. \A r : Written(r, now, to) = Applied(r, graph[r], now, to)
    BY DEF Written, Applied
  <2>3. writing["loader"] \subseteq DocumentRelations
    BY <1>5
  <2> QED  BY <1>1, <1>2, <1>6, <2>1, <2>2, <2>3
<1>8. ShapeInv'
  BY <1>0, <1>2, <1>3, <1>4, <1>7 DEF ShapeInv
<1>9. RowInv'
  <2>1. ASSUME NEW r \in DocumentRelations
        PROVE  Sound(r, graph'[r])
    <3>1. Unique(r, graph[r]) /\ (r \in Plain => Whole(r, graph[r]))
      BY <1>0, <1>7 DEF RowInv, Sound
    <3>2. Unique(r, Rows(r, to, now))
      <4>1. r \in Relations /\ r # "artist_member_of"
        BY <1>7, Groups DEF DocumentRelations
      <4> QED  BY <1>4, <4>1, OnlyParts, NoDuplicates DEF Rows
    <3>3. r \in Plain => Whole(r, Rows(r, to, now))
      BY PlainBodies DEF Rows
    <3>4. Applied(r, graph[r], now, to) \subseteq graph[r] \cup Rows(r, to, now)
          /\ Unique(r, Applied(r, graph[r], now, to))
      BY <3>1, <3>2, AppliedParts
    <3>5. r \in Plain => Whole(r, Applied(r, graph[r], now, to))
      BY <3>1, <3>3, <3>4 DEF Whole
    <3> QED  BY <1>7, <3>4, <3>5 DEF Sound
  <2>2. \A r \in Relations : Sound(r, graph'[r])
    BY <1>0, <1>7, <2>1 DEF RowInv
  <2>3. \A u \in Sessions : \A x \in DOMAIN mine'[u] : Sound(x, mine'[u][x])
    BY <1>0, <1>3 DEF RowInv
  <2>4. (\A x \in Relations : Sound(x, graph'[x])) /\ (\A u \in Sessions : \A x \in DOMAIN mine'[u] : Sound(x, mine'[u][x]))
        => RowInv'
    BY DEF RowInv, Sound
  <2> QED  BY <2>2, <2>3, <2>4
<1>10. JoinInv'
  <2> SUFFICES ASSUME NEW j \in Joins PROVE Resolve(graph'[j[1]], j[2], graph'[j[3]], j[4])
    BY DEF JoinInv
  <2>1. j[1] \in DocumentRelations /\ j[3] \in DocumentRelations
    BY JoinKeys DEF DocumentRelations
  <2>2. Resolve(graph[j[1]], j[2], graph[j[3]], j[4])
    BY <1>0 DEF JoinInv
  <2> QED  BY <1>4, <1>7, <2>1, <2>2, AppliedJoins
<1>11. FilledInv'
  <2>1. ASSUME filled, NEW r \in DocumentRelations
        PROVE  Exact(r, graph'[r], Catalogs[to])
    BY <1>0, <1>4, <1>7, <2>1, AppliedExact DEF FilledInv, Documents
  <2> QED  BY <1>2, <2>1 DEF FilledInv, Documents
<1>12. FillerInv'
  <2>1. Built("operator")' = Built("operator") /\ mine'["operator"] = mine["operator"]
    BY <1>1, <1>3 DEF Sessions
  <2>2. ASSUME NEW r \in DocumentRelations, r \in Built("operator")
        PROVE  Exact(r, mine["operator"][r], Catalogs[to])
    <3>1. r \in KeepsAllOff("operator") /\ writing["loader"] \subseteq Holds("loader")
      BY <1>0, <2>2 DEF ProgressInv, KeepsAllOff, Holds, Sessions
    <3>2. KeepsAllOff("operator") \cap Holds("loader") = {}
      BY <1>0 DEF LockInv, Sessions
    <3>3. Applied(r, mine["operator"][r], now, to) = mine["operator"][r]
      BY <1>6, <3>1, <3>2
    <3>4. Exact(r, mine["operator"][r], Catalogs[now])
      BY <1>0, <2>2 DEF FillerInv, Documents
    <3> QED  BY <1>4, <3>3, <3>4, AppliedExact
  <2>3. \A r \in DocumentRelations \cap Built("operator")' : Exact(r, mine'["operator"][r], Documents')
    BY <1>2, <2>1, <2>2 DEF Documents
  <2>4. "medium" \in Built("operator")' =>
          Resolve(mine'["operator"]["medium"], "family", mine'["operator"]["media_family"], "name")
    BY <1>0, <2>1 DEF FillerInv
  <2> QED  BY <2>3, <2>4 DEF FillerInv
<1>13. RaiseInv'
  BY <1>0, <1>2 DEF RaiseInv, InsertsNeverConflict
<1> QED  BY <1>3, <1>8, <1>9, <1>10, <1>11, <1>12, <1>13 DEF FillInv

-----------------------------------------------------------------------------
(* The tables to begin with, and every step.                               *)

\* The tables a fill alone would leave are stated by the documents, and sound.
LEMMA Projected ==
  ASSUME NEW c \in DOMAIN Catalogs
  PROVE  /\ DOMAIN Projections[c] = Relations
         /\ \A r \in DocumentRelations : Projections[c][r] = Body(r, Catalogs[c], <<>>)
         /\ \A r \in Relations : Sound(r, Projections[c][r])
<1> DEFINE db == Catalogs[c]
           stated == [r \in Relations |-> IF r \in DocumentRelations THEN Body(r, db, EmptyGraph) ELSE {}]
           edges == [stated EXCEPT !["artist_member_of"] = Body("artist_member_of", db, stated)]
           all == [r \in Relations |-> IF r \in DOMAIN CounterKeys THEN Body(r, db, edges) ELSE edges[r]]
<1>1. Projections[c] = all
  BY DEF Projections, Projection
<1>2. WellFormed(db)
  BY DocumentAssumption
<1>3. /\ DocumentRelations \subseteq Relations /\ "artist_member_of" \in Relations
      /\ DocumentRelations \cap DOMAIN CounterKeys = {}
      /\ "artist_member_of" \notin DocumentRelations \cup DOMAIN CounterKeys
      /\ Relations = DocumentRelations \cup DOMAIN CounterKeys \cup {"artist_member_of"}
      /\ "member_of" \in DocumentRelations /\ "member_of" \in Plain /\ Plain \subseteq DocumentRelations
  BY Columns, Groups DEF DocumentRelations, Plain
<1> HIDE DEF db
<1>4. \A r \in DocumentRelations : stated[r] = Body(r, db, <<>>)
  <2> SUFFICES ASSUME NEW r \in DocumentRelations PROVE stated[r] = Body(r, db, <<>>)
    OBVIOUS
  <2>1. Body(r, db, EmptyGraph) = Body(r, db, <<>>)
    BY SameBody
  <2> QED  BY <1>3, <2>1
<1>5. /\ DOMAIN edges = Relations
      /\ edges["artist_member_of"] = Body("artist_member_of", db, stated)
      /\ \A r \in DocumentRelations : edges[r] = stated[r]
  BY <1>3
<1>6. Whole("member_of", stated.member_of)
  <2>1. Whole("member_of", Body("member_of", db, <<>>))
    BY <1>3, PlainBodies
  <2> QED  BY <1>3, <1>4, <2>1
<1> HIDE DEF stated
<1>7. \A r \in DocumentRelations : all[r] = Body(r, db, <<>>)
  <2> HIDE DEF edges
  <2> QED  BY <1>3, <1>4, <1>5
<1>8. all["artist_member_of"] = Body("artist_member_of", db, stated)
  <2> HIDE DEF edges
  <2> QED  BY <1>3, <1>5
<1> HIDE DEF edges
<1>9. ASSUME NEW r \in Relations
      PROVE  Sound(r, all[r])
  <2>1. CASE r \in DocumentRelations
    <3>1. r # "artist_member_of"
      BY <1>3, <2>1
    <3>2. Unique(r, Body(r, db, <<>>))
      BY <1>2, <3>1, NoDuplicates
    <3>3. r \in Plain => Whole(r, Body(r, db, <<>>))
      BY PlainBodies
    <3> HIDE DEF all
    <3> QED  BY <1>7, <2>1, <3>2, <3>3 DEF Sound
  <2>2. CASE r \in DOMAIN CounterKeys
    <3>1. all[r] = Body(r, db, edges)
      BY <2>2
    <3>2. r # "artist_member_of" /\ r \notin Plain
      BY <1>3, <2>2
    <3>3. Unique(r, Body(r, db, edges))
      BY <1>2, <3>2, NoDuplicates
    <3> HIDE DEF all
    <3> QED  BY <3>1, <3>2, <3>3 DEF Sound
  <2>3. CASE r = "artist_member_of"
    <3>1. Unique(r, Body(r, db, stated))
      BY <1>2, <1>6, <2>3, NoDuplicates
    <3>2. r \notin Plain
      BY <1>3, <2>3
    <3> HIDE DEF all
    <3> QED  BY <1>8, <2>3, <3>1, <3>2 DEF Sound
  <2> QED  BY <1>3, <2>1, <2>2, <2>3
<1>10. DOMAIN all = Relations
  OBVIOUS
<1> HIDE DEF all
<1> QED  BY <1>1, <1>7, <1>9, <1>10 DEF db

\* The tables to begin with are empty, or what an earlier fill left.
LEMMA FillBegins ==
  ASSUME Init
  PROVE  FillInv
<1>1. PICK start \in Starts :
        /\ now = start[1]
        /\ graph = IF start[2] = Null THEN EmptyGraph ELSE Projections[start[2]]
  BY DEF Init
<1>2. start[1] \in DOMAIN Catalogs /\ start[2] \in DOMAIN Catalogs \cup {Null}
  BY <1>1, CatalogAssumption
<1>3. /\ DOMAIN graph = Relations
      /\ \A r \in Relations : Sound(r, graph[r])
      /\ \A j \in Joins : Resolve(graph[j[1]], j[2], graph[j[3]], j[4])
  <2>1. DocumentRelations \subseteq Relations
    BY Columns DEF DocumentRelations
  <2>2. \A j \in Joins : j[1] \in DocumentRelations /\ j[3] \in DocumentRelations
    BY JoinKeys DEF DocumentRelations
  <2>3. CASE start[2] = Null
    <3>1. graph = [r \in Relations |-> {}]
      BY <1>1, <2>3 DEF EmptyGraph
    <3>2. \A r : Sound(r, {})
      BY DEF Sound, Unique, Whole
    <3>4. \A r \in Relations : graph[r] = {}
      BY <3>1
    <3>5. DOMAIN graph = Relations
      BY <3>1
    <3>6. \A r \in Relations : Sound(r, graph[r])
      BY <3>2, <3>4
    <3>7. \A j \in Joins : Resolve(graph[j[1]], j[2], graph[j[3]], j[4])
      <4> SUFFICES ASSUME NEW j \in Joins PROVE Resolve(graph[j[1]], j[2], graph[j[3]], j[4])
        OBVIOUS
      <4>1. graph[j[1]] = {}
        BY <2>1, <2>2, <3>4
      <4> QED  BY <4>1 DEF Resolve
    <3> QED  BY <3>5, <3>6, <3>7
  <2>4. CASE start[2] # Null
    <3>1. start[2] \in DOMAIN Catalogs /\ graph = Projections[start[2]]
      BY <1>1, <1>2, <2>4
    <3>2. /\ DOMAIN graph = Relations
          /\ \A r \in DocumentRelations : graph[r] = Body(r, Catalogs[start[2]], <<>>)
          /\ \A r \in Relations : Sound(r, graph[r])
      BY <3>1, Projected
    <3>3. WellFormed(Catalogs[start[2]])
      BY <3>1, DocumentAssumption
    <3>4. \A j \in Joins : Resolve(graph[j[1]], j[2], graph[j[3]], j[4])
      BY <2>2, <3>2, <3>3, BodyJoins
    <3> QED  BY <3>2, <3>4
  <2> QED  BY <2>3, <2>4
<1>4. /\ call = [s \in Sessions |-> Idle] /\ step = [s \in Sessions |-> 0] /\ emptied = [s \in Sessions |-> FALSE]
      /\ mine = [s \in Sessions |-> <<>>] /\ reading = [s \in Sessions |-> {}] /\ writing = [s \in Sessions |-> {}]
      /\ calls = [s \in Sessions |-> 0] /\ raised = "none" /\ filled = FALSE
  BY DEF Init
<1>5. \A s \in Sessions : /\ call[s] = Idle /\ step[s] = 0 /\ ~emptied[s] /\ mine[s] = <<>>
                          /\ reading[s] = {} /\ writing[s] = {}
  BY <1>4
<1>6. \A s \in Sessions : Program(s) = <<>> /\ Built(s) = {}
  <2>1. \A s \in Sessions : Program(s) = <<>>
    BY <1>5, CallKinds DEF Program
  <2>2. \A s \in Sessions : 1..step[s] = {}
    BY <1>5
  <2> QED  BY <2>1, <2>2 DEF Built
<1>7. ShapeInv
  <2>1. 0 \in 0..MaxCalls
    BY CatalogAssumption
  <2> QED  BY <1>1, <1>2, <1>3, <1>4, <2>1 DEF ShapeInv
<1>8. CallInv
  <2>1. "operator" \in Sessions /\ "refresher" \in Sessions /\ "loader" \in Sessions
    BY DEF Sessions
  <2> QED  BY <1>5, <2>1, CallKinds DEF CallInv, OperatorCalls, RefresherCalls
<1>9. ProgressInv
  <2>1. Len(<<>>) = 0 /\ DOMAIN <<>> = {}
    OBVIOUS
  <2> SUFFICES ASSUME NEW s \in Sessions
               PROVE  /\ step[s] \in 0..Len(Program(s))
                      /\ emptied[s] => step[s] < Len(Program(s)) /\ mine[s][Target(s)] = {}
                      /\ DOMAIN mine[s] = Built(s) \cup (IF emptied[s] THEN {Target(s)} ELSE {})
    BY DEF ProgressInv
  <2>2. step[s] \in 0..Len(Program(s))
    BY <1>5, <1>6, <2>1
  <2>3. DOMAIN mine[s] = {}
    BY <1>5, <2>1
  <2> QED  BY <1>5, <1>6, <2>2, <2>3
<1>10. LockInv
  BY <1>5 DEF LockInv, KeepsAllOff, Holds
<1>11. RowInv
  BY <1>3, <1>5 DEF RowInv
<1>12. JoinInv /\ FilledInv /\ RaiseInv
  <2>1. raised # "duplicate" /\ raised # "year"
    BY <1>4
  <2> QED  BY <1>3, <1>4, <2>1 DEF JoinInv, FilledInv, RaiseInv, InsertsNeverConflict
<1>13. FillerInv
  BY <1>6 DEF FillerInv, Sessions
<1> QED  BY <1>7, <1>8, <1>9, <1>10, <1>11, <1>12, <1>13 DEF FillInv

\* A statement of a fill or a refresh runs, or raises.
LEMMA StatementStep ==
  ASSUME FillInv, NEW s \in Sessions, Statement(s)
  PROVE  FillInv'
<1>1. step[s] < Len(Program(s)) /\ ~Waits(s)
  BY DEF Statement
<1>2. CASE ~emptied[s]
  BY <1>1, <1>2, TruncateStep DEF Statement
<1>3. CASE emptied[s]
  <2> DEFINE r == Target(s)
             rows == Body(r, Documents, View(s))
             why == IF Duplicates(r, Documents, rows) THEN "duplicate"
                    ELSE IF Overflows(r, Documents, View(s)) THEN "year" ELSE "none"
  <2>1. Insert(s)
    BY <1>3 DEF Statement
  <2>2. ~Duplicates(r, Documents, rows)
    BY <1>1, Raises
  <2>3. CASE Overflows(r, Documents, View(s))
    <3>1. Rollback(s) /\ raised' = "year"
      BY <2>1, <2>2, <2>3 DEF Insert
    <3> QED  BY <1>1, <2>3, <3>1, Raises, RollbackStep
  <2>4. CASE ~Overflows(r, Documents, View(s))
    <3>1. /\ Rewrite(s, mine[s][r] \cup rows)
          /\ step' = [step EXCEPT ![s] = @ + 1] /\ emptied' = [emptied EXCEPT ![s] = FALSE]
          /\ reading' = [reading EXCEPT ![s] = @ \cup Sources(r)]
          /\ UNCHANGED <<now, graph, call, writing, calls, raised, filled>>
      BY <2>1, <2>2, <2>4 DEF Insert
    <3> QED  BY <1>1, <1>3, <3>1, InsertStep
  <2> QED  BY <2>3, <2>4
<1> QED  BY <1>2, <1>3

\* Every step keeps the invariant.
LEMMA FillSteps ==
  ASSUME FillInv, [Next]_vars
  PROVE  FillInv'
<1>1. CASE Fill \/ Refresh \/ Revise
  BY <1>1, BeginStep
<1>2. CASE \E s \in Sessions : Statement(s) \/ Commit(s) \/ WriteRows(s) \/ CommitRows(s) \/ Fail(s)
  <2> SUFFICES ASSUME NEW s \in Sessions, Statement(s) \/ Commit(s) \/ WriteRows(s) \/ CommitRows(s) \/ Fail(s)
               PROVE  FillInv'
    BY <1>2
  <2>1. CASE Statement(s)
    BY <2>1, StatementStep
  <2>2. CASE Commit(s)
    BY <2>2, CommitStep
  <2>3. CASE WriteRows(s)
    BY <2>3, WriteStep
  <2>4. CASE CommitRows(s)
    BY <2>4, CommitRowsStep
  <2>5. CASE Fail(s)
    BY <2>5, RollbackStep DEF Fail
  <2> QED  BY <2>1, <2>2, <2>3, <2>4, <2>5
<1>3. CASE UNCHANGED vars
  <2>1. UNCHANGED <<now, graph, call, step, emptied, mine, reading, writing, calls, raised, filled>>
    BY <1>3 DEF vars
  <2>2. ShapeInv' /\ CallInv'
    BY <2>1 DEF FillInv, ShapeInv, CallInv
  <2>3. ProgressInv'
    <3>1. \A s \in Sessions : Program(s)' = Program(s) /\ Target(s)' = Target(s) /\ Built(s)' = Built(s)
      BY <2>1, SameSession
    <3> QED  BY <2>1, <3>1 DEF FillInv, ProgressInv
  <2>a. LockInv'
    BY <2>1 DEF FillInv, LockInv, KeepsAllOff, Holds
  <2>4. RowInv' /\ JoinInv' /\ FilledInv' /\ RaiseInv'
    BY <2>1 DEF FillInv, RowInv, JoinInv, FilledInv, RaiseInv, InsertsNeverConflict, Documents, Sound
  <2>5. FillerInv'
    BY <2>1 DEF FillInv, FillerInv, Documents, Program, Built
  <2> QED  BY <2>2, <2>3, <2>a, <2>4, <2>5 DEF FillInv
<1> QED  BY <1>1, <1>2, <1>3 DEF Next

\* The invariant holds of every behaviour.
LEMMA FillInvariant == Spec => []FillInv
<1>1. Init => FillInv
  BY FillBegins
<1>2. FillInv /\ [Next]_vars => FillInv'
  BY FillSteps
<1> QED  BY <1>1, <1>2, PTL DEF Spec

-----------------------------------------------------------------------------
(* What the invariant says.                                                *)

\* The invariant gives the types.
LEMMA TypesHold ==
  ASSUME FillInv
  PROVE  TypeOK
<1>0. ShapeInv /\ CallInv /\ ProgressInv /\ LockInv /\ RowInv /\ RaiseInv
  BY DEF FillInv
<1>1. now \in DOMAIN Catalogs /\ raised \in {"none", "duplicate", "year"}
  BY <1>0 DEF ShapeInv, RaiseInv
<1>2. \A s \in Sessions : step[s] \in 0..Len(Program(s)) /\ calls[s] \in 0..MaxCalls
  BY <1>0 DEF ShapeInv, ProgressInv
<1>3. \A r \in Relations : Unique(r, graph[r])
  BY <1>0 DEF RowInv, Sound
<1>4. \A s \in Sessions : \A r \in DOMAIN mine[s] : Unique(r, mine[s][r])
  BY <1>0 DEF RowInv, Sound
<1>5. \A s \in Sessions : \A t \in Sessions \ {s} : \A r \in DOMAIN mine[s] : r \notin Holds(t)
  BY <1>0 DEF LockInv, KeepsAllOff
<1> QED  BY <1>1, <1>2, <1>3, <1>4, <1>5 DEF TypeOK

\* The invariant gives the projection.
LEMMA ProjectionHolds ==
  ASSUME FillInv
  PROVE  GraphIsProjection
<1> SUFFICES ASSUME filled
             PROVE  /\ \A r \in EdgeTables : KeysOf(r, graph[r]) = KeysOf(r, Projections[now][r])
                    /\ \A r \in DOMAIN VertexKeys : KeysOf(r, Projections[now][r]) \subseteq KeysOf(r, graph[r])
  BY DEF GraphIsProjection, EdgeTables
<1>1. now \in DOMAIN Catalogs
  BY DEF FillInv, ShapeInv
<1>2. \A r \in DocumentRelations : KeysOf(r, Projections[now][r]) = Stated(r, Documents)
  BY <1>1, Projected DEF Stated, Documents
<1>3. \A r \in DocumentRelations : Exact(r, graph[r], Documents)
  BY DEF FillInv, FilledInv
<1>4. EdgeTables \subseteq DocumentRelations /\ DOMAIN VertexKeys \subseteq DocumentRelations
  BY DEF EdgeTables, DocumentRelations
<1> QED  BY <1>2, <1>3, <1>4 DEF Exact

\* The genres of the release view are the tags of the document.
LEMMA ReleaseGenres ==
  ASSUME NEW db, NEW r \in Releases(db)
  PROVE  /\ r.release_id \in DOMAIN db.releases
         /\ {r.genres[i] : i \in DOMAIN r.genres} \ {Null, ""} = Tags(Get(db.releases[r.release_id], "genres"))
<1>1. PICK id \in DOMAIN db.releases : r.release_id = id /\ r.genres = TextArray(Get(db.releases[id], "genres"))
  BY DEF Releases
<1>2. {r.genres[i] : i \in DOMAIN r.genres} = Range(r.genres)
  BY DEF Range
<1> QED  BY <1>1, <1>2 DEF Tags

\* The genres a release has edges to, when the edges are those stated, are the tags of its document.
LEMMA GenreRows ==
  ASSUME NEW db, NEW rows, NEW id \in DOMAIN db.releases,
         KeysOf("in_genre", rows) = Stated("in_genre", db)
  PROVE  {e.genre_name : e \in {x \in rows : x.release_id = id}} = Tags(Get(db.releases[id], "genres"))
<1> DEFINE body == TagEdges(db.releases, "release_id", "genres", "genre_name")
<1>1. Body("in_genre", db, <<>>) = body
  BY Bodies
<1>2. ASSUME NEW e \in rows, e.release_id = id
      PROVE  e.genre_name \in Tags(Get(db.releases[id], "genres"))
  <2>1. Key("in_genre", e) \in Stated("in_genre", db)
    BY DEF KeysOf
  <2>2. PICK f \in body : Key("in_genre", e) = Key("in_genre", f)
    BY <1>1, <2>1, StatedRow
  <2>3. PICK i \in DOMAIN db.releases : \E t \in Tags(Get(db.releases[i], "genres")) : f = Ends("release_id", i, "genre_name", t)
    BY TagRows
  <2>4. PICK t \in Tags(Get(db.releases[i], "genres")) : f = Ends("release_id", i, "genre_name", t)
    BY <2>3
  <2>5. f["release_id"] = i /\ f["genre_name"] = t
    BY <2>4, EndsRow
  <2>6. e["release_id"] = f["release_id"] /\ e["genre_name"] = f["genre_name"]
    BY <2>2, SameKey, Keys
  <2> QED  BY <1>2, <2>4, <2>5, <2>6
<1>3. ASSUME NEW t \in Tags(Get(db.releases[id], "genres"))
      PROVE  \E e \in rows : e.release_id = id /\ e.genre_name = t
  <2> DEFINE f == Ends("release_id", id, "genre_name", t)
  <2>1. f \in body
    BY DEF TagEdges
  <2>2. f["release_id"] = id /\ f["genre_name"] = t
    BY EndsRow
  <2> HIDE DEF f
  <2>3. Key("in_genre", f) \in KeysOf("in_genre", rows)
    BY <1>1, <2>1, StatedRow
  <2>4. PICK e \in rows : Key("in_genre", f) = Key("in_genre", e)
    BY <2>3 DEF KeysOf
  <2>5. e["release_id"] = f["release_id"] /\ e["genre_name"] = f["genre_name"]
    BY <2>4, SameKey, Keys
  <2> QED  BY <2>2, <2>5
<1> QED  BY <1>2, <1>3

\* The invariant gives the joins, of the tables and of the views over them.
LEMMA EdgesHold ==
  ASSUME FillInv
  PROVE  EdgesResolve
<1>1. \A j \in Joins : Resolve(graph[j[1]], j[2], graph[j[3]], j[4])
  BY DEF FillInv, JoinInv
<1>2. \A e, f, c, v, k : Resolve(e, c, v, k) /\ Resolve(f, c, v, k) => Resolve(e \cup f, c, v, k)
  BY DEF Resolve
<1>3. /\ Resolve(graph.in_genre, "genre_name", graph.genre, "name")
      /\ Resolve(graph.master_in_genre, "genre_name", graph.genre, "name")
      /\ Resolve(graph.in_style, "style_name", graph.style, "name")
      /\ Resolve(graph.master_in_style, "style_name", graph.style, "name")
  BY <1>1 DEF Joins
<1>4. /\ Resolve(graph.credited_on, "person_name", graph.person, "name")
      /\ Resolve(graph.same_as, "person_name", graph.person, "name")
      /\ Resolve(graph.track_credited_on, "person_name", graph.person, "name")
  BY <1>1 DEF Joins
<1>5. /\ Resolve(graph.credited_to, "company_id", graph.company, "company_id")
      /\ Resolve(graph.issued_on, "medium_id", graph.medium, "medium_id")
      /\ Resolve(graph.medium, "family", graph.media_family, "name")
  BY <1>1 DEF Joins
<1>6. Resolve(graph.medium, "medium_id", InFamily(graph), "medium_id")
  <2>1. "media_family" \in Relations /\ "media_family" \in Plain
    BY Columns, Groups DEF Plain
  <2>2. Whole("media_family", graph["media_family"])
    BY <2>1 DEF FillInv, RowInv, Sound
  <2> SUFFICES ASSUME NEW m \in graph.medium
               PROVE  \E v \in InFamily(graph) : v["medium_id"] = m["medium_id"]
    BY DEF Resolve
  <2>3. PICK v \in graph.media_family : v["name"] = m["family"]
    BY <1>5 DEF Resolve
  <2>4. v = Key("media_family", v)
    BY <2>2, <2>3 DEF Whole
  <2>5. v = [name |-> m.family]
    <3>1. KeyColumns["media_family"] = {"name"}
      BY Keys
    <3>2. v = Restrict(v, {"name"})
      BY <2>4, <3>1 DEF Key
    <3>3. v = [c \in {"name"} |-> v[c]]
      BY <3>2 DEF Restrict
    <3> QED  BY <2>3, <3>3
  <2>6. [medium_id |-> m.medium_id, family_name |-> m.family] \in InFamily(graph)
    BY <2>3, <2>5 DEF InFamily
  <2> QED  BY <2>6
<1>7. ASSUME NEW r \in Releases(Documents), filled
      PROVE  {e.genre_name : e \in {x \in graph.in_genre : x.release_id = r.release_id}}
               = {r.genres[i] : i \in DOMAIN r.genres} \ {Null, ""}
  <2>1. "in_genre" \in EdgeTables /\ "in_genre" \in DocumentRelations
    BY Groups DEF EdgeTables, DocumentRelations
  <2>2. KeysOf("in_genre", graph["in_genre"]) = Stated("in_genre", Documents)
    BY <1>7, <2>1 DEF FillInv, FilledInv, Exact
  <2>3. r.release_id \in DOMAIN Documents.releases
    BY ReleaseGenres
  <2>4. {e.genre_name : e \in {x \in graph.in_genre : x.release_id = r.release_id}}
          = Tags(Get(Documents.releases[r.release_id], "genres"))
    BY <2>2, <2>3, GenreRows
  <2> QED  BY <2>4, ReleaseGenres
<1> QED  BY <1>2, <1>3, <1>4, <1>5, <1>6, <1>7 DEF EdgesResolve

-----------------------------------------------------------------------------
(* The theorems.                                                           *)

\* No table, committed or in a call's own hands, holds a key twice, and what a call has rewritten no
\* other session holds, whatever the documents and however fills, refreshes and loaders interleave
\* (TypeOK).
THEOREM FillTyped == Spec => []TypeOK
<1>1. FillInv => TypeOK
  BY TypesHold
<1> QED  BY <1>1, FillInvariant, PTL

\* No INSERT of a fill or a refresh ever finds a key twice; one that raises does so on a year that is
\* no integer and that a document has (InsertsNeverConflict).
THEOREM NeverConflicts == Spec => []InsertsNeverConflict
<1>1. FillInv => InsertsNeverConflict
  BY DEF FillInv, RaiseInv
<1> QED  BY <1>1, FillInvariant, PTL

\* An edge never names a vertex that is not there, in any committed state (EdgesResolve).
THEOREM AlwaysResolve == Spec => []EdgesResolve
<1>1. FillInv => EdgesResolve
  BY EdgesHold
<1> QED  BY <1>1, FillInvariant, PTL

\* Once a fill has committed, the edge tables hold what the committed documents state and the vertex
\* tables no less, whatever loaders committed while it ran and since (GraphIsProjection).
THEOREM AlwaysProjection == Spec => []GraphIsProjection
<1>1. FillInv => GraphIsProjection
  BY ProjectionHolds
<1> QED  BY <1>1, FillInvariant, PTL

-----------------------------------------------------------------------------
(* The migrations: what every statement keeps of a relation.               *)

\* Where in the statement list of a class a statement may stand, as far as the proofs need it.
LEMMA Places ==
  ASSUME class \in Classes, NEW s, Running(s)
  PROVE  /\ at \in Nat /\ at >= 1 /\ at <= Len(StatementList[class])
         /\ s \in {"free_text_key", "two_hash_key"} => class \in FreeText
         /\ s \in {"retire_five", "retire_natural", "retire_source"} => class = "relationships"
         /\ s = "key_retype" => class = "artist"
         /\ s = "view_to_table" => class \notin {"relationships", "artist"}
         /\ s = "view" => class = "artist"
         /\ s = "table" => class # "artist"
         /\ class \in FreeText => (at = 6 <=> s = "key_index")
         /\ s = "key_index" => class \in FreeText \cup {"relationships"}
<1>1. CASE class = "genre"  BY <1>1 DEF Running, StatementList, FreeText
<1>2. CASE class = "by_artist"  BY <1>2 DEF Running, StatementList, FreeText
<1>3. CASE class = "person"  BY <1>3 DEF Running, StatementList, FreeText
<1>4. CASE class = "credited_on"  BY <1>4 DEF Running, StatementList, FreeText
<1>5. CASE class = "artist"  BY <1>5 DEF Running, StatementList, FreeText
<1>6. CASE class = "relationships"  BY <1>6 DEF Running, StatementList, FreeText
<1>7. CASE class = "mb_artists"  BY <1>7 DEF Running, StatementList, FreeText
<1>8. CASE class = "artists"  BY <1>8 DEF Running, StatementList, FreeText
<1> QED  BY <1>1, <1>2, <1>3, <1>4, <1>5, <1>6, <1>7, <1>8 DEF Classes

(* ---- the inductive invariant ---- *)
\* A relation that is well-typed, has keys only as a table, and as a table of a class whose
\* primary key stays has that key.
Healthy(r) ==
  /\ r \in Relation
  /\ r.constraints # {} \/ r.key # "none" => r.is = "table"
  /\ r.key = "invalid" => class = "relationships"
  /\ r.is = "table" /\ class \notin FreeText \cup {"relationships"} => Keyed(r)

\* A free-text relation is keyed once it serves, and once a run has passed its key index
\* without a failure.
KeyInv ==
  /\ UpgradeTypeOK /\ Healthy(rel) /\ copies <= 1
  /\ class \in FreeText /\ (serving \/ (at > 6 /\ ~failed)) => Keyed(rel)

\* A database to start from is healthy.
LEMMA UpgradeBegins ==
  ASSUME InitUpgrade
  PROVE  KeyInv
<1>1. PICK s \in Vintages : class = s.class /\ rel = s.rel /\ copies = s.copies /\ serving = s.serving
  BY DEF InitUpgrade
<1>2. /\ class \in Classes /\ rel \in Relation /\ copies \in {0, 1} /\ serving \in BOOLEAN
  BY <1>1, StartAssumption DEF Start
<1>3. Healthy(rel)
  BY <1>1, <1>2, StartAssumption DEF Healthy, Relation
<1>4. class \in FreeText /\ serving => Keyed(rel)
  BY <1>1, StartAssumption
<1>5. Len(StatementList[class]) \in Nat
  BY <1>2 DEF Classes, StatementList
<1>6. at = 0 /\ failed = FALSE /\ settled = "no" /\ calm = FALSE
  BY DEF InitUpgrade
<1>7. at \in 0..(Len(StatementList[class]) + 1)
  BY <1>5, <1>6
<1>8. copies \in 0..2 /\ copies <= 1
  BY <1>2
<1>9. UpgradeTypeOK
  <2>1. failed \in BOOLEAN /\ serving \in BOOLEAN /\ calm \in BOOLEAN /\ settled \in {"no", "trying", "yes"}
    BY <1>2, <1>6
  <2>2. rel \in Relation /\ (rel.constraints # {} \/ rel.key # "none" => rel.is = "table")
    BY <1>3 DEF Healthy
  <2> QED  BY <1>2, <1>7, <1>8, <2>1, <2>2 DEF UpgradeTypeOK
<1> QED
  BY <1>2, <1>3, <1>4, <1>6, <1>8, <1>9 DEF KeyInv

(* ---- the statements ---- *)
\* A statement moves the run on and leaves alone what only loaders and runs change.
Step(s) ==
  /\ Running(s) /\ at' = at + 1
  /\ failed' \in BOOLEAN /\ (failed => failed')
  /\ UNCHANGED <<class, copies, serving, settled, calm>>

\* What it has to do to the relation to keep the invariant.
LEMMA Kept ==
  ASSUME KeyInv, NEW s, Step(s), Healthy(rel'),
         class \in FreeText /\ Keyed(rel) => Keyed(rel'),
         class \in FreeText /\ s = "key_index" /\ ~failed' => Keyed(rel')
  PROVE  KeyInv'
<1>1. /\ class' = class /\ copies' = copies /\ serving' = serving /\ settled' = settled /\ calm' = calm
      /\ at' = at + 1 /\ failed' \in BOOLEAN /\ (failed => failed') /\ Running(s)
  BY DEF Step
<1>2. UpgradeTypeOK /\ class \in Classes /\ at \in Nat /\ copies <= 1
  BY DEF KeyInv, UpgradeTypeOK
<1>3. at <= Len(StatementList[class]) /\ Len(StatementList[class]) \in Nat /\ (class \in FreeText /\ at = 6 => s = "key_index")
  BY <1>1, <1>2, Places DEF Classes, StatementList
<1>4. Healthy(rel)'
  BY <1>1 DEF Healthy
<1>5. at' \in 0..(Len(StatementList[class]) + 1)
  BY <1>1, <1>2, <1>3
<1>6. UpgradeTypeOK'
  BY <1>1, <1>2, <1>5 DEF UpgradeTypeOK, Healthy
<1>7. ASSUME class \in FreeText, serving \/ (at' > 6 /\ ~failed') PROVE Keyed(rel')
  <2>1. CASE serving  BY <2>1, <1>7 DEF KeyInv
  <2>2. CASE at' > 6 /\ ~failed'
    <3>1. at > 6 \/ at = 6
      BY <2>2, <1>1, <1>2
    <3> QED  BY <3>1, <2>2, <1>1, <1>3, <1>7 DEF KeyInv
  <2> QED  BY <2>1, <2>2, <1>7
<1> QED
  BY <1>1, <1>2, <1>4, <1>6, <1>7 DEF KeyInv, Keyed

\* No statement takes the key of a table that serves.
LEMMA StatementKeeps == KeyInv /\ RunStatement => KeyInv'
<1> SUFFICES ASSUME KeyInv, RunStatement PROVE KeyInv'
  OBVIOUS
<1> USE DEF FreeText
<1>0. /\ Healthy(rel) /\ rel \in Relation /\ class \in Classes /\ failed \in BOOLEAN
      /\ (class \in FreeText /\ at > 6 /\ ~failed => Keyed(rel))
  BY DEF KeyInv, Healthy, UpgradeTypeOK
<1>1. CASE CreateExtension
  <2>1. Step("extension") /\ Healthy(rel')
    BY <1>1, <1>0 DEF CreateExtension, Do, Step, Healthy, Relation, Indexes, Keyed
  <2>2. /\ class \in FreeText /\ Keyed(rel) => Keyed(rel')
        /\ class \in FreeText /\ "extension" = "key_index" /\ ~failed' => Keyed(rel')
    BY <1>1, <1>0 DEF CreateExtension, Do, Relation, Keyed, Healthy
  <2> QED  BY <2>1, <2>2, Kept
<1>2. CASE CreateFunction
  <2>1. Step("function") /\ Healthy(rel')
    BY <1>2, <1>0 DEF CreateFunction, Do, Step, Healthy, Relation, Indexes, Keyed
  <2>2. /\ class \in FreeText /\ Keyed(rel) => Keyed(rel')
        /\ class \in FreeText /\ "function" = "key_index" /\ ~failed' => Keyed(rel')
    BY <1>2, <1>0 DEF CreateFunction, Do, Relation, Keyed, Healthy
  <2> QED  BY <2>1, <2>2, Kept
<1>3. CASE ViewToTable
  <2>1. Step("view_to_table") /\ Healthy(rel')
    BY <1>3, <1>0, Places DEF ViewToTable, Do, Step, Healthy, Relation, Indexes, Keyed
  <2>2. /\ class \in FreeText /\ Keyed(rel) => Keyed(rel')
        /\ class \in FreeText /\ "view_to_table" = "key_index" /\ ~failed' => Keyed(rel')
    BY <1>3, <1>0, Places DEF ViewToTable, Do, Relation, Keyed, Healthy
  <2> QED  BY <2>1, <2>2, Kept
<1>4. CASE KeyRetype
  <2>1. Step("key_retype") /\ Healthy(rel')
    BY <1>4, <1>0, Places DEF KeyRetype, Do, Step, Healthy, Relation, Indexes, Keyed
  <2>2. /\ class \in FreeText /\ Keyed(rel) => Keyed(rel')
        /\ class \in FreeText /\ "key_retype" = "key_index" /\ ~failed' => Keyed(rel')
    BY <1>4, <1>0, Places DEF KeyRetype, Do, Relation, Keyed, Healthy
  <2> QED  BY <2>1, <2>2, Kept
<1>5. CASE FreeTextKey
  <2>0. class \in FreeText /\ Step("free_text_key")
    BY <1>5, <1>0, Places DEF FreeTextKey, Do, Step
  <2>1. Step("free_text_key") /\ Healthy(rel')
    <3>1. CASE rel' = rel
      BY <3>1, <2>0, <1>0
    <3>2. CASE rel' # rel
      <4>1. "primary" \in rel.constraints /\ rel.is = "table" /\ rel.function \in BOOLEAN
        BY <3>2, <1>5, <1>0 DEF FreeTextKey, Do, Healthy, Relation
      <4>2. rel' = [Without(rel, Stale) EXCEPT !.key = IF rel.key = "none" THEN "hash" ELSE rel.key,
                                 !.indexes = (rel.indexes \ Stale) \cup Lookup,
                                 !.constraints = rel.constraints \ {"primary"}]
        BY <3>2, <4>1, <1>5, <1>0 DEF FreeTextKey, Do, Without, Relation
      <4>3. /\ (rel.indexes \ Stale) \cup Lookup \in SUBSET Indexes
            /\ rel.constraints \ {"primary"} \in SUBSET {"primary", "five", "natural"}
            /\ (IF rel.key = "none" THEN "hash" ELSE rel.key) \in {"hash", "two_hash", "invalid"}
        BY <1>0 DEF Relation, Indexes, Lookup
      <4>4. rel' \in Relation /\ rel'.is = "table" /\ (rel'.key = "invalid" => rel.key = "invalid")
        BY <4>1, <4>2, <4>3, <1>0 DEF Without, Relation
      <4> QED  BY <4>4, <2>0, <1>0 DEF Healthy
    <3> QED  BY <3>1, <3>2
  <2>2. /\ class \in FreeText /\ Keyed(rel) => Keyed(rel')
        /\ class \in FreeText /\ "free_text_key" = "key_index" /\ ~failed' => Keyed(rel')
    BY <1>5, <1>0, Places DEF FreeTextKey, Do, Relation, Keyed, Healthy, Without, Stale, Lookup
  <2> QED  BY <2>1, <2>2, Kept
<1>6. CASE TwoHashKey
  <2>1. Step("two_hash_key") /\ Healthy(rel')
    BY <1>6, <1>0, Places DEF TwoHashKey, Do, Step, Healthy, Relation, Indexes, Keyed, Without
  <2>2. /\ class \in FreeText /\ Keyed(rel) => Keyed(rel')
        /\ class \in FreeText /\ "two_hash_key" = "key_index" /\ ~failed' => Keyed(rel')
    BY <1>6, <1>0, Places DEF TwoHashKey, Do, Relation, Keyed, Healthy, Without
  <2> QED  BY <2>1, <2>2, Kept
<1>7. CASE CreateTable
  <2>1. Step("table") /\ Healthy(rel')
    BY <1>7, <1>0, Places DEF CreateTable, Do, Step, Healthy, Relation, Indexes, Keyed
  <2>2. /\ class \in FreeText /\ Keyed(rel) => Keyed(rel')
        /\ class \in FreeText /\ "table" = "key_index" /\ ~failed' => Keyed(rel')
    BY <1>7, <1>0, Places DEF CreateTable, Do, Relation, Keyed, Healthy
  <2> QED  BY <2>1, <2>2, Kept
<1>8. CASE KeyIndex
  <2>1. Step("key_index") /\ Healthy(rel')
    BY <1>8, <1>0, Places DEF KeyIndex, Do, Step, Healthy, Relation, Indexes, Keyed, NoTable
  <2>2. /\ class \in FreeText /\ Keyed(rel) => Keyed(rel')
        /\ class \in FreeText /\ "key_index" = "key_index" /\ ~failed' => Keyed(rel')
    BY <1>8, <1>0, Places DEF KeyIndex, Do, Relation, Keyed, Healthy, NoTable
  <2> QED  BY <2>1, <2>2, Kept
<1>9. CASE LookupIndex
  <2>1. Step("lookup") /\ Healthy(rel')
    BY <1>9, <1>0 DEF LookupIndex, Do, Step, Healthy, Relation, Indexes, Keyed, With, NoTable
  <2>2. /\ class \in FreeText /\ Keyed(rel) => Keyed(rel')
        /\ class \in FreeText /\ "lookup" = "key_index" /\ ~failed' => Keyed(rel')
    BY <1>9, <1>0 DEF LookupIndex, Do, Relation, Keyed, Healthy, With, NoTable
  <2> QED  BY <2>1, <2>2, Kept
<1>10. CASE ReverseIndex
  <2>1. Step("reverse") /\ Healthy(rel')
    BY <1>10, <1>0 DEF ReverseIndex, Do, Step, Healthy, Relation, Indexes, Keyed, With, NoTable
  <2>2. /\ class \in FreeText /\ Keyed(rel) => Keyed(rel')
        /\ class \in FreeText /\ "reverse" = "key_index" /\ ~failed' => Keyed(rel')
    BY <1>10, <1>0 DEF ReverseIndex, Do, Relation, Keyed, Healthy, With, NoTable
  <2> QED  BY <2>1, <2>2, Kept
<1>11. CASE RoleIndex
  <2>1. Step("role") /\ Healthy(rel')
    BY <1>11, <1>0 DEF RoleIndex, Do, Step, Healthy, Relation, Indexes, Keyed, With, NoTable
  <2>2. /\ class \in FreeText /\ Keyed(rel) => Keyed(rel')
        /\ class \in FreeText /\ "role" = "key_index" /\ ~failed' => Keyed(rel')
    BY <1>11, <1>0 DEF RoleIndex, Do, Relation, Keyed, Healthy, With, NoTable
  <2> QED  BY <2>1, <2>2, Kept
<1>12. CASE TrigramIndex
  <2>1. Step("trigram") /\ Healthy(rel')
    BY <1>12, <1>0 DEF TrigramIndex, Do, Step, Healthy, Relation, Indexes, Keyed, With, NoTable
  <2>2. /\ class \in FreeText /\ Keyed(rel) => Keyed(rel')
        /\ class \in FreeText /\ "trigram" = "key_index" /\ ~failed' => Keyed(rel')
    BY <1>12, <1>0 DEF TrigramIndex, Do, Relation, Keyed, Healthy, With, NoTable
  <2> QED  BY <2>1, <2>2, Kept
<1>13. CASE CreateView
  <2>1. Step("view") /\ Healthy(rel')
    BY <1>13, <1>0, Places DEF CreateView, Do, Step, Healthy, Relation, Indexes, Keyed
  <2>2. /\ class \in FreeText /\ Keyed(rel) => Keyed(rel')
        /\ class \in FreeText /\ "view" = "key_index" /\ ~failed' => Keyed(rel')
    BY <1>13, <1>0, Places DEF CreateView, Do, Relation, Keyed, Healthy
  <2> QED  BY <2>1, <2>2, Kept
<1>14. CASE CreateViewOver
  <2>1. Step("view_over") /\ Healthy(rel')
    BY <1>14, <1>0 DEF CreateViewOver, Do, Step, Healthy, Relation, Indexes, Keyed
  <2>2. /\ class \in FreeText /\ Keyed(rel) => Keyed(rel')
        /\ class \in FreeText /\ "view_over" = "key_index" /\ ~failed' => Keyed(rel')
    BY <1>14, <1>0 DEF CreateViewOver, Do, Relation, Keyed, Healthy
  <2> QED  BY <2>1, <2>2, Kept
<1>15. CASE Widen
  <2>1. Step("widen") /\ Healthy(rel')
    BY <1>15, <1>0 DEF Widen, Do, Step, Healthy, Relation, Indexes, Keyed
  <2>2. /\ class \in FreeText /\ Keyed(rel) => Keyed(rel')
        /\ class \in FreeText /\ "widen" = "key_index" /\ ~failed' => Keyed(rel')
    BY <1>15, <1>0 DEF Widen, Do, Relation, Keyed, Healthy
  <2> QED  BY <2>1, <2>2, Kept
<1>16. CASE RetireFiveColumnKey
  <2>1. Step("retire_five") /\ Healthy(rel')
    BY <1>16, <1>0, Places DEF RetireFiveColumnKey, Do, Step, Healthy, Relation, Indexes, Keyed
  <2>2. /\ class \in FreeText /\ Keyed(rel) => Keyed(rel')
        /\ class \in FreeText /\ "retire_five" = "key_index" /\ ~failed' => Keyed(rel')
    BY <1>16, <1>0, Places DEF RetireFiveColumnKey, Do, Relation, Keyed, Healthy
  <2> QED  BY <2>1, <2>2, Kept
<1>17. CASE RetireNaturalKey
  <2>1. Step("retire_natural") /\ Healthy(rel')
    BY <1>17, <1>0, Places DEF RetireNaturalKey, Do, Step, Healthy, Relation, Indexes, Keyed, NoTable
  <2>2. /\ class \in FreeText /\ Keyed(rel) => Keyed(rel')
        /\ class \in FreeText /\ "retire_natural" = "key_index" /\ ~failed' => Keyed(rel')
    BY <1>17, <1>0, Places DEF RetireNaturalKey, Do, Relation, Keyed, Healthy, NoTable
  <2> QED  BY <2>1, <2>2, Kept
<1>18. CASE RetireSourceIndex
  <2>1. Step("retire_source") /\ Healthy(rel')
    BY <1>18, <1>0, Places DEF RetireSourceIndex, Do, Step, Healthy, Relation, Indexes, Keyed, Without
  <2>2. /\ class \in FreeText /\ Keyed(rel) => Keyed(rel')
        /\ class \in FreeText /\ "retire_source" = "key_index" /\ ~failed' => Keyed(rel')
    BY <1>18, <1>0, Places DEF RetireSourceIndex, Do, Relation, Keyed, Healthy, Without
  <2> QED  BY <2>1, <2>2, Kept
<1>19. CASE RetireBtreeIndex
  <2>1. Step("retire_btree") /\ Healthy(rel')
    BY <1>19, <1>0 DEF RetireBtreeIndex, Do, Step, Healthy, Relation, Indexes, Keyed, Without
  <2>2. /\ class \in FreeText /\ Keyed(rel) => Keyed(rel')
        /\ class \in FreeText /\ "retire_btree" = "key_index" /\ ~failed' => Keyed(rel')
    BY <1>19, <1>0 DEF RetireBtreeIndex, Do, Relation, Keyed, Healthy, Without
  <2> QED  BY <2>1, <2>2, Kept
<1>20. CASE HashIndex
  <2>1. Step("hash_index") /\ Healthy(rel')
    BY <1>20, <1>0 DEF HashIndex, Do, Step, Healthy, Relation, Indexes, Keyed, With, NoTable
  <2>2. /\ class \in FreeText /\ Keyed(rel) => Keyed(rel')
        /\ class \in FreeText /\ "hash_index" = "key_index" /\ ~failed' => Keyed(rel')
    BY <1>20, <1>0 DEF HashIndex, Do, Relation, Keyed, Healthy, With, NoTable
  <2> QED  BY <2>1, <2>2, Kept
<1> QED
  BY <1>1, <1>2, <1>3, <1>4, <1>5, <1>6, <1>7, <1>8, <1>9, <1>10, <1>11, <1>12, <1>13, <1>14, <1>15, <1>16, <1>17, <1>18, <1>19, <1>20 DEF RunStatement

(* ---- every step ---- *)
\* Nor does any other step.
LEMMA NextKeeps == KeyInv /\ [NextUpgrade]_upgradeVars => KeyInv'
<1> SUFFICES ASSUME KeyInv, [NextUpgrade]_upgradeVars PROVE KeyInv'
  OBVIOUS
<1>0. /\ UpgradeTypeOK /\ Healthy(rel) /\ copies <= 1 /\ class \in Classes /\ at \in Nat /\ Len(StatementList[class]) \in Nat
      /\ (class \in FreeText /\ (serving \/ (at > 6 /\ ~failed)) => Keyed(rel))
  BY DEF KeyInv, UpgradeTypeOK, Classes, StatementList
<1>1. CASE BeginRun
  <2>1. at' \in 0..(Len(StatementList[class]) + 1)
    BY <1>1, <1>0 DEF BeginRun, StatementList, Classes
  <2>2. settled' \in {"no", "trying", "yes"} /\ failed' \in BOOLEAN
    BY <1>1 DEF BeginRun
  <2>3. UpgradeTypeOK'
    BY <1>1, <1>0, <2>1, <2>2 DEF BeginRun, UpgradeTypeOK
  <2> QED  BY <1>1, <1>0, <2>3 DEF BeginRun, KeyInv, Healthy, Keyed
<1>2. CASE RunStatement  BY <1>2, StatementKeeps
<1>3. CASE Fault
  <2>1. at \in DOMAIN StatementList[class] /\ at' = at + 1 /\ at' \in 0..(Len(StatementList[class]) + 1)
    BY <1>3, <1>0 DEF Fault, StatementList, Classes
  <2>2. UpgradeTypeOK'
    BY <1>3, <1>0, <2>1 DEF Fault, UpgradeTypeOK
  <2> QED  BY <1>3, <1>0, <2>2 DEF Fault, KeyInv, Healthy, Keyed
<1>4. CASE Interrupt
  <2>0. at' \in 0..(Len(StatementList[class]) + 1) /\ at' = 0
    BY <1>4, <1>0 DEF Interrupt
  <2>1. UpgradeTypeOK'
    BY <1>4, <1>0, <2>0 DEF Interrupt, UpgradeTypeOK
  <2> QED  BY <1>4, <1>0, <2>0, <2>1 DEF Interrupt, KeyInv, Healthy, Keyed
<1>5. CASE EndRun
  <2>1. After \in {"no", "trying", "yes"}
    BY <1>0 DEF After, UpgradeTypeOK
  <2>2. at' \in 0..(Len(StatementList[class]) + 1) /\ at' = 0
    BY <1>5, <1>0 DEF EndRun
  <2>3. UpgradeTypeOK'
    BY <1>5, <1>0, <2>1, <2>2 DEF EndRun, UpgradeTypeOK
  <2>4. class \in FreeText => at > 6
    <3>1. at = Len(StatementList[class]) + 1
      BY <1>5 DEF EndRun
    <3>2. class = "person" => at = 9
      BY <3>1 DEF StatementList
    <3>3. class = "credited_on" => at = 8
      BY <3>1 DEF StatementList
    <3>4. class \in FreeText => at \in {8, 9}
      BY <3>2, <3>3 DEF FreeText
    <3> QED  BY <3>4
  <2>5. serving' <=> (serving \/ ~failed)
    BY <1>5 DEF EndRun
  <2>6. class \in FreeText /\ serving' => Keyed(rel)
    BY <1>0, <2>4, <2>5
  <2> QED  BY <1>5, <1>0, <2>2, <2>3, <2>6 DEF EndRun, KeyInv, Healthy, Keyed
<1>6. CASE Load
  <2>1. class \in FreeText \/ class = "relationships" \/ (rel.is = "table" => Keyed(rel))
    BY <1>0 DEF Healthy
  <2>2. Keyed(rel)
    BY <1>6, <1>0, <2>1 DEF Load
  <2>3. copies' <= 1 /\ copies' \in 0..2
    BY <1>6, <1>0, <2>2 DEF Load, UpgradeTypeOK
  <2>4. UpgradeTypeOK'
    BY <1>6, <1>0, <2>3 DEF Load, UpgradeTypeOK
  <2> QED  BY <1>6, <1>0, <2>3, <2>4 DEF Load, KeyInv, Healthy, Keyed
<1>7. CASE BuildAhead
  <2>1. Healthy(rel') /\ class = "relationships" /\ class' = class
    BY <1>7, <1>0 DEF BuildAhead, Healthy, Relation, Keyed, FreeText
  <2>2. UpgradeTypeOK'
    BY <1>7, <1>0, <2>1 DEF BuildAhead, UpgradeTypeOK, Healthy
  <2> QED  BY <1>7, <1>0, <2>1, <2>2 DEF BuildAhead, KeyInv, Healthy, FreeText
<1>8. CASE OlderInitializer
  <2>1. Healthy(rel') /\ class' = class /\ (Keyed(rel) => Keyed(rel'))
    BY <1>8, <1>0 DEF OlderInitializer, With, Healthy, Relation, Indexes, Keyed, FreeText
  <2>2. UpgradeTypeOK'
    BY <1>8, <1>0, <2>1 DEF OlderInitializer, UpgradeTypeOK, Healthy
  <2> QED  BY <1>8, <1>0, <2>1, <2>2 DEF OlderInitializer, KeyInv, Healthy, Keyed
<1>9. CASE CalmDown
  <2>1. UpgradeTypeOK'
    BY <1>9, <1>0 DEF CalmDown, UpgradeTypeOK
  <2> QED  BY <1>9, <1>0, <2>1 DEF CalmDown, KeyInv, Healthy, Keyed
<1>10. CASE UNCHANGED upgradeVars
  BY <1>10 DEF upgradeVars, KeyInv, UpgradeTypeOK, Healthy, Keyed
<1> QED
  BY <1>1, <1>2, <1>3, <1>4, <1>5, <1>6, <1>7, <1>8, <1>9, <1>10 DEF NextUpgrade

\* The invariant holds of every behaviour.
LEMMA UpgradeInvariant == UpgradeSpec => []KeyInv
<1>1. InitUpgrade => KeyInv
  BY UpgradeBegins
<1>2. KeyInv /\ [NextUpgrade]_upgradeVars => KeyInv'
  BY NextKeeps
<1> QED
  BY <1>1, <1>2, PTL DEF UpgradeSpec

\* Every variable keeps its type, and only a table has a key.
THEOREM UpgradeTyped == UpgradeSpec => []UpgradeTypeOK
<1>1. KeyInv => UpgradeTypeOK
  BY DEF KeyInv
<1> QED
  BY <1>1, UpgradeInvariant, PTL

\* Whatever failed or stopped a run, a table in service has a key, and no natural key is stored twice.
THEOREM RowsStayUnique == UpgradeSpec => []RowsUnique
<1>1. KeyInv => RowsUnique
  BY DEF KeyInv, RowsUnique, Healthy, FreeText
<1> QED
  BY <1>1, UpgradeInvariant, PTL

\* Only the retirement of the five-column key takes the last key of a table.
THEOREM LastKeyStays == UpgradeSpec => KeysHandedOver
<1>1. ASSUME KeyInv, [NextUpgrade]_upgradeVars, Keyed(rel), ~Keyed(rel')
      PROVE  "five" \in rel.constraints /\ Running("retire_five")
  <2>0. Healthy(rel) /\ rel \in Relation /\ class \in Classes
    BY <1>1 DEF KeyInv, Healthy, UpgradeTypeOK
  <2>1. rel' # rel
    BY <1>1
  <2>2. RunStatement \/ BuildAhead \/ OlderInitializer
    BY <1>1, <2>1 DEF NextUpgrade, upgradeVars, BeginRun, Fault, Interrupt, EndRun, Load, CalmDown
  <2>3. ~BuildAhead
    BY <1>1, <2>0 DEF BuildAhead, Keyed, Healthy, Relation
  <2>4. ~OlderInitializer
    BY <1>1, <2>0 DEF OlderInitializer, With, Keyed, Relation
  <2>5. CASE RetireFiveColumnKey
    BY <2>5, <1>1, <2>0 DEF RetireFiveColumnKey, Do, Keyed, Relation
  <2>6. CASE FreeTextKey
    <3>1. class \in FreeText
      BY <2>6, <2>0, Places DEF FreeTextKey, Do
    <3>2. Keyed(rel')
      BY <2>6, <2>0, <3>1, <1>1 DEF FreeTextKey, Do, Keyed, Healthy, Relation, FreeText
    <3> QED  BY <3>2, <1>1
  <2>7. CASE CreateTable
    BY <2>7, <1>1, <2>0 DEF CreateTable, Do, Keyed, Healthy, Relation
  <2>8. CASE \/ CreateExtension \/ CreateFunction \/ ViewToTable \/ KeyRetype \/ TwoHashKey \/ KeyIndex
             \/ LookupIndex \/ ReverseIndex \/ RoleIndex \/ TrigramIndex \/ CreateView \/ CreateViewOver
             \/ Widen \/ RetireNaturalKey \/ RetireSourceIndex \/ RetireBtreeIndex \/ HashIndex
    <3>1. Keyed(rel')
      BY <2>8, <1>1, <2>0
      DEF CreateExtension, CreateFunction, ViewToTable, KeyRetype, TwoHashKey, KeyIndex, LookupIndex,
          ReverseIndex, RoleIndex, TrigramIndex, CreateView, CreateViewOver, Widen, RetireNaturalKey,
          RetireSourceIndex, RetireBtreeIndex, HashIndex, Do, Keyed, Relation, With, Without
    <3> QED  BY <3>1, <1>1
  <2> QED  BY <2>2, <2>3, <2>4, <2>5, <2>6, <2>7, <2>8 DEF RunStatement
<1>2. KeyInv /\ [NextUpgrade]_upgradeVars => [Keyed(rel) /\ ~Keyed(rel)' => "five" \in rel.constraints /\ Running("retire_five")]_upgradeVars
  BY <1>1 DEF Keyed
<1> QED
  BY <1>2, UpgradeInvariant, PTL DEF UpgradeSpec, KeysHandedOver

(* ---- nothing is made again ---- *)
\* What a statement finds of its own work: a relation it leaves as it is.
Done(c, s, r) ==
  /\ s = "extension" => r.extension
  /\ s = "function" => r.function
  /\ s = "view_to_table" => r.is # "view"
  /\ s = "key_retype" => (r.is = "view" => r.current)
  /\ s = "free_text_key" => c \in FreeText /\ "primary" \notin r.constraints
  /\ s = "two_hash_key" => r.key # "two_hash" /\ "person_hash" \notin r.indexes
  /\ s = "table" => r.is # "none"
  /\ s = "key_index" => r.key # "none"
  /\ s = "lookup" => "lookup" \in r.indexes
  /\ s = "reverse" => "reverse" \in r.indexes
  /\ s = "role" => {"role", "old_role"} \intersect r.indexes # {}
  /\ s = "trigram" => (r.extension => "trgm" \in r.indexes)
  /\ s = "view" => r.is = "view" /\ r.current
  /\ s = "view_over" => r.over
  /\ s = "widen" => (r.is = "table" /\ ~r.over => r.current)
  /\ s = "retire_five" => "five" \notin r.constraints
  /\ s = "retire_natural" => (r.key = "hash" => "natural" \notin r.constraints)
  /\ s = "retire_source" => "mb_rels_source" \notin r.indexes
  /\ s = "retire_btree" => "btree" \notin r.indexes
  /\ s = "hash_index" => {"btree", "hash"} \intersect r.indexes # {}

\* The statements whose work another one undoes or calls for.
Undone(s) ==
  {t \in {"table", "view", "view_over"} : s \in {"view_to_table", "key_retype"}}
    \cup {t \in {"reverse", "role", "retire_natural"} : s = "free_text_key"}
    \cup {t \in {"retire_natural"} : s \in {"two_hash_key", "key_index"}}
    \cup {t \in {"trigram"} : s = "extension"}
    \cup {t \in {"view"} : s = "table"}
    \cup {t \in {"view_to_table"} : s = "view"}
    \cup {t \in {"hash_index"} : s = "retire_btree"}

\* The order of the list: such statements come later, if at all.
LEMMA Order ==
  ASSUME class \in Classes, NEW s, Running(s), NEW i \in DOMAIN StatementList[class], i < at
  PROVE  StatementList[class][i] \notin Undone(s)
<1>1. CASE class = "genre"  BY <1>1 DEF Running, StatementList, Undone
<1>2. CASE class = "by_artist"  BY <1>2 DEF Running, StatementList, Undone
<1>3. CASE class = "person"  BY <1>3 DEF Running, StatementList, Undone
<1>4. CASE class = "credited_on"  BY <1>4 DEF Running, StatementList, Undone
<1>5. CASE class = "artist"  BY <1>5 DEF Running, StatementList, Undone
<1>6. CASE class = "relationships"  BY <1>6 DEF Running, StatementList, Undone
<1>7. CASE class = "mb_artists"  BY <1>7 DEF Running, StatementList, Undone
<1>8. CASE class = "artists"  BY <1>8 DEF Running, StatementList, Undone
<1> QED  BY <1>1, <1>2, <1>3, <1>4, <1>5, <1>6, <1>7, <1>8 DEF Classes

\* A statement that does not fail leaves its work done, does nothing where it is done, and
\* undoes nothing but what Undone says.
Settles(s) ==
  /\ Running(s) /\ at' = at + 1 /\ UNCHANGED <<class, settled>> /\ (failed => failed')
  /\ Done(class, s, rel) => rel' = rel
  /\ failed' \/ Done(class, s, rel')
  /\ \A t : t \notin Undone(s) /\ Done(class, t, rel) => Done(class, t, rel')

\* Every statement settles: it fails, or has nothing to do the next time.
LEMMA StatementSettles ==
  ASSUME class \in Classes, rel \in Relation, failed \in BOOLEAN, RunStatement
  PROVE  \E s : Settles(s)
<1>1. CASE CreateExtension
  <2> DEFINE s == "extension"
  <2>1. /\ Running(s) /\ at' = at + 1 /\ UNCHANGED <<class, settled>> /\ (failed => failed')
    BY <1>1 DEF CreateExtension, Do
  <2>2. Done(class, s, rel) => rel' = rel
    BY <1>1 DEF CreateExtension, Do, Done, Relation
  <2>3. failed' \/ Done(class, s, rel')
    BY <1>1 DEF CreateExtension, Do, Done, Relation
  <2>4. ASSUME NEW t, t \notin Undone(s), Done(class, t, rel) PROVE Done(class, t, rel')
    BY <1>1, <2>4 DEF CreateExtension, Do, Done, Relation, Undone
  <2> QED  BY <2>1, <2>2, <2>3, <2>4 DEF Settles
<1>2. CASE CreateFunction
  <2> DEFINE s == "function"
  <2>1. /\ Running(s) /\ at' = at + 1 /\ UNCHANGED <<class, settled>> /\ (failed => failed')
    BY <1>2 DEF CreateFunction, Do
  <2>2. Done(class, s, rel) => rel' = rel
    BY <1>2 DEF CreateFunction, Do, Done, Relation
  <2>3. failed' \/ Done(class, s, rel')
    BY <1>2 DEF CreateFunction, Do, Done, Relation
  <2>4. ASSUME NEW t, t \notin Undone(s), Done(class, t, rel) PROVE Done(class, t, rel')
    BY <1>2, <2>4 DEF CreateFunction, Do, Done, Relation, Undone
  <2> QED  BY <2>1, <2>2, <2>3, <2>4 DEF Settles
<1>3. CASE ViewToTable
  <2> DEFINE s == "view_to_table"
  <2>1. /\ Running(s) /\ at' = at + 1 /\ UNCHANGED <<class, settled>> /\ (failed => failed')
    BY <1>3 DEF ViewToTable, Do
  <2>2. Done(class, s, rel) => rel' = rel
    BY <1>3 DEF ViewToTable, Do, Done, Relation
  <2>3. failed' \/ Done(class, s, rel')
    BY <1>3 DEF ViewToTable, Do, Done, Relation
  <2>4. ASSUME NEW t, t \notin Undone(s), Done(class, t, rel) PROVE Done(class, t, rel')
    BY <1>3, <2>4 DEF ViewToTable, Do, Done, Relation, Undone
  <2> QED  BY <2>1, <2>2, <2>3, <2>4 DEF Settles
<1>4. CASE KeyRetype
  <2> DEFINE s == "key_retype"
  <2>1. /\ Running(s) /\ at' = at + 1 /\ UNCHANGED <<class, settled>> /\ (failed => failed')
    BY <1>4 DEF KeyRetype, Do
  <2>2. Done(class, s, rel) => rel' = rel
    BY <1>4 DEF KeyRetype, Do, Done, Relation
  <2>3. failed' \/ Done(class, s, rel')
    BY <1>4 DEF KeyRetype, Do, Done, Relation
  <2>4. ASSUME NEW t, t \notin Undone(s), Done(class, t, rel) PROVE Done(class, t, rel')
    BY <1>4, <2>4 DEF KeyRetype, Do, Done, Relation, Undone
  <2> QED  BY <2>1, <2>2, <2>3, <2>4 DEF Settles
<1>5. CASE FreeTextKey
  <2> DEFINE s == "free_text_key"
  <2>1. /\ Running(s) /\ at' = at + 1 /\ UNCHANGED <<class, settled>> /\ (failed => failed')
    BY <1>5 DEF FreeTextKey, Do
  <2>2. Done(class, s, rel) => rel' = rel
    BY <1>5 DEF FreeTextKey, Do, Done, Relation, Without, Stale, Lookup
  <2>3. failed' \/ Done(class, s, rel')
    BY <1>5, <2>1, Places DEF FreeTextKey, Do, Done, Relation, Without, Stale, Lookup
  <2>4. ASSUME NEW t, t \notin Undone(s), Done(class, t, rel) PROVE Done(class, t, rel')
    BY <1>5, <2>4 DEF FreeTextKey, Do, Done, Relation, Without, Stale, Lookup, Undone
  <2> QED  BY <2>1, <2>2, <2>3, <2>4 DEF Settles
<1>6. CASE TwoHashKey
  <2> DEFINE s == "two_hash_key"
  <2>1. /\ Running(s) /\ at' = at + 1 /\ UNCHANGED <<class, settled>> /\ (failed => failed')
    BY <1>6 DEF TwoHashKey, Do
  <2>2. Done(class, s, rel) => rel' = rel
    <3>1. SUFFICES ASSUME rel.key # "two_hash", "person_hash" \notin rel.indexes PROVE rel' = rel
      BY DEF Done
    <3>2. [rel EXCEPT !.key = @] = rel
      BY DEF Relation
    <3>3. rel.indexes \ {"person_hash"} = rel.indexes
      BY <3>1
    <3>4. [rel EXCEPT !.indexes = @ \ {"person_hash"}] = rel
      BY <3>3 DEF Relation
    <3> QED  BY <1>6, <3>1, <3>2, <3>4 DEF TwoHashKey, Do, Without
  <2>3. failed' \/ Done(class, s, rel')
    BY <1>6 DEF TwoHashKey, Do, Done, Relation, Without
  <2>4. ASSUME NEW t, t \notin Undone(s), Done(class, t, rel) PROVE Done(class, t, rel')
    BY <1>6, <2>4 DEF TwoHashKey, Do, Done, Relation, Without, Undone
  <2> QED  BY <2>1, <2>2, <2>3, <2>4 DEF Settles
<1>7. CASE CreateTable
  <2> DEFINE s == "table"
  <2>1. /\ Running(s) /\ at' = at + 1 /\ UNCHANGED <<class, settled>> /\ (failed => failed')
    BY <1>7 DEF CreateTable, Do
  <2>2. Done(class, s, rel) => rel' = rel
    BY <1>7 DEF CreateTable, Do, Done, Relation
  <2>3. failed' \/ Done(class, s, rel')
    BY <1>7 DEF CreateTable, Do, Done, Relation
  <2>4. ASSUME NEW t, t \notin Undone(s), Done(class, t, rel) PROVE Done(class, t, rel')
    BY <1>7, <2>4 DEF CreateTable, Do, Done, Relation, Undone, FreeText
  <2> QED  BY <2>1, <2>2, <2>3, <2>4 DEF Settles
<1>8. CASE KeyIndex
  <2> DEFINE s == "key_index"
  <2>1. /\ Running(s) /\ at' = at + 1 /\ UNCHANGED <<class, settled>> /\ (failed => failed')
    BY <1>8 DEF KeyIndex, Do
  <2>2. Done(class, s, rel) => rel' = rel
    BY <1>8 DEF KeyIndex, Do, Done, Relation, NoTable
  <2>3. failed' \/ Done(class, s, rel')
    BY <1>8 DEF KeyIndex, Do, Done, Relation, NoTable
  <2>4. ASSUME NEW t, t \notin Undone(s), Done(class, t, rel) PROVE Done(class, t, rel')
    BY <1>8, <2>4 DEF KeyIndex, Do, Done, Relation, NoTable, Undone
  <2> QED  BY <2>1, <2>2, <2>3, <2>4 DEF Settles
<1>9. CASE LookupIndex
  <2> DEFINE s == "lookup"
  <2>1. /\ Running(s) /\ at' = at + 1 /\ UNCHANGED <<class, settled>> /\ (failed => failed')
    BY <1>9 DEF LookupIndex, Do
  <2>2. Done(class, s, rel) => rel' = rel
    BY <1>9 DEF LookupIndex, Do, Done, Relation, With, NoTable
  <2>3. failed' \/ Done(class, s, rel')
    BY <1>9 DEF LookupIndex, Do, Done, Relation, With, NoTable
  <2>4. ASSUME NEW t, t \notin Undone(s), Done(class, t, rel) PROVE Done(class, t, rel')
    BY <1>9, <2>4 DEF LookupIndex, Do, Done, Relation, With, NoTable, Undone
  <2> QED  BY <2>1, <2>2, <2>3, <2>4 DEF Settles
<1>10. CASE ReverseIndex
  <2> DEFINE s == "reverse"
  <2>1. /\ Running(s) /\ at' = at + 1 /\ UNCHANGED <<class, settled>> /\ (failed => failed')
    BY <1>10 DEF ReverseIndex, Do
  <2>2. Done(class, s, rel) => rel' = rel
    BY <1>10 DEF ReverseIndex, Do, Done, Relation, With, NoTable
  <2>3. failed' \/ Done(class, s, rel')
    BY <1>10 DEF ReverseIndex, Do, Done, Relation, With, NoTable
  <2>4. ASSUME NEW t, t \notin Undone(s), Done(class, t, rel) PROVE Done(class, t, rel')
    BY <1>10, <2>4 DEF ReverseIndex, Do, Done, Relation, With, NoTable, Undone
  <2> QED  BY <2>1, <2>2, <2>3, <2>4 DEF Settles
<1>11. CASE RoleIndex
  <2> DEFINE s == "role"
  <2>1. /\ Running(s) /\ at' = at + 1 /\ UNCHANGED <<class, settled>> /\ (failed => failed')
    BY <1>11 DEF RoleIndex, Do
  <2>2. Done(class, s, rel) => rel' = rel
    BY <1>11 DEF RoleIndex, Do, Done, Relation, With, NoTable
  <2>3. failed' \/ Done(class, s, rel')
    BY <1>11 DEF RoleIndex, Do, Done, Relation, With, NoTable
  <2>4. ASSUME NEW t, t \notin Undone(s), Done(class, t, rel) PROVE Done(class, t, rel')
    BY <1>11, <2>4 DEF RoleIndex, Do, Done, Relation, With, NoTable, Undone
  <2> QED  BY <2>1, <2>2, <2>3, <2>4 DEF Settles
<1>12. CASE TrigramIndex
  <2> DEFINE s == "trigram"
  <2>1. /\ Running(s) /\ at' = at + 1 /\ UNCHANGED <<class, settled>> /\ (failed => failed')
    BY <1>12 DEF TrigramIndex, Do
  <2>2. Done(class, s, rel) => rel' = rel
    BY <1>12 DEF TrigramIndex, Do, Done, Relation, With, NoTable
  <2>3. failed' \/ Done(class, s, rel')
    BY <1>12 DEF TrigramIndex, Do, Done, Relation, With, NoTable
  <2>4. ASSUME NEW t, t \notin Undone(s), Done(class, t, rel) PROVE Done(class, t, rel')
    BY <1>12, <2>4 DEF TrigramIndex, Do, Done, Relation, With, NoTable, Undone
  <2> QED  BY <2>1, <2>2, <2>3, <2>4 DEF Settles
<1>13. CASE CreateView
  <2> DEFINE s == "view"
  <2>1. /\ Running(s) /\ at' = at + 1 /\ UNCHANGED <<class, settled>> /\ (failed => failed')
    BY <1>13 DEF CreateView, Do
  <2>2. Done(class, s, rel) => rel' = rel
    BY <1>13 DEF CreateView, Do, Done, Relation
  <2>3. failed' \/ Done(class, s, rel')
    BY <1>13 DEF CreateView, Do, Done, Relation
  <2>4. ASSUME NEW t, t \notin Undone(s), Done(class, t, rel) PROVE Done(class, t, rel')
    BY <1>13, <2>4 DEF CreateView, Do, Done, Relation, Undone
  <2> QED  BY <2>1, <2>2, <2>3, <2>4 DEF Settles
<1>14. CASE CreateViewOver
  <2> DEFINE s == "view_over"
  <2>1. /\ Running(s) /\ at' = at + 1 /\ UNCHANGED <<class, settled>> /\ (failed => failed')
    BY <1>14 DEF CreateViewOver, Do
  <2>2. Done(class, s, rel) => rel' = rel
    BY <1>14 DEF CreateViewOver, Do, Done, Relation
  <2>3. failed' \/ Done(class, s, rel')
    BY <1>14 DEF CreateViewOver, Do, Done, Relation
  <2>4. ASSUME NEW t, t \notin Undone(s), Done(class, t, rel) PROVE Done(class, t, rel')
    BY <1>14, <2>4 DEF CreateViewOver, Do, Done, Relation, Undone
  <2> QED  BY <2>1, <2>2, <2>3, <2>4 DEF Settles
<1>15. CASE Widen
  <2> DEFINE s == "widen"
  <2>1. /\ Running(s) /\ at' = at + 1 /\ UNCHANGED <<class, settled>> /\ (failed => failed')
    BY <1>15 DEF Widen, Do
  <2>2. Done(class, s, rel) => rel' = rel
    BY <1>15 DEF Widen, Do, Done, Relation
  <2>3. failed' \/ Done(class, s, rel')
    BY <1>15 DEF Widen, Do, Done, Relation
  <2>4. ASSUME NEW t, t \notin Undone(s), Done(class, t, rel) PROVE Done(class, t, rel')
    BY <1>15, <2>4 DEF Widen, Do, Done, Relation, Undone
  <2> QED  BY <2>1, <2>2, <2>3, <2>4 DEF Settles
<1>16. CASE RetireFiveColumnKey
  <2> DEFINE s == "retire_five"
  <2>1. /\ Running(s) /\ at' = at + 1 /\ UNCHANGED <<class, settled>> /\ (failed => failed')
    BY <1>16 DEF RetireFiveColumnKey, Do
  <2>2. Done(class, s, rel) => rel' = rel
    BY <1>16 DEF RetireFiveColumnKey, Do, Done, Relation
  <2>3. failed' \/ Done(class, s, rel')
    BY <1>16 DEF RetireFiveColumnKey, Do, Done, Relation
  <2>4. ASSUME NEW t, t \notin Undone(s), Done(class, t, rel) PROVE Done(class, t, rel')
    BY <1>16, <2>4 DEF RetireFiveColumnKey, Do, Done, Relation, Undone
  <2> QED  BY <2>1, <2>2, <2>3, <2>4 DEF Settles
<1>17. CASE RetireNaturalKey
  <2> DEFINE s == "retire_natural"
  <2>1. /\ Running(s) /\ at' = at + 1 /\ UNCHANGED <<class, settled>> /\ (failed => failed')
    BY <1>17 DEF RetireNaturalKey, Do
  <2>2. Done(class, s, rel) => rel' = rel
    BY <1>17 DEF RetireNaturalKey, Do, Done, Relation, NoTable
  <2>3. failed' \/ Done(class, s, rel')
    BY <1>17 DEF RetireNaturalKey, Do, Done, Relation, NoTable
  <2>4. ASSUME NEW t, t \notin Undone(s), Done(class, t, rel) PROVE Done(class, t, rel')
    BY <1>17, <2>4 DEF RetireNaturalKey, Do, Done, Relation, NoTable, Undone
  <2> QED  BY <2>1, <2>2, <2>3, <2>4 DEF Settles
<1>18. CASE RetireSourceIndex
  <2> DEFINE s == "retire_source"
  <2>1. /\ Running(s) /\ at' = at + 1 /\ UNCHANGED <<class, settled>> /\ (failed => failed')
    BY <1>18 DEF RetireSourceIndex, Do
  <2>2. Done(class, s, rel) => rel' = rel
    BY <1>18 DEF RetireSourceIndex, Do, Done, Relation, Without
  <2>3. failed' \/ Done(class, s, rel')
    BY <1>18 DEF RetireSourceIndex, Do, Done, Relation, Without
  <2>4. ASSUME NEW t, t \notin Undone(s), Done(class, t, rel) PROVE Done(class, t, rel')
    BY <1>18, <2>4 DEF RetireSourceIndex, Do, Done, Relation, Without, Undone
  <2> QED  BY <2>1, <2>2, <2>3, <2>4 DEF Settles
<1>19. CASE RetireBtreeIndex
  <2> DEFINE s == "retire_btree"
  <2>1. /\ Running(s) /\ at' = at + 1 /\ UNCHANGED <<class, settled>> /\ (failed => failed')
    BY <1>19 DEF RetireBtreeIndex, Do
  <2>2. Done(class, s, rel) => rel' = rel
    BY <1>19 DEF RetireBtreeIndex, Do, Done, Relation, Without
  <2>3. failed' \/ Done(class, s, rel')
    BY <1>19 DEF RetireBtreeIndex, Do, Done, Relation, Without
  <2>4. ASSUME NEW t, t \notin Undone(s), Done(class, t, rel) PROVE Done(class, t, rel')
    BY <1>19, <2>4 DEF RetireBtreeIndex, Do, Done, Relation, Without, Undone
  <2> QED  BY <2>1, <2>2, <2>3, <2>4 DEF Settles
<1>20. CASE HashIndex
  <2> DEFINE s == "hash_index"
  <2>1. /\ Running(s) /\ at' = at + 1 /\ UNCHANGED <<class, settled>> /\ (failed => failed')
    BY <1>20 DEF HashIndex, Do
  <2>2. Done(class, s, rel) => rel' = rel
    BY <1>20 DEF HashIndex, Do, Done, Relation, With, NoTable
  <2>3. failed' \/ Done(class, s, rel')
    BY <1>20 DEF HashIndex, Do, Done, Relation, With, NoTable
  <2>4. ASSUME NEW t, t \notin Undone(s), Done(class, t, rel) PROVE Done(class, t, rel')
    BY <1>20, <2>4 DEF HashIndex, Do, Done, Relation, With, NoTable, Undone
  <2> QED  BY <2>1, <2>2, <2>3, <2>4 DEF Settles
<1> QED
  BY <1>1, <1>2, <1>3, <1>4, <1>5, <1>6, <1>7, <1>8, <1>9, <1>10, <1>11, <1>12, <1>13, <1>14, <1>15, <1>16, <1>17, <1>18, <1>19, <1>20 DEF RunStatement

\* What is done: everything once a run has settled the relation, and while a run that may
\* settle it has not failed, all it has passed.
SettleInv ==
  \A i \in DOMAIN StatementList[class] :
    settled = "yes" \/ (settled = "trying" /\ ~failed /\ i < at) => Done(class, StatementList[class][i], rel)

\* What a run has settled stays, and nothing changes a settled relation.
LEMMA SettleKept ==
  ASSUME KeyInv, SettleInv, [NextUpgrade]_upgradeVars
  PROVE  SettleInv' /\ (settled = "yes" /\ settled' = "yes" => rel' = rel)
<1>0. /\ UpgradeTypeOK /\ class \in Classes /\ rel \in Relation /\ failed \in BOOLEAN /\ at \in Nat
      /\ settled \in {"no", "trying", "yes"}
  BY DEF KeyInv, UpgradeTypeOK
<1>1. CASE BeginRun
  <2>1. /\ class' = class /\ rel' = rel /\ at' = 1 /\ settled' \in {"trying", "yes"}
        /\ (settled' = "yes" => settled = "yes")
    BY <1>1 DEF BeginRun
  <2>2. \A i \in DOMAIN StatementList[class] : ~(i < 1)
    BY <1>0 DEF Classes, StatementList
  <2> QED  BY <2>1, <2>2 DEF SettleInv
<1>2. CASE RunStatement
  <2>1. PICK s : Settles(s)
    BY <1>0, <1>2, StatementSettles
  <2>2. /\ Running(s) /\ at' = at + 1 /\ class' = class /\ settled' = settled /\ (failed => failed')
        /\ StatementList[class][at] = s /\ at \in DOMAIN StatementList[class]
    BY <2>1 DEF Settles, Running
  <2>3. settled = "yes" => rel' = rel
    BY <2>1, <2>2 DEF Settles, SettleInv
  <2>4. ASSUME NEW i \in DOMAIN StatementList[class], settled = "trying", ~failed', i < at + 1
        PROVE  Done(class, StatementList[class][i], rel')
    <3>1. CASE i = at
      BY <3>1, <2>1, <2>2, <2>4 DEF Settles
    <3>2. CASE i < at
      <4>1. StatementList[class][i] \notin Undone(s)
        BY <3>2, <2>2, <1>0, Order
      <4>2. Done(class, StatementList[class][i], rel)
        BY <3>2, <2>2, <2>4 DEF SettleInv
      <4> QED  BY <4>1, <4>2, <2>1 DEF Settles
    <3>3. i \in Nat
      BY <1>0 DEF Classes, StatementList
    <3> QED  BY <3>1, <3>2, <3>3, <2>4, <1>0
  <2> QED  BY <2>2, <2>3, <2>4 DEF SettleInv
<1>3. CASE Fault \/ Interrupt
  <2>1. /\ class' = class /\ rel' = rel /\ settled' = settled
        /\ failed' \/ at' = 0
    BY <1>3 DEF Fault, Interrupt
  <2>2. \A i \in DOMAIN StatementList[class] : ~(i < 0)
    BY <1>0 DEF Classes, StatementList
  <2> QED  BY <2>1, <2>2 DEF SettleInv
<1>4. CASE EndRun
  <2>1. class' = class /\ rel' = rel /\ at' = 0 /\ settled' = After /\ at = Len(StatementList[class]) + 1
    BY <1>4 DEF EndRun
  <2>2. \A i \in DOMAIN StatementList[class] : i < Len(StatementList[class]) + 1 /\ ~(i < 0)
    <3>1. DOMAIN StatementList[class] = 1..Len(StatementList[class]) /\ Len(StatementList[class]) \in Nat
      BY <1>0 DEF Classes, StatementList
    <3>2. \A S : \A n \in Nat : S = 1..n => \A i \in S : i < n + 1 /\ ~(i < 0)
      OBVIOUS
    <3> QED  BY <3>1, <3>2, Zenon
  <2>3. settled' = "yes" => \A i \in DOMAIN StatementList[class] : Done(class, StatementList[class][i], rel)
    BY <2>1, <2>2 DEF After, SettleInv
  <2> QED  BY <2>1, <2>2, <2>3 DEF SettleInv
<1>5. CASE BuildAhead \/ OlderInitializer
  BY <1>5 DEF BuildAhead, OlderInitializer, SettleInv
<1>6. CASE Load \/ CalmDown \/ UNCHANGED upgradeVars
  BY <1>6 DEF Load, CalmDown, upgradeVars, SettleInv
<1> QED
  BY <1>1, <1>2, <1>3, <1>4, <1>5, <1>6 DEF NextUpgrade

\* After a run without a failure, no statement of a later run changes the relation, however that
\* run fares.
THEOREM StaysSettled == UpgradeSpec => Settled
<1>1. InitUpgrade => SettleInv
  BY DEF InitUpgrade, SettleInv
<1>2. KeyInv /\ SettleInv /\ [NextUpgrade]_upgradeVars => SettleInv'
  BY SettleKept
<1>3. KeyInv /\ SettleInv /\ [NextUpgrade]_upgradeVars => [settled = "yes" /\ settled' = "yes" => rel' = rel]_upgradeVars
  BY SettleKept
<1> QED
  BY <1>1, <1>2, <1>3, UpgradeInvariant, PTL DEF UpgradeSpec, Settled
==============================================================================
