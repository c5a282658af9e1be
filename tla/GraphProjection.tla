--------------------------- MODULE GraphProjection ---------------------------
(***************************************************************************)
(* What the graph schema says of the catalog: the rows of every vertex and *)
(* edge, as the SQL bodies in postgres.py project them from the documents, *)
(* and the counters they sum.  Nothing here changes state; GraphFill       *)
(* writes the tables these bodies fill.                                    *)
(*                                                                         *)
(* db is the catalog: releases, masters, artists, labels (functions from   *)
(* data_id to the document), media (from a release to its media column),   *)
(* mb (by entity type, a function from mbid to its row), and the sets      *)
(* relationships, aliases, collections and wantlists.  g is the graph      *)
(* tables: a set of rows for each relation, a row a record of its columns. *)
(* Columns that are copied and never read again (titles, formats, dates,   *)
(* hashes, ratings) are left out, and so are the views nothing here reads. *)
(*                                                                         *)
(* A JSON value is a record tagged with jsonb_typeof's answer, and with    *)
(* the text ->> gives for it, its own or that of its JSON; Absent is the   *)
(* SQL NULL that -> answers for a key that is not there.  Json is closed   *)
(* under taking parts.                                                     *)
(***************************************************************************)
EXTENDS Integers, Sequences, FiniteSets, Functions, TLC

CONSTANTS
  Texts, Null,         \* text values, and SQL's NULL
  Json,                \* the JSON values documents are made of
  Btrim, Padding, Folded,       \* a text without its spaces, without name padding, in lower case
  Number,              \* the value of each text of digits only
  Collate,             \* the rank of each text in the database's collation
  RoleCategories,      \* category of each fragment of the credit-role taxonomy
  Length, Fragments,   \* length of each fragment, and the fragments in each text
  MappedTypes,         \* MusicBrainz relationship types the enricher writes
  MediumLabels,        \* the vendored media taxonomy
  MaxInteger, MaxQuantity       \* the largest int4, the largest number of nine digits

ASSUME TextAssumption ==
  /\ "" \in Texts /\ Null \notin Texts
  /\ Btrim \in [Texts -> Texts] /\ Padding \in [Texts -> Texts] /\ Folded \in [Texts -> Texts]
  /\ \A t \in Texts : /\ Btrim[Btrim[t]] = Btrim[t] /\ Padding[Padding[t]] = Padding[t]
                      /\ Padding[Btrim[t]] = Padding[t]
  /\ Collate \in [Texts -> Nat] /\ \A t, u \in Texts : Collate[t] = Collate[u] => t = u
ASSUME JsonAssumption ==
  \A v \in Json :
    /\ v.type = "array" => v.items \in Seq(Json)
    /\ v.type = "object" => \A key \in DOMAIN v.fields : v.fields[key] \in Json
    /\ v.type # "null" => v.text \in Texts
ASSUME VocabularyAssumption ==
  /\ Number \in [DOMAIN Number -> Nat] /\ DOMAIN Number \subseteq Texts
  /\ DOMAIN RoleCategories \subseteq Texts
  /\ Length \in [DOMAIN RoleCategories -> Nat]
  /\ Fragments \in [Texts -> SUBSET DOMAIN RoleCategories]
  /\ MaxInteger \in Nat /\ MaxQuantity \in Nat

\* f with what g adds: the @@ of module TLC, which the prover does not know.
Over(f, g) == [x \in DOMAIN f \cup DOMAIN g |-> IF x \in DOMAIN f THEN f[x] ELSE g[x]]

(* ---- reading documents ---- *)
Absent == [type |-> "absent"]
Get(value, key) ==
  IF value.type = "object" /\ key \in DOMAIN value.fields THEN value.fields[key] ELSE Absent
AsText(value) == IF value.type \in {"absent", "null"} THEN Null ELSE value.text
GetText(value, key) == AsText(Get(value, key))
Trimmed(text) == IF text = Null THEN Null ELSE Btrim[text]

JsonbArray(value) == IF value.type = "array" THEN value.items ELSE <<>>
TextArray(value) == [i \in DOMAIN JsonbArray(value) |-> AsText(JsonbArray(value)[i])]
Elements(value) == Range(JsonbArray(value))
Tags(value) == Range(TextArray(value)) \ {Null, ""}

NonEmpty(text) == text \notin {Null, ""}
NullIfEmpty(text) == IF NonEmpty(text) THEN text ELSE Null
UsableId(text) == NonEmpty(Trimmed(text)) /\ Trimmed(text) # "0"

XmltodictArray(container, key) ==
  LET inner == Get(container, key)
      wrapped == CASE inner.type = "array" -> inner.items
                   [] inner.type = "null"  -> <<>>
                   [] OTHER                -> <<inner>>
  IN CASE container.type = "array" -> container.items
       [] container.type = "object" -> IF key \in DOMAIN container.fields THEN wrapped ELSE <<>>
       [] container.type \in {"absent", "null"} -> <<>>
       [] OTHER -> <<container>>

(* ---- the functions the bodies call; all answer NULL for NULL ---- *)
StripPersonName(name) == IF name = Null THEN Null ELSE Padding[name]
CreditRoleCategory(role) ==
  LET normalized == Btrim[Folded[role]]
      Before(f, h) == Length[f] > Length[h] \/ (Length[f] = Length[h] /\ Collate[f] <= Collate[h])
      found == Fragments[normalized]
  IN IF role = Null THEN Null
     ELSE IF normalized \in DOMAIN RoleCategories THEN RoleCategories[normalized]
     ELSE IF found = {} THEN "other"
     ELSE RoleCategories[CHOOSE f \in found : \A h \in found : Before(f, h)]
MbRelationshipType(raw) == IF raw \in DOMAIN MappedTypes THEN MappedTypes[raw] ELSE Null
MediumLabel(medium) == IF medium \in DOMAIN MediumLabels THEN MediumLabels[medium] ELSE medium

(* ---- vertices that are views ---- *)
TaggedDocuments(db) == Range(db.releases) \cup Range(db.masters)

NativeIdentityJoin(db, kind, id) ==
  LET found == {a.native_id : a \in {x \in db.aliases :
                  x.provider = "discogs" /\ x.kind = kind /\ x.external_id = id /\ x.open}}
  IN IF found = {} THEN {Null} ELSE found

Artists(db) ==
  UNION {{[artist_id |-> id, gm_id |-> native] : native \in NativeIdentityJoin(db, "artist", id)} :
           id \in DOMAIN db.artists}
Labels(db) ==
  UNION {{[label_id |-> id, gm_id |-> native] : native \in NativeIdentityJoin(db, "label", id)} :
           id \in DOMAIN db.labels}
Releases(db) ==
  UNION {{[release_id |-> id, genres |-> TextArray(Get(db.releases[id], "genres")), gm_id |-> native] :
            native \in NativeIdentityJoin(db, "release", id)} : id \in DOMAIN db.releases}

MbRel(db, source, target) ==
  {[source_mbid |-> r.source, target_mbid |-> r.target, raw_relationship_type |-> r.type,
    relationship_type |-> MbRelationshipType(r.type)] :
     r \in {x \in db.relationships : /\ x.source_type = source /\ x.source \in DOMAIN db.mb[source]
                                     /\ x.target_type = target /\ x.target \in DOMAIN db.mb[target]}}

(* ---- edges that are views ---- *)
Collected(db) == {c \in db.collections : c.release_id \in DOMAIN db.releases}
Wants(db) == {w \in db.wantlists : w.release_id \in DOMAIN db.releases}
InFamily(g) ==
  {[medium_id |-> m.medium_id, family_name |-> m.family] :
     m \in {x \in g.medium : [name |-> x.family] \in g.media_family}}

(* ---- what the document-backed bodies unnest ---- *)
Credits(array) ==
  {[person_name |-> StripPersonName(GetText(c, "name")), role |-> GetText(c, "role"),
    artist_id |-> Trimmed(GetText(c, "id"))] :
     c \in {x \in Range(array) : NonEmpty(StripPersonName(GetText(x, "name"))) /\ NonEmpty(GetText(x, "role"))}}
Placed(place, rows) == {Over(place, row) : row \in rows}
CreditSource(db) ==
  UNION {Placed([release_id |-> id], Credits(JsonbArray(Get(db.releases[id], "extraartists")))) :
           id \in DOMAIN db.releases}

\* Tracks, then the sub-tracks of each: ordinals and the dump's own value.
TracksOf(doc) ==
  LET tracks == XmltodictArray(Get(doc, "tracklist"), "track")
      Subs(i) == XmltodictArray(Get(tracks[i], "sub_tracks"), "track")
  IN {[ordinal |-> i, sub |-> 0, value |-> tracks[i]] : i \in DOMAIN tracks}
     \cup UNION {{[ordinal |-> i, sub |-> j, value |-> Subs(i)[j]] : j \in DOMAIN Subs(i)} :
                   i \in DOMAIN tracks}
OnTrack(id, t) == [release_id |-> id, track_ordinal |-> t.ordinal, sub_track_ordinal |-> t.sub,
                   track_position |-> GetText(t.value, "position")]
TrackCreditSource(db) ==
  UNION {UNION {Placed(OnTrack(id, t), Credits(XmltodictArray(Get(t.value, "extraartists"), "artist"))) :
                  t \in TracksOf(db.releases[id])} : id \in DOMAIN db.releases}
TrackPerformerSource(db) ==
  UNION {UNION {{Over(OnTrack(id, t), [artist_id |-> Trimmed(GetText(a, "id"))]) :
                   a \in {x \in Range(XmltodictArray(Get(t.value, "artists"), "artist")) :
                            UsableId(GetText(x, "id"))}} :
                  t \in TracksOf(db.releases[id])} : id \in DOMAIN db.releases}

PositiveDecimal(text) == text \in DOMAIN Number /\ Number[text] > 0
CompanyId(item) ==
  LET id == Trimmed(GetText(item, "discogs_id"))  name == Trimmed(GetText(item, "name"))
  IN IF PositiveDecimal(id) THEN id
     ELSE IF NonEmpty(name) THEN "name:" \o Folded[name] ELSE Null
CompanySource(db) ==
  UNION {LET items == JsonbArray(Get(Get(db.releases[id], "companies"), "items"))
             category(i) == NullIfEmpty(Trimmed(GetText(items[i], "role_category")))
         IN {[release_id |-> id, entry_position |-> i, company_id |-> CompanyId(items[i]),
              company_name |-> NullIfEmpty(Trimmed(GetText(items[i], "name"))),
              role |-> NullIfEmpty(Trimmed(GetText(items[i], "role"))),
              role_category |-> IF category(i) = Null THEN "other" ELSE category(i)] :
               i \in DOMAIN items} : id \in DOMAIN db.releases}

MediumQuantity(item) ==
  LET qty == Get(item, "qty")
  IN IF qty.type = "number" /\ PositiveDecimal(qty.text) /\ Number[qty.text] <= MaxQuantity
     THEN Number[qty.text] ELSE 1
\* A row for each medium of a media column; entry tells rows apart that read alike.
MediaOf(media, place) ==
  LET items == JsonbArray(Get(media, "items"))
  IN {Over(place, [entry |-> i, medium_id |-> GetText(items[i], "medium"),
                   family_name |-> GetText(items[i], "family"), qty |-> MediumQuantity(items[i])]) :
        i \in {j \in DOMAIN items : NonEmpty(GetText(items[j], "medium")) /\ NonEmpty(GetText(items[j], "family"))}}
DiscogsMedia(db) ==
  UNION {MediaOf(db.media[id], [release_id |-> id, provider |-> "discogs", from |-> id]) :
           id \in DOMAIN db.releases}
MusicBrainzMedia(db) ==
  UNION {MediaOf(db.mb["release"][mbid].media,
                 [release_id |-> db.mb["release"][mbid].discogs, provider |-> "musicbrainz", from |-> mbid]) :
           mbid \in {m \in DOMAIN db.mb["release"] : db.mb["release"][m].discogs \in DOMAIN db.releases}}
MediaSource(db) == DiscogsMedia(db) \cup MusicBrainzMedia(db)
=============================================================================
