----------------------------- MODULE MCGraphFill -----------------------------
(* Small documents of every shape the projection tells apart: ids with and   *)
(* without spaces, the "no entity" 0, one child and several in the raw       *)
(* tracklist, malformed fields, two providers that file a medium apart.      *)
EXTENDS GraphFill

CONSTANTS nat1, nat2

Words == <<"", " ", "0", "1", " 1", "2", "3", "5", "9", "10", "11", "99", "rock", "jazz", "folk", "bop",
           "Ann", " Ann", "_Ann", "Bob", "Mix", "mix", "mixed by", "sung", "tea", "Acme", "ACME", "acme", "lp", "cd",
           "vinyl", "disc", "A", "B1", "member of band", "teacher", "unknown", "production", "vocal",
           "[..]", "{..}">>
MCTexts == {Words[i] : i \in DOMAIN Words}
Same(changes) == [t \in MCTexts |-> IF t \in DOMAIN changes THEN changes[t] ELSE t]
MCBtrim == Same((" " :> "") @@ (" 1" :> "1") @@ (" Ann" :> "Ann"))
MCPadding == Same((" " :> "") @@ (" 1" :> "1") @@ (" Ann" :> "Ann") @@ ("_Ann" :> "Ann"))
MCFolded == Same(("Mix" :> "mix") @@ ("Acme" :> "acme") @@ ("ACME" :> "acme"))
MCNumber == ("0" :> 0) @@ ("1" :> 1) @@ ("2" :> 2) @@ ("3" :> 3) @@ ("5" :> 5) @@ ("9" :> 9)
            @@ ("10" :> 10) @@ ("11" :> 11) @@ ("99" :> 99)
MCCollate == [t \in MCTexts |-> CHOOSE i \in DOMAIN Words : Words[i] = t]
MCRoleCategories == [mix |-> "production", sung |-> "vocal"]
MCLength == [mix |-> 3, sung |-> 4]
MCFragments == [t \in MCTexts |-> CASE t \in {"mix", "mixed by"} -> {"mix"} [] t = "sung" -> {"sung"} [] OTHER -> {}]
MCMappedTypes == ("member of band" :> "MEMBER_OF") @@ ("teacher" :> "TAUGHT")
MCMediumLabels == [lp |-> "A"]

Str(t) == [type |-> "string", text |-> t]
Num(t) == [type |-> "number", text |-> t]
Nil == [type |-> "null"]
Arr(items) == [type |-> "array", text |-> "[..]", items |-> items]
Obj(fields) == [type |-> "object", text |-> "{..}", fields |-> fields]
Id(t) == Obj([id |-> Num(t)])
Credit(name, role, id) == Obj([name |-> Str(name), role |-> Str(role), id |-> Str(id)])
Item(medium, family, qty) == Obj([medium |-> Str(medium), family |-> Str(family), qty |-> qty])
Firm(id, name, role) == Obj([discogs_id |-> id, name |-> Str(name), role |-> Str(role)])

One(artist, genres, role) ==
  Obj([year |-> Str("9"),
       artists |-> Arr(<<Id(artist), Obj([id |-> Str("0")]), Obj([id |-> Str(" 1")])>>),
       labels |-> Arr(<<Id("10")>>), master_id |-> Num("5"),
       genres |-> Arr(genres), styles |-> Arr(<<Str("bop"), Str(""), Nil>>),
       extraartists |-> Arr(<<Credit(" Ann", role, "1"), Credit("_Ann", "mixed by", ""), Credit(" ", "mix", "2")>>),
       companies |-> Obj([items |-> Arr(<<Firm(Num("11"), "ACME", "mix"), Firm(Num("11"), "Acme", "mix"),
                                          Firm(Nil, "Acme", "mix"), Firm(Str("0"), "ACME", "sung"),
                                          Firm(Nil, " ", "mix"), Firm(Num("11"), "Acme", "")>>)]),
       tracklist |-> Obj([track |->
         Obj([position |-> Str("A"),
              extraartists |-> Obj([artist |-> Credit("Bob", "sung", "2")]),
              artists |-> Obj([artist |-> Arr(<<Id("2"), Id("0")>>)]),
              sub_tracks |-> Obj([track |-> Arr(<<Obj([position |-> Str("")]),
                Obj([position |-> Str("B1"), artists |-> Obj([artist |-> Id("1")]),
                     extraartists |-> Arr(<<Credit("Bob", "sung", "3")>>)])>>)])])])])
Two(year) ==
  Obj([year |-> Str(year), artists |-> Arr(<<Id("2")>>), labels |-> Arr(<<Id("10"), Id("11")>>),
       genres |-> Arr(<<Str("jazz")>>), styles |-> Arr(<<Str("bop")>>), tracklist |-> Nil])
Malformed ==
  Obj([artists |-> Arr(<<Obj([id |-> Arr(<<>>)])>>), genres |-> Arr(<<Obj([x |-> Nil]), Nil>>), styles |-> Obj([x |-> Str("bop")]), extraartists |-> Num("1"),
       companies |-> Arr(<<Firm(Num("1"), "Acme", "mix")>>), master_id |-> Str("0"), labels |-> Obj([id |-> Num("1")]),
       tracklist |-> Str("A")])
Media(items) == Obj([items |-> Arr(items)])
TwiceLp == Media(<<Item("lp", "vinyl", Num("2")), Item("lp", "vinyl", Str("2")), Item("cd", "disc", Num("99"))>>)

MBRow(id) == [discogs |-> id, media |-> Nil]
Rel(source, target, type) == [source |-> source, source_type |-> "artist", target |-> target,
                              target_type |-> "artist", type |-> type]
Row(id) == [id |-> 1, release_id |-> id]
Alias(id, native, open) ==
  [provider |-> "discogs", kind |-> "label", external_id |-> id, native_id |-> native, open |-> open]
Base ==
  [releases |-> ("1" :> One("2", <<Str("rock")>>, "mix")) @@ ("2" :> Two("5")),
   media |-> ("1" :> TwiceLp) @@ ("2" :> Nil),
   masters |-> ("5" :> Obj([genres |-> Arr(<<Str("rock"), Str("jazz")>>), styles |-> Arr(<<Str("bop")>>),
                            artists |-> Arr(<<Id("1")>>), year |-> Num("5")])),
   artists |-> ("1" :> Obj([members |-> Arr(<<Id("2")>>), aliases |-> Arr(<<Id("3")>>)]))
               @@ ("2" :> Obj([groups |-> Arr(<<Id("1"), Id("3")>>)])),
   labels |-> ("10" :> Nil) @@ ("11" :> Nil),
   mb |-> [artist |-> [m1 |-> MBRow("1"), m2 |-> MBRow("2"), m3 |-> MBRow("2"), m4 |-> MBRow(Null)],
           label |-> [l1 |-> MBRow("10")],
           release |-> [b1 |-> [discogs |-> "1", media |-> Media(<<Item("lp", "disc", Nil)>>)],
                        b2 |-> [discogs |-> "3", media |-> TwiceLp]]] @@ ("release-group" :> [g1 |-> MBRow("5")]),
   relationships |-> {Rel("m2", "m1", "member of band"), Rel("m3", "m1", "member of band"),
                      Rel("m2", "m3", "member of band"), Rel("m1", "m2", "teacher"),
                      Rel("m4", "m1", "member of band"), Rel("m9", "m1", "member of band")},
   aliases |-> {Alias("10", nat1, FALSE), Alias("10", nat2, TRUE)},
   collections |-> {Row("1"), Row("3")}, wantlists |-> {Row("1")}]

MCCatalogs ==
  [base |-> Base,
   revised |-> [Base EXCEPT !.releases["1"] = One("3", <<Str("folk")>>, "mix")],
   recredited |-> [Base EXCEPT !.releases["1"] = One("2", <<Str("rock")>>, "sung"),
                               !.artists["1"] = Obj([members |-> Nil])],
   reunited |-> [Base EXCEPT !.relationships = {Rel("m3", "m1", "member of band")}],
   overflowing |-> [Base EXCEPT !.releases["2"] = Two("99")],
   unlabelled |-> [Base EXCEPT !.labels = "10" :> Base.labels["10"]],
   malformed |-> [Base EXCEPT !.releases["2"] = Malformed, !.media["1"] = Malformed]]
RECURSIVE Parts(_)
Parts(v) ==
  {v} \cup CASE v.type = "array" -> UNION {Parts(v.items[i]) : i \in DOMAIN v.items}
             [] v.type = "object" -> UNION {Parts(v.fields[k]) : k \in DOMAIN v.fields}
             [] OTHER -> {}
MediaColumns(db) == Range(db.media) \cup {db.mb["release"][m].media : m \in DOMAIN db.mb["release"]}
MCJson ==
  UNION {UNION {Parts(v) : v \in Range(db.releases) \cup Range(db.masters) \cup Range(db.artists) \cup MediaColumns(db)} :
           db \in {MCCatalogs[c] : c \in DOMAIN MCCatalogs}}
MCRevisions == {<<"base", "revised">>, <<"base", "recredited">>, <<"base", "reunited">>, <<"unlabelled", "base">>}
MCStarts == {<<"base", Null>>, <<"base", "revised">>, <<"overflowing", Null>>, <<"malformed", "base">>,
             <<"unlabelled", Null>>}
=============================================================================
