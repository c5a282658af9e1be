------------------------ MODULE IdentityLedgerProofs ------------------------
(***************************************************************************)
(* Type correctness of the Identity Ledger, and the safety of its density, *)
(* its unique index and the agreement of its tables, for every catalog.    *)
(***************************************************************************)
EXTENDS IdentityLedger, FiniteSetTheorems, TLAPS

Events == Items \X Releases \X Event

\* What counting rows needs besides their types.
Finite ==
  /\ IsFiniteSet(aliased)
  /\ IsFiniteSet(ledger.items)
  /\ IsFiniteSet(run.next.items)

TInv == TypeOK /\ Finite

(* An item resolves to an item of its kind. *)
LEMMA ResolveType ==
  ASSUME SourcesOK, NEW i \in Items
  PROVE  /\ Resolve(i) \in Items
         /\ i \in Releases => Resolve(i) \in Releases
         /\ i \in Works => Resolve(i) \in Works
<1>1. CASE \E s \in Open : s[1] = i
  <2>1. PICK p \in Open : p = CHOOSE s \in Open : s[1] = i
    BY <1>1
  <2>2. p[1] = i /\ Resolve(i) = p[2]
    BY <1>1, <2>1 DEF Resolve
  <2>3. p \in (Releases \X Releases) \cup (Works \X Works)
    BY DEF Open, SourcesOK
  <2>. QED BY <2>2, <2>3, ConstantsDistinct DEF Items
<1>2. CASE ~\E s \in Open : s[1] = i
  BY <1>2 DEF Resolve
<1>. QED BY <1>1, <1>2

(* The events of a set of items are events of releases among them. *)
LEMMA SideEventsType ==
  ASSUME SourcesOK, NEW stored \in SUBSET (Items \X (Nat \ {0})), NEW S \in SUBSET Items,
         NEW e \in SideEvents(stored, S)
  PROVE  /\ e[1] \in S \cap Releases
         /\ e[2] \in Event
         /\ e = <<e[1], e[2]>>
<1>1. CASE \E r \in stored : r[1] \in S \cap Releases /\ e = <<r[1], <<"alias", r[2]>>>>
  BY <1>1 DEF Event
<1>2. CASE \E k \in base["link"] : holder[k] \in S /\ e = <<holder[k], <<"link", k>>>>
  <2>1. PICK k \in base["link"] : holder[k] \in S /\ e = <<holder[k], <<"link", k>>>>
    BY <1>2
  <2>2. k \in Keys /\ holder[k] \in Releases
    BY <2>1 DEF SourcesOK, Items
  <2>. QED BY <2>1, <2>2 DEF Event
<1>3. CASE /\ e \in S \X ({"opened", "reverted"} \X (Releases \X Releases))
           /\ e[1] \in {e[2][2][1], e[2][2][2]}
  BY <1>3 DEF Event
<1>. QED BY <1>1, <1>2, <1>3 DEF SideEvents

(* The rows written for a set of members are rows of the editions they are members of. *)
LEMMA EditionRowsType ==
  ASSUME SourcesOK, NEW stored \in SUBSET (Items \X (Nat \ {0})), NEW S \in SUBSET Items,
         NEW edition \in [S -> Items]
  PROVE  /\ EditionRows(stored, edition) \subseteq Events
         /\ \A e \in EditionRows(stored, edition) : \E i \in S : e[1] = edition[i]
<1>. SUFFICES ASSUME NEW f \in EditionRows(stored, edition)
              PROVE  f \in Events /\ \E i \in S : f[1] = edition[i]
  OBVIOUS
<1>1. PICK e \in SideEvents(stored, S) : f = <<edition[e[1]], e[1], e[2]>>
  BY DEF EditionRows
<1>2. e[1] \in S \cap Releases /\ e[2] \in Event
  BY SideEventsType
<1>. QED BY <1>1, <1>2 DEF Events

(* Parent rows are of the editions asked for, and name works. *)
LEMMA ParentRowsType ==
  ASSUME SourcesOK, NEW E \in SUBSET Items
  PROVE  ParentRows(E) \in SUBSET (E \X Works)
<1>. SUFFICES ASSUME NEW p \in ParentRows(E)
              PROVE  p \in E \X Works
  OBVIOUS
<1>1. PICK h \in E \X Keys : /\ parent[h[2]] # NoMaster /\ holder[parent[h[2]]] # NoItem
                             /\ p = <<h[1], Resolve(holder[parent[h[2]]])>>
  BY DEF ParentRows
<1>2. parent[h[2]] \in Masters
  BY <1>1 DEF SourcesOK
<1>3. holder[parent[h[2]]] \in Works
  BY <1>1, <1>2 DEF SourcesOK, Items
<1>4. Resolve(holder[parent[h[2]]]) \in Works
  BY <1>3, ResolveType DEF Items
<1>. QED BY <1>1, <1>4

(* What the log names is what the catalog holds. *)
LEMMA DirtyType ==
  ASSUME SourcesOK
  PROVE  /\ \A rows : DirtyItems(rows) \subseteq Items
         /\ \A dirty \in SUBSET Items : DirtyEditions(dirty) \subseteq Items
         /\ \A rows, dirty : DirtyMasters(rows, dirty) \subseteq Masters
         /\ \A editions \in SUBSET Items : \A masters :
              ParentEditions(editions, masters) \subseteq Items
<1>1. \A rows : DirtyItems(rows) \subseteq Items
  BY DEF DirtyItems, SourcesOK
<1>2. \A dirty \in SUBSET Items : DirtyEditions(dirty) \subseteq Items
  BY ResolveType DEF DirtyEditions
<1>3. \A rows, dirty : DirtyMasters(rows, dirty) \subseteq Masters
  BY DEF DirtyMasters
<1>4. ASSUME NEW editions \in SUBSET Items, NEW masters
      PROVE  ParentEditions(editions, masters) \subseteq Items
  <2>. DEFINE reached == {holder[k] : k \in {k \in Keys : parent[k] \in masters /\ holder[k] # NoItem}}
  <2>1. reached \subseteq Items
    BY DEF SourcesOK
  <2>2. \A i \in reached : Resolve(i) \in Items
    BY <2>1, ResolveType
  <2>3. ParentEditions(editions, masters) = editions \cup reached \cup {Resolve(i) : i \in reached}
    BY DEF ParentEditions
  <2>. QED BY <2>1, <2>2, <2>3
<1>. QED BY <1>1, <1>2, <1>3, <1>4

(* Every member of a dirty edition is an item, and its edition is dirty. *)
LEMMA MembersType ==
  ASSUME SourcesOK, NEW editions \in SUBSET Items
  PROVE  \E S \in SUBSET Items : Members(editions) \in [S -> Items] /\ Members(editions) \in [S -> editions]
<1>. DEFINE candidates == editions \cup {s[1] : s \in {s \in Open : s[2] \in editions}}
            S == {i \in candidates : Resolve(i) \in editions}
<1>1. candidates \subseteq Items
  BY DEF Open, SourcesOK, Items
<1>2. Members(editions) = [i \in S |-> Resolve(i)]
  BY DEF Members
<1>3. Members(editions) \in [S -> editions]
  BY <1>2
<1>4. Members(editions) \in [S -> Items]
  BY <1>3
<1>5. S \in SUBSET Items
  BY <1>1
<1>. QED BY <1>3, <1>4, <1>5

(* The base events of every kind can be counted. *)
LEMMA BaseFinite ==
  ASSUME SourcesOK
  PROVE  \A c \in Counted : IsFiniteSet(base[c]) /\ Cardinality(base[c]) \in Nat
<1>1. IsFiniteSet(Items) /\ IsFiniteSet(Keys)
  BY ConstantsDistinct
<1>2. IsFiniteSet(Items \X Items)
  BY <1>1, FS_Product
<1>3. IsFiniteSet(Keys \cup (Items \X Items))
  BY <1>1, <1>2, FS_Union
<1>4. \A c \in Counted : base[c] \subseteq Keys \cup (Items \X Items)
  BY DEF SourcesOK
<1>5. \A c \in Counted : IsFiniteSet(base[c])
  BY <1>3, <1>4, FS_Subset
<1>. QED BY <1>5, FS_CardinalityType

-----------------------------------------------------------------------------
(* Type correctness. *)

(* The state of a refresh that is not running. *)
LEMMA IdleType == Idle \in Runs /\ Idle.next = Empty /\ Empty \in Tables /\ NoDelta \in [Counted -> Int]
<1>1. NoDelta \in [Counted -> Int] /\ Empty \in Tables
  BY DEF NoDelta, Empty, Tables
<1>2. [i \in {} |-> i] \in UNION {[S -> Items] : S \in SUBSET Items}
  <2>1. [i \in {} |-> i] \in [{} -> Items]
    OBVIOUS
  <2>. QED BY <2>1
<1>. QED BY <1>1, <1>2 DEF Idle, Runs, Steps

(* Init establishes the types: an empty ledger, or the full recompute, is well typed. *)
LEMMA TypeInit == Init => TInv
<1>. SUFFICES ASSUME Init PROVE TInv
  OBVIOUS
<1>0. /\ holder \in Loaded /\ parent \in [Keys -> Masters]
      /\ log = {} /\ delta = NoDelta /\ run = Idle /\ changes = 0 /\ fails = 0
      /\ \/ captured = {} /\ refreshed = FALSE /\ ledger = Empty
         \/ captured = Sources /\ refreshed = TRUE /\ ledger = Recomputed
  BY DEF Init
<1>1. IsFiniteSet(aliased) /\ aliased \subseteq Items \X (Nat \ {0})
  <2>1. IsFiniteSet({1, 2})
    <3>1. IsFiniteSet({} \cup {1})
      BY FS_EmptySet, FS_AddElement
    <3>2. IsFiniteSet(({} \cup {1}) \cup {2})
      BY <3>1, FS_AddElement
    <3>3. ({} \cup {1}) \cup {2} = {1, 2}
      OBVIOUS
    <3>. QED BY <3>2, <3>3
  <2>2. IsFiniteSet(Items \X {1, 2})
    BY <2>1, FS_Product, ConstantsDistinct
  <2>. QED BY <2>2 DEF Init
<1>2. /\ base \in [Counted -> SUBSET (Keys \cup (Items \X Items))]
      /\ base["link"] = {} /\ base["reverted"] = {}
      /\ base["opened"] \subseteq Releases \X Releases
  <2>1. PICK s \in {{}} \cup {{<<a, b>>} : a, b \in Releases} :
          base = [c \in Counted |-> IF c = "opened" THEN s ELSE {}]
    BY DEF Init
  <2>2. s \subseteq Releases \X Releases
    OBVIOUS
  <2>. QED BY <2>1, <2>2 DEF Counted, Items
<1>3. /\ holder \in [Keys \cup Masters -> Items \cup {NoItem}]
      /\ \A k \in Keys : holder[k] \notin Works
      /\ \A m \in Masters : holder[m] \notin Releases
      /\ parent \in [Keys -> Masters \cup {NoMaster}]
  BY <1>0, ConstantsDistinct
<1>4. NoDelta \in [Counted -> Int] /\ Empty \in Tables /\ Empty.items = {}
  BY IdleType DEF Empty
<1>5. Idle \in Runs /\ Idle.next = Empty
  BY IdleType
<1>6. SourcesOK
  BY <1>1, <1>2, <1>3 DEF SourcesOK
<1>7. Recomputed \in Tables /\ Recomputed.items = aliased
  <2>. DEFINE id == [i \in Releases |-> Resolve(i)]
              events == EditionRows(aliased, id)
              parents == ParentRows(Owners(events))
              summary == [w \in Works |-> Summary(w, events, parents)]
              density == [c \in Kinds |-> Cardinality(IF c = "alias" THEN aliased ELSE base[c])]
  <2>1. Releases \in SUBSET Items /\ id \in [Releases -> Items]
    BY <1>6, ResolveType DEF Items
  <2>2. events \in SUBSET Events
    BY <1>1, <1>6, <2>1, EditionRowsType
  <2>3. Owners(events) \in SUBSET Items
    BY <2>2 DEF Owners, Events
  <2>4. parents \in SUBSET (Items \X Works)
    BY <1>6, <2>3, ParentRowsType
  <2>5. summary \in [Works -> SUBSET Events]
    BY <2>2 DEF Summary
  <2>6. density \in [Kinds -> Int]
    <3>1. Cardinality(aliased) \in Int
      BY <1>1, FS_CardinalityType
    <3>2. \A c \in Counted : Cardinality(base[c]) \in Int
      BY <1>6, BaseFinite
    <3>. QED BY <3>1, <3>2 DEF Kinds
  <2>7. Recomputed = [items |-> aliased, events |-> events, parents |-> parents,
                      summary |-> summary, density |-> density]
    BY DEF Recomputed
  <2>. HIDE DEF events, parents, summary, density
  <2>. QED BY <1>1, <2>2, <2>4, <2>5, <2>6, <2>7 DEF Tables, Events
<1>8. ledger \in Tables /\ IsFiniteSet(ledger.items)
  BY <1>0, <1>1, <1>4, <1>7, FS_EmptySet
<1>9. run \in Runs /\ IsFiniteSet(run.next.items)
  BY <1>0, <1>4, <1>5, FS_EmptySet
<1>10. captured \subseteq Sources /\ refreshed \in BOOLEAN /\ log \subseteq LogRow
  BY <1>0
<1>11. changes \in 0..MaxChanges /\ fails \in 0..MaxFails
  BY <1>0, ConstantsDistinct
<1>12. delta \in [Counted -> Int]
  BY <1>0, <1>4
<1>13. TypeOK
  BY <1>6, <1>8, <1>9, <1>10, <1>11, <1>12 DEF TypeOK
<1>. QED
  BY <1>1, <1>8, <1>9, <1>13 DEF TInv, Finite

(* What a transaction's triggers append is log rows, and its deltas are integers. *)
LEMMA CaptureType ==
  ASSUME TypeOK
  PROVE  /\ \A source, rows : Captured(source, rows) \subseteq rows
         /\ \A keys \in SUBSET (Keys \cup Masters), items \in SUBSET Items : AliasLogged(keys, items) \subseteq LogRow
         /\ \A i \in Items : Item(i) \in LogRow
         /\ \A k \in Keys \cup Masters : Key(k) \in LogRow
<1>1. \A source, rows : Captured(source, rows) \subseteq rows
  BY DEF Captured
<1>2. /\ \A i \in Items : Item(i) \in LogRow
      /\ \A k \in Keys \cup Masters : Key(k) \in LogRow
  BY DEF LogRow
<1>3. \A keys \in SUBSET (Keys \cup Masters), items \in SUBSET Items : AliasLogged(keys, items) \subseteq LogRow
  BY <1>2 DEF AliasLogged
<1>. QED BY <1>1, <1>2, <1>3

(* A capture statement adds a whole number to the count of one kind. *)
LEMMA DeltaType ==
  ASSUME TypeOK, NEW source, NEW c \in Counted, NEW n \in Int
  PROVE  CapturedDelta(source, c, n) \in [Counted -> Int]
BY DEF CapturedDelta, TypeOK

(* A writer's transaction keeps the types of the sources and of the logs. *)
LEMMA TypeWriter == TInv /\ Writer => TInv'
<1>. SUFFICES ASSUME TInv, Writer PROVE TInv'
  OBVIOUS
<1>0. TypeOK /\ SourcesOK /\ Finite
  BY DEF TInv, TypeOK
<1>. DEFINE LogsOK == log' \subseteq LogRow /\ delta' \in [Counted -> Int]
            AliasOK == IsFiniteSet(aliased') /\ aliased' \in SUBSET (Items \X (Nat \ {0}))
<1>1. ASSUME Write, SourcesOK', LogsOK, AliasOK
      PROVE  TInv'
  <2>1. /\ UNCHANGED <<captured, refreshed, ledger, run, fails>>
        /\ changes' \in 0..MaxChanges
    BY <1>0, <1>1, ConstantsDistinct DEF Write, TypeOK
  <2>2. TypeOK'
    BY <1>0, <1>1, <2>1 DEF TypeOK
  <2>. QED BY <1>0, <1>1, <2>1, <2>2 DEF TInv, Finite
<1>2. ASSUME NEW i \in Items
      PROVE  /\ NextEvent(i) \in Items \X (Nat \ {0})
             /\ IsFiniteSet(aliased \cup {NextEvent(i)})
  <2>1. IsFiniteSet({r \in aliased : r[1] = i})
    BY <1>0, FS_Subset, {r \in aliased : r[1] = i} \in SUBSET aliased DEF Finite
  <2>2. Cardinality({r \in aliased : r[1] = i}) \in Nat
    BY <2>1, FS_CardinalityType
  <2>3. NextEvent(i) \in Items \X (Nat \ {0})
    BY <2>2 DEF NextEvent
  <2>4. IsFiniteSet(aliased \cup {NextEvent(i)})
    BY <1>0, FS_AddElement DEF Finite
  <2>. QED BY <2>3, <2>4
<1>3. ASSUME NEW k \in Keys \cup Masters, NEW i \in Items, OpenAlias(k, i)
      PROVE  TInv'
  <2>1. LogsOK
    BY <1>0, <1>3, CaptureType DEF OpenAlias, TypeOK
  <2>2. AliasOK
    BY <1>0, <1>2, <1>3 DEF OpenAlias, SourcesOK
  <2>3. holder' \in [Keys \cup Masters -> Items \cup {NoItem}]
    BY <1>0, <1>3 DEF OpenAlias, SourcesOK
  <2>4. \A x \in Keys : holder'[x] \notin Works
    BY <1>0, <1>3, ConstantsDistinct DEF OpenAlias, SourcesOK
  <2>5. \A m \in Masters : holder'[m] \notin Releases
    BY <1>0, <1>3, ConstantsDistinct DEF OpenAlias, SourcesOK
  <2>6. SourcesOK'
    BY <1>0, <1>3, <2>2, <2>3, <2>4, <2>5 DEF OpenAlias, SourcesOK
  <2>. QED BY <1>1, <1>3, <2>1, <2>2, <2>6 DEF OpenAlias
<1>4. ASSUME NEW k \in Keys \cup Masters, CloseAlias(k)
      PROVE  TInv'
  <2>0. holder[k] \in Items
    BY <1>0, <1>4 DEF CloseAlias, SourcesOK
  <2>1. LogsOK
    BY <1>0, <1>4, <2>0, CaptureType DEF CloseAlias, TypeOK
  <2>2. AliasOK
    BY <1>0, <1>2, <1>4, <2>0 DEF CloseAlias, SourcesOK
  <2>3. SourcesOK'
    BY <1>0, <1>4, <2>2, ConstantsDistinct DEF CloseAlias, SourcesOK, Items
  <2>. QED BY <1>1, <1>4, <2>1, <2>2, <2>3 DEF CloseAlias
<1>5. ASSUME NEW a \in Items, NEW b \in Items, NEW keys \in SUBSET Held(a), MoveAliases(keys, a, b),
             (a \in Releases) <=> (b \in Releases)
      PROVE  /\ AliasOK
             /\ log' \subseteq LogRow
             /\ holder' \in [Keys \cup Masters -> Items \cup {NoItem}]
             /\ \A k \in Keys : holder'[k] \notin Works
             /\ \A m \in Masters : holder'[m] \notin Releases
  <2>1. keys \subseteq Keys \cup Masters /\ \A k \in keys : holder[k] = a
    BY <1>0, <1>5 DEF Held, SourcesOK
  <2>2. AliasOK
    <3>1. IsFiniteSet(aliased \cup {<<b, 1>>})
      BY <1>0, FS_AddElement DEF Finite
    <3>2. aliased' = aliased \/ aliased' = aliased \cup {<<b, 1>>}
      BY <1>5 DEF MoveAliases
    <3>3. <<b, 1>> \in Items \X (Nat \ {0})
      OBVIOUS
    <3>4. CASE aliased' = aliased
      BY <1>0, <3>4 DEF SourcesOK, Finite
    <3>5. CASE aliased' = aliased \cup {<<b, 1>>}
      BY <1>0, <3>1, <3>3, <3>5 DEF SourcesOK
    <3>. QED BY <3>2, <3>4, <3>5
  <2>3. /\ Captured("supersessions", {Item(a), Item(b)}) \subseteq LogRow
        /\ Captured("aliases", AliasLogged(keys, {a, b})) \subseteq LogRow
    BY <1>0, <2>1, CaptureType
  <2>4. log' \subseteq LogRow
    BY <1>0, <1>5, <2>3 DEF MoveAliases, TypeOK
  <2>5. /\ DOMAIN holder = Keys \cup Masters
        /\ holder' = [k \in Keys \cup Masters |-> IF k \in keys THEN b ELSE holder[k]]
    BY <1>0, <1>5 DEF MoveAliases, SourcesOK
  <2>6. holder' \in [Keys \cup Masters -> Items \cup {NoItem}]
    BY <1>0, <2>5 DEF SourcesOK
  <2>7. \A k \in Keys : holder'[k] \notin Works
    BY <1>0, <1>5, <2>1, <2>5, ConstantsDistinct DEF SourcesOK, Items
  <2>8. \A m \in Masters : holder'[m] \notin Releases
    BY <1>0, <1>5, <2>1, <2>5, ConstantsDistinct DEF SourcesOK, Items
  <2>. QED BY <2>2, <2>4, <2>6, <2>7, <2>8
<1>6. ASSUME NEW a \in Items, NEW b \in Items, Supersede(a, b)
      PROVE  TInv'
  <2>1. PICK keys \in SUBSET Held(a) : MoveAliases(keys, a, b)
    BY <1>6 DEF Supersede
  <2>2. (a \in Releases) <=> (b \in Releases)
    BY <1>6 DEF Supersede
  <2>3. LogsOK
    <3>1. CapturedDelta("supersessions", "opened", 1) \in [Counted -> Int]
      BY <1>0, DeltaType DEF Counted
    <3>. QED BY <1>5, <1>6, <2>1, <2>2, <3>1 DEF Supersede
  <2>4. <<a, b>> \in (Releases \X Releases) \cup (Works \X Works)
    BY <2>2 DEF Items
  <2>5. SourcesOK'
    BY <1>0, <1>5, <1>6, <2>1, <2>2, <2>4 DEF Supersede, SourcesOK, Counted
  <2>. QED BY <1>1, <1>5, <1>6, <2>1, <2>2, <2>3, <2>5 DEF Supersede
<1>7. ASSUME NEW a \in Items, NEW b \in Items, Revert(a, b)
      PROVE  TInv'
  <2>1. PICK keys \in SUBSET Held(b) : MoveAliases(keys, b, a)
    BY <1>7 DEF Revert
  <2>2. <<a, b>> \in base["opened"] /\ ((a \in Releases) <=> (b \in Releases))
    BY <1>0, <1>7, ConstantsDistinct DEF Revert, Open, SourcesOK
  <2>3. LogsOK
    <3>1. CapturedDelta("supersessions", "reverted", 1) \in [Counted -> Int]
      BY <1>0, DeltaType DEF Counted
    <3>. QED BY <1>5, <1>7, <2>1, <2>2, <3>1 DEF Revert
  <2>5. SourcesOK'
    BY <1>0, <1>5, <1>7, <2>1, <2>2 DEF Revert, SourcesOK, Counted
  <2>. QED BY <1>1, <1>5, <1>7, <2>1, <2>2, <2>3, <2>5 DEF Revert
<1>8. ASSUME NEW k \in Keys, Link(k) \/ Unlink(k)
      PROVE  TInv'
  <2>1. LogsOK
    <3>1. /\ CapturedDelta("links", "link", 1) \in [Counted -> Int]
          /\ CapturedDelta("links", "link", -1) \in [Counted -> Int]
      BY <1>0, DeltaType DEF Counted
    <3>. QED BY <1>0, <1>8, <3>1, CaptureType DEF Link, Unlink, TypeOK
  <2>2. SourcesOK' /\ AliasOK
    BY <1>0, <1>8 DEF Link, Unlink, SourcesOK, Finite, Counted
  <2>. QED BY <1>1, <1>8, <2>1, <2>2 DEF Link, Unlink
<1>9. ASSUME NEW k \in Keys, NEW m \in Masters \cup {NoMaster}, SetParent(k, m)
      PROVE  TInv'
  <2>1. LogsOK
    BY <1>0, <1>9, CaptureType DEF SetParent, TypeOK
  <2>2. SourcesOK' /\ AliasOK
    BY <1>0, <1>9 DEF SetParent, SourcesOK, Finite
  <2>. QED BY <1>1, <1>9, <2>1, <2>2 DEF SetParent
<1>10. ASSUME TruncateLinks
       PROVE  TInv'
  <2>1. LogsOK
    BY <1>0, <1>10, CaptureType DEF TruncateLinks, TypeOK, LogRow
  <2>2. SourcesOK' /\ AliasOK
    BY <1>0, <1>10 DEF TruncateLinks, SourcesOK, Finite, Counted
  <2>. QED BY <1>1, <1>10, <2>1, <2>2 DEF TruncateLinks
<1>11. ASSUME RequestRebuild
       PROVE  TInv'
  <2>1. LogsOK
    BY <1>0, <1>11 DEF RequestRebuild, TypeOK, LogRow
  <2>2. SourcesOK' /\ AliasOK
    BY <1>0, <1>11 DEF RequestRebuild, SourcesOK, Finite, sources
  <2>. QED BY <1>1, <1>11, <2>1, <2>2 DEF RequestRebuild
<1>. QED
  BY <1>3, <1>4, <1>6, <1>7, <1>8, <1>9, <1>10, <1>11 DEF Writer

(* A refresh step keeps the types of its temporary tables and of the rows it writes. *)
LEMMA TypeRefresh == TInv /\ (Refresh \/ Fail) => TInv'
<1>. SUFFICES ASSUME TInv, Refresh \/ Fail PROVE TInv'
  OBVIOUS
<1>0. TypeOK /\ SourcesOK /\ Finite /\ run \in Runs /\ run.next \in Tables
  BY DEF TInv, TypeOK, Runs
<1>1. ASSUME UNCHANGED <<sources, captured, changes>>, fails' \in 0..MaxFails,
             log' \subseteq LogRow, delta' \in [Counted -> Int],
             refreshed' \in BOOLEAN, ledger' \in Tables, IsFiniteSet(ledger'.items),
             run' \in Runs, IsFiniteSet(run'.next.items)
      PROVE  TInv'
  <2>1. SourcesOK'
    BY <1>0, <1>1 DEF SourcesOK, sources
  <2>2. TypeOK'
    BY <1>0, <1>1, <2>1 DEF TypeOK
  <2>. QED BY <1>0, <1>1, <2>2 DEF TInv, Finite, sources
<1>2. ASSUME NEW at, Step(at, run'), UNCHANGED <<refreshed, ledger>>,
             log' \subseteq LogRow, delta' \in [Counted -> Int],
             run' \in Runs, IsFiniteSet(run'.next.items)
      PROVE  TInv'
  BY <1>0, <1>1, <1>2 DEF Step, TypeOK, Finite
<1>3. CASE Begin
  <2>1. run' = [run EXCEPT !.step = "drain", !.next = ledger]
    BY <1>3 DEF Begin, Step
  <2>2. run' \in Runs /\ run'.next = ledger
    BY <1>0, <2>1 DEF Runs, TypeOK, Steps
  <2>. QED BY <1>0, <1>2, <1>3, <2>2 DEF Begin, Step, TypeOK, Finite, logs
<1>4. CASE Drain
  <2>1. run' = [run EXCEPT !.step = "choose", !.changed = log]
    BY <1>4 DEF Drain, Step
  <2>2. run' \in Runs /\ run'.next = run.next
    BY <1>0, <2>1 DEF Runs, TypeOK, Steps
  <2>. QED BY <1>0, <1>2, <1>4, <2>2 DEF Drain, Step, TypeOK, Finite
<1>5. CASE Choose
  <2>1. PICK s \in {"rebuild items", "deltas", "commit"} :
          run' = [run EXCEPT !.dirty = DirtyItems(run.changed), !.step = s]
    BY <1>5 DEF Choose, Step
  <2>2. run' \in Runs /\ run'.next = run.next
    BY <1>0, <2>1, DirtyType DEF Runs, Steps
  <2>. QED BY <1>0, <1>2, <1>5, <2>2 DEF Choose, Step, TypeOK, Finite, logs
<1>6. CASE DrainDeltas
  <2>1. run' = [run EXCEPT !.step = "items", !.drained = delta]
    BY <1>6 DEF DrainDeltas, Step
  <2>2. run' \in Runs /\ run'.next = run.next
    BY <1>0, <2>1 DEF Runs, TypeOK, Steps
  <2>. QED BY <1>0, <1>2, <1>6, <2>2 DEF DrainDeltas, Step, TypeOK, Finite, NoDelta
<1>7. CASE MaintainItems
  <2>. DEFINE old == {r \in run.next.items : r[1] \in run.dirty}
              new == {r \in aliased : r[1] \in run.dirty}
              fold == [c \in Kinds |-> run.next.density[c] +
                        (IF c = "alias" THEN Cardinality(new) - Cardinality(old) ELSE run.drained[c])]
              items == (run.next.items \ old) \cup new
  <2>1. /\ IsFiniteSet(old) /\ IsFiniteSet(new)
        /\ Cardinality(old) \in Int /\ Cardinality(new) \in Int
    <3>1. old \in SUBSET run.next.items /\ new \in SUBSET aliased
      OBVIOUS
    <3>2. IsFiniteSet(old) /\ IsFiniteSet(new)
      BY <1>0, <3>1, FS_Subset DEF Finite
    <3>. QED BY <3>2, FS_CardinalityType
  <2>2. IsFiniteSet(items)
    BY <1>0, <2>1, FS_Union, FS_Difference DEF Finite
  <2>3. fold \in [Kinds -> Int]
    <3>1. \A c \in Counted : run.next.density[c] + run.drained[c] \in Int
      BY <1>0 DEF Runs, Tables, Kinds
    <3>2. run.next.density["alias"] + (Cardinality(new) - Cardinality(old)) \in Int
      BY <1>0, <2>1 DEF Tables, Kinds
    <3>3. \A c \in Kinds : fold[c] \in Int
      BY <3>1, <3>2 DEF Kinds
    <3>. QED BY <3>3
  <2>4. items \in SUBSET (Items \X (Nat \ {0}))
    BY <1>0 DEF Tables, SourcesOK
  <2>5. run' = [run EXCEPT !.step = "editions", !.next.items = items, !.next.density = fold]
    BY <1>7 DEF MaintainItems, Step
  <2>. HIDE DEF old, new, fold, items
  <2>6. run' \in Runs /\ run'.next.items = items
    BY <1>0, <2>3, <2>4, <2>5 DEF Runs, Tables, Steps
  <2>. QED BY <1>0, <1>2, <1>7, <2>2, <2>6 DEF MaintainItems, Step, TypeOK, logs
<1>8. CASE ChooseEditions
  <2>1. run' = [run EXCEPT !.step = "members", !.editions = DirtyEditions(run.dirty)]
    BY <1>8 DEF ChooseEditions, Step
  <2>2. run' \in Runs /\ run'.next = run.next
    BY <1>0, <2>1, DirtyType DEF Runs, Steps
  <2>. QED BY <1>0, <1>2, <1>8, <2>2 DEF ChooseEditions, Step, TypeOK, Finite, logs
<1>9. CASE ChooseMembers
  <2>1. run' = [run EXCEPT !.step = "events", !.member = Members(run.editions)]
    BY <1>9 DEF ChooseMembers, Step
  <2>2. Members(run.editions) \in UNION {[S -> Items] : S \in SUBSET Items}
    BY <1>0, MembersType DEF Runs
  <2>3. run' \in Runs /\ run'.next = run.next
    BY <1>0, <2>1, <2>2 DEF Runs, Steps
  <2>. QED BY <1>0, <1>2, <1>9, <2>3 DEF ChooseMembers, Step, TypeOK, Finite, logs
<1>10. CASE MaintainEvents
  <2>. DEFINE events == Kept(run.editions) \cup Written
  <2>1. run' = [run EXCEPT !.step = "masters", !.next.events = events]
    BY <1>10 DEF MaintainEvents, Step
  <2>2. PICK S \in SUBSET Items : run.member \in [S -> Items]
    BY <1>0 DEF Runs
  <2>3. run.next.items \in SUBSET (Items \X (Nat \ {0}))
    BY <1>0 DEF Tables
  <2>4. Written \subseteq Events
    BY <1>0, <2>2, <2>3, EditionRowsType DEF Written
  <2>5. events \in SUBSET Events
    BY <1>0, <2>4 DEF Kept, Tables, Events
  <2>. HIDE DEF events
  <2>6. run' \in Runs /\ run'.next.items = run.next.items
    BY <1>0, <2>1, <2>5 DEF Runs, Tables, Steps, Events
  <2>. QED BY <1>0, <1>2, <1>10, <2>6 DEF MaintainEvents, Step, TypeOK, Finite, logs
<1>11. CASE ChooseMasters
  <2>1. run' = [run EXCEPT !.step = "parent editions", !.masters = DirtyMasters(run.changed, run.dirty)]
    BY <1>11 DEF ChooseMasters, Step
  <2>2. run' \in Runs /\ run'.next = run.next
    BY <1>0, <2>1, DirtyType DEF Runs, Steps
  <2>. QED BY <1>0, <1>2, <1>11, <2>2 DEF ChooseMasters, Step, TypeOK, Finite, logs
<1>12. CASE ChooseParentEditions
  <2>1. run' = [run EXCEPT !.step = "parents", !.editions = ParentEditions(run.editions, run.masters)]
    BY <1>12 DEF ChooseParentEditions, Step
  <2>2. ParentEditions(run.editions, run.masters) \subseteq Items
    BY <1>0, DirtyType DEF Runs
  <2>3. run' \in Runs /\ run'.next = run.next
    BY <1>0, <2>1, <2>2 DEF Runs, Steps
  <2>. QED BY <1>0, <1>2, <1>12, <2>3 DEF ChooseParentEditions, Step, TypeOK, Finite, logs
<1>13. CASE MaintainParents
  <2>. DEFINE moved == {p \in run.next.parents : p[1] \in run.editions}
              written == ParentRows(run.editions \cap Owners(run.next.events))
              parents == (run.next.parents \ moved) \cup written
              works == {p[2] : p \in moved \cup written}
              summary == [w \in Works |-> IF w \in works THEN Summary(w, run.next.events, parents)
                                                          ELSE run.next.summary[w]]
  <2>1. run' = [run EXCEPT !.step = "commit", !.next.parents = parents, !.next.summary = summary]
    BY <1>13 DEF MaintainParents, Step
  <2>2. run.editions \cap Owners(run.next.events) \in SUBSET Items
    BY <1>0 DEF Runs
  <2>3. parents \in SUBSET (Items \X Works)
    BY <1>0, <2>2, ParentRowsType DEF Tables
  <2>4. summary \in [Works -> SUBSET Events]
    BY <1>0 DEF Tables, Summary, Events
  <2>. HIDE DEF parents, summary
  <2>5. run' \in Runs /\ run'.next.items = run.next.items
    BY <1>0, <2>1, <2>3, <2>4 DEF Runs, Tables, Steps, Events
  <2>. QED BY <1>0, <1>2, <1>13, <2>5 DEF MaintainParents, Step, TypeOK, Finite, logs
<1>14. CASE RebuildItems
  <2>1. run' = [run EXCEPT !.step = "rebuild events", !.next = [Empty EXCEPT !.items = aliased]]
    BY <1>14 DEF RebuildItems, Step
  <2>2. [Empty EXCEPT !.items = aliased] \in Tables
    BY <1>0 DEF Empty, Tables, SourcesOK
  <2>3. run' \in Runs /\ run'.next.items = aliased
    BY <1>0, <2>1, <2>2 DEF Runs, Steps, Empty
  <2>. QED BY <1>0, <1>2, <1>14, <2>3 DEF RebuildItems, Step, TypeOK, Finite, logs
<1>15. CASE RebuildEvents
  <2>. DEFINE id == [i \in Releases |-> Resolve(i)]
              events == EditionRows(run.next.items, id)
  <2>1. run' = [run EXCEPT !.step = "rebuild parents", !.next.events = events]
    BY <1>15 DEF RebuildEvents, Step
  <2>2. Releases \in SUBSET Items /\ id \in [Releases -> Items]
    BY <1>0, ResolveType DEF Items
  <2>3. run.next.items \in SUBSET (Items \X (Nat \ {0}))
    BY <1>0 DEF Tables
  <2>4. events \in SUBSET Events
    BY <1>0, <2>2, <2>3, EditionRowsType
  <2>. HIDE DEF events
  <2>5. run' \in Runs /\ run'.next.items = run.next.items
    BY <1>0, <2>1, <2>4 DEF Runs, Tables, Steps, Events
  <2>. QED BY <1>0, <1>2, <1>15, <2>5 DEF RebuildEvents, Step, TypeOK, Finite, logs
<1>16. CASE RebuildParents
  <2>. DEFINE parents == ParentRows(Owners(run.next.events))
              summary == [w \in Works |-> Summary(w, run.next.events, parents)]
  <2>1. run' = [run EXCEPT !.step = "rebuild density", !.next.parents = parents, !.next.summary = summary]
    BY <1>16 DEF RebuildParents, Step
  <2>2. Owners(run.next.events) \in SUBSET Items
    BY <1>0 DEF Tables, Owners
  <2>3. parents \in SUBSET (Items \X Works)
    BY <1>0, <2>2, ParentRowsType
  <2>4. summary \in [Works -> SUBSET Events]
    BY <1>0 DEF Tables, Summary, Events
  <2>. HIDE DEF parents, summary
  <2>5. run' \in Runs /\ run'.next.items = run.next.items
    BY <1>0, <2>1, <2>3, <2>4 DEF Runs, Tables, Steps, Events
  <2>. QED BY <1>0, <1>2, <1>16, <2>5 DEF RebuildParents, Step, TypeOK, Finite, logs
<1>17. CASE RebuildDensity
  <2>. DEFINE density == [c \in Kinds |-> Cardinality(IF c = "alias" THEN run.next.items ELSE base[c])]
  <2>1. run' = [run EXCEPT !.step = "commit", !.drained = delta, !.next.density = density]
    BY <1>17 DEF RebuildDensity, Step
  <2>2. density \in [Kinds -> Int]
    <3>1. Cardinality(run.next.items) \in Int
      BY <1>0, FS_CardinalityType DEF Finite
    <3>2. \A c \in Counted : Cardinality(base[c]) \in Int
      BY <1>0, BaseFinite
    <3>. QED BY <3>1, <3>2 DEF Kinds
  <2>. HIDE DEF density
  <2>3. run' \in Runs /\ run'.next.items = run.next.items
    BY <1>0, <2>1, <2>2 DEF Runs, Tables, Steps, TypeOK
  <2>. QED BY <1>0, <1>2, <1>17, <2>3, IdleType DEF RebuildDensity, Step, TypeOK, Finite
<1>18. Idle \in Runs /\ Idle.next = Empty /\ IsFiniteSet(Empty.items)
  BY IdleType, FS_EmptySet DEF Empty
<1>19. CASE Commit
  BY <1>0, <1>1, <1>18, <1>19 DEF Commit, Step, TypeOK, Finite, logs
<1>20. CASE Fail
  <2>1. /\ log' \subseteq LogRow /\ delta' \in [Counted -> Int]
        /\ fails' \in 0..MaxFails
    BY <1>0, <1>20, ConstantsDistinct DEF Fail, TypeOK, Runs
  <2>. QED BY <1>0, <1>1, <1>18, <1>20, <2>1 DEF Fail, TypeOK, Finite
<1>. QED
  BY <1>3, <1>4, <1>5, <1>6, <1>7, <1>8, <1>9, <1>10, <1>11, <1>12, <1>13, <1>14, <1>15,
     <1>16, <1>17, <1>19, <1>20 DEF Refresh, Maintain, RebuildAll

(* A step of anything else leaves what the types are about alone. *)
LEMMA TypeStep == TInv /\ [Next]_vars => TInv'
<1>. SUFFICES ASSUME TInv, [Next]_vars PROVE TInv'
  OBVIOUS
<1>1. CASE \E s \in Sources : CreateTriggers(s)
  BY <1>1 DEF CreateTriggers, TInv, TypeOK, SourcesOK, Finite, sources, logs
<1>2. CASE UNCHANGED vars
  BY <1>2 DEF vars, TInv, TypeOK, SourcesOK, Finite, sources, logs
<1>. QED
  BY <1>1, <1>2, TypeWriter, TypeRefresh DEF Next

(* Every reachable state is well typed: the sources stay within their kinds, and what a  *)
(* refresh works on and publishes are rows of items, editions and works.                 *)
THEOREM TypeCorrect == Spec => []TypeOK
<1>1. Init => TInv
  BY TypeInit
<1>2. TInv /\ [Next]_vars => TInv'
  BY TypeStep
<1>3. TInv => TypeOK
  BY DEF TInv
<1>. QED
  BY <1>1, <1>2, <1>3, PTL DEF Spec

-----------------------------------------------------------------------------
(* Where a refresh is and what it has drained so far. *)

Unfolded == {"drain", "choose", "deltas", "items", "rebuild items"}
Undrained == {"drain", "choose", "deltas", "rebuild items", "rebuild events", "rebuild parents", "rebuild density"}
Maintaining == {"deltas", "items", "editions", "members", "events", "masters", "parent editions", "parents"}
Folded == {"editions", "members", "events", "masters", "parent editions", "parents", "commit"}

RunInv ==
  /\ run.step = "idle" => run = Idle
  /\ refreshed \/ run.step # "idle" => captured = Sources
  /\ run.step = "drain" => run.changed = {}
  /\ run.step \in Undrained => run.drained = NoDelta
  /\ run.step \in Unfolded => run.next = ledger
  /\ run.step \in Maintaining => refreshed /\ Rebuild \notin run.changed

(* At the start no refresh runs, and only a captured catalog has been refreshed. *)
LEMMA RunInit == Init => RunInv
BY DEF Init, RunInv, Idle, Unfolded, Undrained, Maintaining, Sources

(* A refresh drains each log once, works on a copy of the tables, and maintains only what *)
(* was refreshed before and needs no rebuild.                                             *)
LEMMA RunStep == TInv /\ RunInv /\ [Next]_vars => RunInv'
<1>. SUFFICES ASSUME TInv, RunInv, [Next]_vars PROVE RunInv'
  OBVIOUS
<1>0. run \in Runs /\ captured \subseteq Sources
  BY DEF TInv, TypeOK
<1>. USE DEF Unfolded, Undrained, Maintaining, Runs
<1>1. CASE Writer
  <2>1. UNCHANGED <<captured, refreshed, ledger, run>>
    BY <1>1 DEF Writer, Write, OpenAlias, CloseAlias, Supersede, Revert, Link, Unlink, SetParent,
                TruncateLinks, RequestRebuild
  <2>. QED BY <2>1 DEF RunInv
<1>2. CASE \E s \in Sources : CreateTriggers(s)
  <2>1. PICK s \in Sources : captured' = captured \cup {s} /\ UNCHANGED <<refreshed, ledger, run>>
    BY <1>2 DEF CreateTriggers
  <2>2. captured = Sources => captured' = Sources
    BY <2>1
  <2>. QED BY <2>1, <2>2 DEF RunInv
<1>3. CASE UNCHANGED vars
  BY <1>3 DEF vars, RunInv
<1>4. CASE Begin
  BY <1>0, <1>4 DEF Begin, Step, RunInv, Idle, logs
<1>5. CASE Drain
  BY <1>0, <1>5 DEF Drain, Step, RunInv
<1>6. CASE Choose
  BY <1>0, <1>6 DEF Choose, Step, RunInv, logs
<1>7. CASE Maintain
  <2>1. CASE DrainDeltas
    BY <1>0, <2>1 DEF DrainDeltas, Step, RunInv, logs
  <2>2. CASE MaintainItems
    BY <1>0, <2>2 DEF MaintainItems, Step, RunInv, logs
  <2>3. CASE ChooseEditions
    BY <1>0, <2>3 DEF ChooseEditions, Step, RunInv, logs
  <2>4. CASE ChooseMembers
    BY <1>0, <2>4 DEF ChooseMembers, Step, RunInv, logs
  <2>5. CASE MaintainEvents
    BY <1>0, <2>5 DEF MaintainEvents, Step, RunInv, logs
  <2>6. CASE ChooseMasters
    BY <1>0, <2>6 DEF ChooseMasters, Step, RunInv, logs
  <2>7. CASE ChooseParentEditions
    BY <1>0, <2>7 DEF ChooseParentEditions, Step, RunInv, logs
  <2>8. CASE MaintainParents
    BY <1>0, <2>8 DEF MaintainParents, Step, RunInv, logs
  <2>. QED BY <1>7, <2>1, <2>2, <2>3, <2>4, <2>5, <2>6, <2>7, <2>8
           DEF Maintain
<1>8. CASE RebuildAll
  <2>1. CASE RebuildItems
    BY <1>0, <2>1 DEF RebuildItems, Step, RunInv, logs
  <2>2. CASE RebuildEvents
    BY <1>0, <2>2 DEF RebuildEvents, Step, RunInv, logs
  <2>3. CASE RebuildParents
    BY <1>0, <2>3 DEF RebuildParents, Step, RunInv, logs
  <2>4. CASE RebuildDensity
    BY <1>0, <2>4 DEF RebuildDensity, Step, RunInv, logs
  <2>. QED BY <1>8, <2>1, <2>2, <2>3, <2>4 DEF RebuildAll
<1>9. CASE Commit
  BY <1>0, <1>9 DEF Commit, Step, RunInv, Idle, logs
<1>10. CASE Fail
  BY <1>0, <1>10 DEF Fail, RunInv, Idle
<1>. QED
  BY <1>1, <1>2, <1>3, <1>4, <1>5, <1>6, <1>7, <1>8, <1>9, <1>10 DEF Next, Refresh

-----------------------------------------------------------------------------
(* Density. *)

(* What the deltas of one transaction add up to. *)
Counts(c) == Cardinality(base[c]) - delta[c]

(* While every source is captured, a writer's transaction only adds to the log, and the *)
(* deltas it logs are what it changes the counts by, unless it asks for a rebuild.      *)
LEMMA WriterCounts ==
  ASSUME TInv, Writer, captured = Sources
  PROVE  /\ log \subseteq log'
         /\ UNCHANGED <<captured, refreshed, ledger, run>>
         /\ Rebuild \in log' \/ \A c \in Counted : Counts(c)' = Counts(c)
<1>0. TypeOK /\ SourcesOK /\ delta \in [Counted -> Int]
  BY DEF TInv, TypeOK
<1>1. \A c \in Counted : IsFiniteSet(base[c]) /\ Cardinality(base[c]) \in Nat
  BY <1>0, BaseFinite
<1>2. UNCHANGED <<captured, refreshed, ledger, run>>
  BY DEF Writer, Write, OpenAlias, CloseAlias, Supersede, Revert, Link, Unlink, SetParent,
         TruncateLinks, RequestRebuild
<1>. DEFINE Kept2 == log \subseteq log' /\ \A c \in Counted : Counts(c)' = Counts(c)
<1>3. ASSUME log \subseteq log', base' = base, delta' = delta PROVE Kept2
  BY <1>3 DEF Counts
<1>4. ASSUME NEW d \in Counted, NEW e, e \notin base[d], log \subseteq log',
             base' = [base EXCEPT ![d] = @ \cup {e}], delta' = [delta EXCEPT ![d] = @ + 1]
      PROVE  Kept2
  <2>1. Cardinality(base[d] \cup {e}) = Cardinality(base[d]) + 1
    BY <1>1, <1>4, FS_AddElement
  <2>2. /\ \A c \in Counted : base'[c] = IF c = d THEN base[d] \cup {e} ELSE base[c]
        /\ \A c \in Counted : delta'[c] = IF c = d THEN delta[d] + 1 ELSE delta[c]
    BY <1>0, <1>4 DEF SourcesOK
  <2>3. ASSUME NEW c \in Counted PROVE Counts(c)' = Counts(c)
    <3>1. CASE c = d
      BY <1>0, <1>1, <2>1, <2>2, <3>1 DEF Counts
    <3>2. CASE c # d
      BY <2>2, <3>2 DEF Counts
    <3>. QED BY <3>1, <3>2
  <2>. QED BY <1>4, <2>3
<1>5. CASE \E k \in Keys \cup Masters : CloseAlias(k) \/ \E i \in Items : OpenAlias(k, i)
  BY <1>2, <1>3, <1>5 DEF CloseAlias, OpenAlias
<1>6. CASE \E a, b \in Items : Supersede(a, b) \/ Revert(a, b)
  <2>1. PICK a \in Items, b \in Items : Supersede(a, b) \/ Revert(a, b)
    BY <1>6
  <2>2. log \subseteq log'
    BY <2>1 DEF Supersede, Revert, MoveAliases
  <2>3. CASE Supersede(a, b)
    BY <1>2, <2>2, <2>3, <1>4 DEF Supersede, CapturedDelta, Sources, Counted
  <2>4. CASE Revert(a, b)
    BY <1>2, <2>2, <2>4, <1>4 DEF Revert, Open, CapturedDelta, Sources, Counted
  <2>. QED BY <2>1, <2>3, <2>4
<1>7. CASE \E k \in Keys : Link(k)
  <2>1. PICK k \in Keys : Link(k)
    BY <1>7
  <2>. QED BY <1>2, <2>1, <1>4 DEF Link, CapturedDelta, Sources, Counted
<1>8. CASE \E k \in Keys : Unlink(k)
  <2>1. PICK k \in Keys : Unlink(k)
    BY <1>8
  <2>2. /\ k \in base["link"] /\ log \subseteq log'
        /\ base' = [base EXCEPT !["link"] = @ \ {k}] /\ delta' = [delta EXCEPT !["link"] = @ + (-1)]
    BY <2>1 DEF Unlink, CapturedDelta, Sources
  <2>3. Cardinality(base["link"] \ {k}) = Cardinality(base["link"]) - 1
    BY <1>1, <2>2, FS_RemoveElement DEF Counted
  <2>4. /\ \A c \in Counted : base'[c] = IF c = "link" THEN base[c] \ {k} ELSE base[c]
        /\ \A c \in Counted : delta'[c] = IF c = "link" THEN delta[c] + (-1) ELSE delta[c]
    BY <1>0, <2>2 DEF SourcesOK
  <2>5. ASSUME NEW c \in Counted PROVE Counts(c)' = Counts(c)
    <3>1. CASE c = "link"
      <4>1. /\ base'["link"] = base["link"] \ {k} /\ delta'["link"] = delta["link"] + (-1)
            /\ delta["link"] \in Int /\ Cardinality(base["link"]) \in Nat
        BY <1>0, <1>1, <2>4 DEF Counted
      <4>2. Counts("link")' = Counts("link")
        BY <2>3, <4>1 DEF Counts
      <4>. QED BY <3>1, <4>2
    <3>2. CASE c # "link"
      BY <2>4, <3>2 DEF Counts
    <3>. QED BY <3>1, <3>2
  <2>. QED BY <1>2, <2>2, <2>5
<1>9. CASE \E k \in Keys : \E m \in Masters \cup {NoMaster} : SetParent(k, m)
  BY <1>2, <1>3, <1>9 DEF SetParent
<1>10. CASE TruncateLinks
  BY <1>2, <1>10 DEF TruncateLinks, Captured, Sources
<1>11. CASE RequestRebuild
  BY <1>2, <1>11 DEF RequestRebuild
<1>. QED
  BY <1>5, <1>6, <1>7, <1>8, <1>9, <1>10, <1>11 DEF Writer

CountInv ==
  /\ refreshed /\ Rebuild \notin Pending =>
       \A c \in Counted : ledger.density[c] + run.drained[c] = Counts(c)
  /\ refreshed => ledger.density["alias"] = Cardinality(ledger.items)
  /\ run.step \in Folded /\ Rebuild \notin log => \A c \in Counted : run.next.density[c] = Counts(c)
  /\ run.step \in Folded => run.next.density["alias"] = Cardinality(run.next.items)

(* A loaded catalog's density is the recompute's. *)
LEMMA CountInit == Init => CountInv
<1>. SUFFICES ASSUME Init PROVE CountInv
  OBVIOUS
<1>1. TInv
  BY TypeInit
<1>2. \A c \in Counted : Cardinality(base[c]) \in Nat
  BY <1>1, BaseFinite DEF TInv, TypeOK
<1>3. run = Idle /\ delta = NoDelta /\ (refreshed => ledger = Recomputed)
  BY DEF Init
<1>4. /\ Recomputed.density["alias"] = Cardinality(aliased) /\ Recomputed.items = aliased
      /\ \A c \in Counted : Recomputed.density[c] = Cardinality(base[c])
  BY DEF Recomputed, Kinds, Counted
<1>5. run.step = "idle" /\ \A c \in Counted : run.drained[c] = 0 /\ delta[c] = 0
  BY <1>3 DEF Idle, NoDelta
<1>. QED
  BY <1>2, <1>3, <1>4, <1>5 DEF CountInv, Counts, Folded

(* Every step keeps the counts: writers by what they log, and a refresh by draining a log *)
(* into density, or counting what the log says, in one statement.                         *)
LEMMA CountStep == TInv /\ TInv' /\ RunInv /\ CountInv /\ [Next]_vars => CountInv'
<1>. SUFFICES ASSUME TInv, TInv', RunInv, CountInv, [Next]_vars PROVE CountInv'
  OBVIOUS
<1>0. /\ run \in Runs /\ ledger \in Tables /\ run.next \in Tables /\ SourcesOK /\ delta \in [Counted -> Int]
      /\ run.drained \in [Counted -> Int] /\ IsFiniteSet(aliased) /\ IsFiniteSet(run.next.items)
  BY DEF TInv, TypeOK, Runs, Finite
<1>a. /\ \A c \in Counted : Cardinality(base[c]) \in Nat /\ delta[c] \in Int /\ run.drained[c] \in Int
      /\ \A c \in Counted : ledger.density[c] \in Int /\ run.next.density[c] \in Int
  BY <1>0, BaseFinite DEF Tables, Kinds
<1>b. ASSUME UNCHANGED <<base, ledger>>, NEW c \in Counted,
             delta'[c] + run'.drained[c] = delta[c] + run.drained[c],
             ledger.density[c] + run.drained[c] = Counts(c)
      PROVE  ledger.density[c] + run'.drained[c] = Counts(c)'
  <2>1. delta'[c] \in Int /\ run'.drained[c] \in Int
    BY DEF TInv, TypeOK, Runs
  <2>2. Counts(c)' = Cardinality(base[c]) - delta'[c]
    BY <1>b DEF Counts
  <2>. QED BY <1>a, <1>b, <2>1, <2>2 DEF Counts
<1>1. CASE Writer
  <2>1. UNCHANGED <<captured, refreshed, ledger, run>>
    BY <1>1 DEF Writer, Write, OpenAlias, CloseAlias, Supersede, Revert, Link, Unlink, SetParent,
                TruncateLinks, RequestRebuild
  <2>2. CASE refreshed \/ run.step # "idle"
    <3>1. captured = Sources
      BY <2>2 DEF RunInv
    <3>2. log \subseteq log' /\ (Rebuild \in log' \/ \A c \in Counted : Counts(c)' = Counts(c))
      BY <1>1, <3>1, WriterCounts
    <3>. QED BY <2>1, <3>2 DEF CountInv, Pending
  <2>3. CASE ~refreshed /\ run.step = "idle"
    BY <2>1, <2>3 DEF CountInv, Folded
  <2>. QED BY <2>2, <2>3
<1>2. CASE (\E s \in Sources : CreateTriggers(s)) \/ UNCHANGED vars
  <2>1. UNCHANGED <<sources, logs, refreshed, ledger, run>>
    BY <1>2 DEF CreateTriggers, vars
  <2>. QED BY <2>1 DEF CountInv, Counts, Pending, sources, logs
<1>3. CASE Begin
  <2>1. /\ run.step = "idle" /\ run' = [run EXCEPT !.step = "drain", !.next = ledger]
        /\ UNCHANGED <<sources, logs, refreshed, ledger>>
    BY <1>3 DEF Begin, Step
  <2>2. run'.step = "drain" /\ run'.changed = run.changed /\ run'.drained = run.drained
    BY <1>0, <2>1 DEF Runs
  <2>. QED BY <2>1, <2>2 DEF CountInv, Counts, Pending, Folded, sources, logs
<1>4. CASE Drain
  <2>1. /\ run' = [run EXCEPT !.step = "choose", !.changed = log] /\ run.changed = {} /\ log' = {}
        /\ UNCHANGED <<sources, delta, refreshed, ledger>>
    BY <1>4 DEF Drain, Step, RunInv
  <2>2. run'.step = "choose" /\ run'.changed = log /\ run'.drained = run.drained
    BY <1>0, <2>1 DEF Runs
  <2>. QED BY <2>1, <2>2 DEF CountInv, Counts, Pending, Folded, sources
<1>5. CASE Choose
  <2>1. /\ run.step = "choose" /\ UNCHANGED <<sources, logs, refreshed, ledger>>
        /\ run' = [run EXCEPT !.dirty = DirtyItems(run.changed), !.step = run'.step]
        /\ run'.step \in {"rebuild items", "deltas", "commit"}
        /\ run'.step = "commit" => refreshed /\ Rebuild \notin run.changed
    BY <1>0, <1>5 DEF Choose, Step, Runs
  <2>2. run'.changed = run.changed /\ run'.drained = run.drained /\ run'.next = run.next
    BY <1>0, <2>1 DEF Runs
  <2>3. run.next = ledger /\ \A c \in Counted : run.drained[c] = 0
    BY <2>1 DEF RunInv, Unfolded, Undrained, NoDelta
  <2>4. ASSUME run'.step \in Folded, Rebuild \notin log, NEW c \in Counted
        PROVE  run.next.density[c] = Counts(c)
    <3>1. refreshed /\ Rebuild \notin Pending
      BY <2>1, <2>4 DEF Folded, Pending
    <3>2. ledger.density[c] + run.drained[c] = Counts(c)
      BY <3>1 DEF CountInv
    <3>3. run.drained[c] = 0 /\ ledger.density[c] \in Int /\ run.next.density[c] = ledger.density[c]
      BY <1>a, <2>3
    <3>. QED BY <3>2, <3>3
  <2>. QED BY <2>1, <2>2, <2>3, <2>4 DEF CountInv, Counts, Pending, Folded, sources, logs
<1>6. CASE DrainDeltas
  <2>1. /\ run.step = "deltas" /\ run' = [run EXCEPT !.step = "items", !.drained = delta]
        /\ delta' = NoDelta /\ UNCHANGED <<sources, log, refreshed, ledger>>
    BY <1>6 DEF DrainDeltas, Step
  <2>2. run'.step = "items" /\ run'.changed = run.changed /\ run'.drained = delta
    BY <1>0, <2>1 DEF Runs
  <2>3. \A c \in Counted : run.drained[c] = 0 /\ delta'[c] = 0
    BY <2>1 DEF RunInv, Undrained, NoDelta
  <2>4. \A c \in Counted : ledger.density[c] + run.drained[c] = Counts(c) =>
                              ledger.density[c] + run'.drained[c] = Counts(c)'
    <3>1. \A c \in Counted : delta'[c] + run'.drained[c] = delta[c] + run.drained[c]
      BY <1>a, <2>2, <2>3
    <3>. QED BY <1>b, <2>1, <3>1 DEF sources
  <2>. QED BY <2>1, <2>2, <2>4 DEF CountInv, Pending, Folded
<1>7. CASE MaintainItems
  <2>. DEFINE old == {r \in run.next.items : r[1] \in run.dirty}
              new == {r \in aliased : r[1] \in run.dirty}
              fold == [c \in Kinds |-> run.next.density[c] +
                        (IF c = "alias" THEN Cardinality(new) - Cardinality(old) ELSE run.drained[c])]
              items == (run.next.items \ old) \cup new
  <2>1. /\ run.step = "items" /\ run' = [run EXCEPT !.step = "editions", !.next.items = items, !.next.density = fold]
        /\ UNCHANGED <<sources, logs, refreshed, ledger>>
    BY <1>7 DEF MaintainItems, Step
  <2>2. Cardinality(items) = Cardinality(run.next.items) + (Cardinality(new) - Cardinality(old))
    <3>1. old \in SUBSET run.next.items /\ new \in SUBSET aliased
      OBVIOUS
    <3>2. IsFiniteSet(old) /\ IsFiniteSet(new)
      BY <1>0, <3>1, FS_Subset
    <3>3. IsFiniteSet(run.next.items \ old) /\ run.next.items \cap old = old /\ (run.next.items \ old) \cap new = {}
      BY <1>0, FS_Difference
    <3>4. Cardinality(run.next.items \ old) = Cardinality(run.next.items) - Cardinality(old)
      BY <1>0, <3>3, FS_Difference
    <3>5. Cardinality(items) = Cardinality(run.next.items \ old) + Cardinality(new) - Cardinality({})
      BY <3>2, <3>3, FS_Union
    <3>6. Cardinality({}) = 0 /\ Cardinality(run.next.items) \in Nat /\ Cardinality(old) \in Nat /\ Cardinality(new) \in Nat
      BY <1>0, <3>2, FS_EmptySet, FS_CardinalityType
    <3>. QED BY <3>4, <3>5, <3>6
  <2>3. run.next = ledger /\ refreshed /\ Rebuild \notin run.changed
    BY <2>1 DEF RunInv, Unfolded, Maintaining
  <2>4. fold["alias"] = Cardinality(items)
    BY <2>2, <2>3 DEF CountInv, Kinds
  <2>5. \A c \in Counted : fold[c] = ledger.density[c] + run.drained[c]
    BY <2>3 DEF Kinds, Counted
  <2>6. Rebuild \notin log => \A c \in Counted : fold[c] = Counts(c)
    BY <2>3, <2>5 DEF CountInv, Pending
  <2>. HIDE DEF old, new, fold, items
  <2>7. /\ run'.step = "editions" /\ run'.changed = run.changed /\ run'.drained = run.drained
        /\ run'.next.items = items /\ run'.next.density = fold
    BY <1>0, <2>1 DEF Runs, Tables
  <2>. QED BY <2>1, <2>4, <2>6, <2>7 DEF CountInv, Counts, Pending, sources, logs
<1>8. CASE ChooseEditions \/ ChooseMembers \/ MaintainEvents \/ ChooseMasters \/ ChooseParentEditions \/ MaintainParents
  <2>1. /\ run.step \in Folded /\ UNCHANGED <<sources, logs, refreshed, ledger>>
    BY <1>8 DEF ChooseEditions, ChooseMembers, MaintainEvents, ChooseMasters, ChooseParentEditions,
                MaintainParents, Step, Folded
  <2>. DEFINE Same == /\ run'.changed = run.changed /\ run'.drained = run.drained
                      /\ run'.next.items = run.next.items /\ run'.next.density = run.next.density
  <2>2. Same
    <3>1. CASE ChooseEditions \/ ChooseMembers \/ ChooseMasters \/ ChooseParentEditions
      BY <1>0, <3>1 DEF ChooseEditions, ChooseMembers, ChooseMasters, ChooseParentEditions, Step, Runs
    <3>2. CASE MaintainEvents
      BY <1>0, <3>2 DEF MaintainEvents, Step, Runs, Tables
    <3>3. CASE MaintainParents
      <4>1. PICK parents, summary : run' = [run EXCEPT !.step = "commit", !.next.parents = parents, !.next.summary = summary]
        BY <3>3 DEF MaintainParents, Step
      <4>. QED BY <1>0, <4>1 DEF Runs, Tables
    <3>. QED BY <1>8, <3>1, <3>2, <3>3
  <2>. QED BY <2>1, <2>2 DEF CountInv, Counts, Pending, sources, logs
<1>9. CASE RebuildItems \/ RebuildEvents \/ RebuildParents
  <2>1. /\ run'.step \in {"rebuild events", "rebuild parents", "rebuild density"}
        /\ run'.changed = run.changed /\ run'.drained = run.drained
        /\ UNCHANGED <<sources, logs, refreshed, ledger>>
    BY <1>0, <1>9 DEF RebuildItems, RebuildEvents, RebuildParents, Step, Runs
  <2>. QED BY <2>1 DEF CountInv, Counts, Pending, Folded, sources, logs
<1>10. CASE RebuildDensity
  <2>. DEFINE density == [c \in Kinds |-> Cardinality(IF c = "alias" THEN run.next.items ELSE base[c])]
  <2>1. /\ run.step = "rebuild density"
        /\ run' = [run EXCEPT !.step = "commit", !.drained = delta, !.next.density = density]
        /\ delta' = NoDelta /\ UNCHANGED <<sources, log, refreshed, ledger>>
    BY <1>10 DEF RebuildDensity, Step
  <2>2. \A c \in Counted : run.drained[c] = 0 /\ delta'[c] = 0
    BY <2>1 DEF RunInv, Undrained, NoDelta
  <2>3. density["alias"] = Cardinality(run.next.items) /\ \A c \in Counted : density[c] = Cardinality(base[c])
    BY DEF Kinds, Counted
  <2>. HIDE DEF density
  <2>4. /\ run'.changed = run.changed /\ run'.drained = delta
        /\ run'.next.items = run.next.items /\ run'.next.density = density
    BY <1>0, <2>1 DEF Runs, Tables
  <2>5. \A c \in Counted : density[c] = Counts(c)'
    <3>. SUFFICES ASSUME NEW c \in Counted PROVE density[c] = Counts(c)'
      OBVIOUS
    <3>1. Counts(c)' = Cardinality(base[c]) - delta'[c]
      BY <2>1 DEF Counts, sources
    <3>. QED BY <1>a, <2>2, <2>3, <3>1
  <2>6. \A c \in Counted : ledger.density[c] + run.drained[c] = Counts(c) =>
                              ledger.density[c] + run'.drained[c] = Counts(c)'
    <3>1. \A c \in Counted : delta'[c] + run'.drained[c] = delta[c] + run.drained[c]
      BY <1>a, <2>2, <2>4
    <3>. QED BY <1>b, <2>1, <3>1 DEF sources
  <2>. QED BY <2>1, <2>3, <2>4, <2>5, <2>6 DEF CountInv, Pending
<1>11. CASE Commit
  <2>1. /\ run.step = "commit" /\ run' = Idle /\ ledger' = run.next
        /\ UNCHANGED <<sources, logs>>
    BY <1>11 DEF Commit, Step
  <2>2. run'.changed = {} /\ run'.step = "idle" /\ \A c \in Counted : run'.drained[c] = 0
    BY <2>1 DEF Idle, NoDelta
  <2>3. \A c \in Counted : ledger'.density[c] + run'.drained[c] = run.next.density[c]
    BY <1>a, <2>1, <2>2
  <2>. QED BY <2>1, <2>2, <2>3 DEF CountInv, Counts, Pending, Folded, sources, logs
<1>12. CASE Fail
  <2>1. /\ run' = Idle /\ log' = log \cup run.changed /\ UNCHANGED <<sources, refreshed, ledger>>
        /\ delta' = [c \in Counted |-> delta[c] + run.drained[c]]
    BY <1>12 DEF Fail
  <2>2. run'.changed = {} /\ run'.step = "idle" /\ \A c \in Counted : run'.drained[c] = 0
    BY <2>1 DEF Idle, NoDelta
  <2>3. \A c \in Counted : ledger.density[c] + run.drained[c] = Counts(c) =>
                              ledger.density[c] + run'.drained[c] = Counts(c)'
    <3>1. \A c \in Counted : delta'[c] + run'.drained[c] = delta[c] + run.drained[c]
      BY <1>a, <2>1, <2>2
    <3>. QED BY <1>b, <2>1, <3>1 DEF sources
  <2>. QED BY <2>1, <2>2, <2>3 DEF CountInv, Pending, Folded
<1>. QED
  BY <1>1, <1>2, <1>3, <1>4, <1>5, <1>6, <1>7, <1>8, <1>9, <1>10, <1>11, <1>12
     DEF Next, Refresh, Maintain, RebuildAll

(* Density counts every base event exactly once, and every alias row of the items table:  *)
(* what a refresh has folded in and what waits in the delta log add up to the base tables, *)
(* however writers, refreshes and failures interleave.                                     *)
THEOREM DensityCorrect == Spec => []DensityAddsUp
<1>1. Init => TInv /\ RunInv /\ CountInv
  BY TypeInit, RunInit, CountInit
<1>2. TInv /\ RunInv /\ CountInv /\ [Next]_vars => (TInv /\ RunInv /\ CountInv)'
  BY TypeStep, RunStep, CountStep
<1>3. TInv /\ CountInv => DensityAddsUp
  <2>. SUFFICES ASSUME TInv, CountInv, refreshed, Rebuild \notin Pending, NEW c \in Counted
                PROVE  /\ ledger.density[c] + PendingDelta(c) = Cardinality(base[c])
                       /\ ledger.density["alias"] = Cardinality(ledger.items)
    BY DEF DensityAddsUp, CountInv
  <2>1. /\ ledger.density[c] \in Int /\ delta[c] \in Int /\ run.drained[c] \in Int
        /\ Cardinality(base[c]) \in Nat
    BY BaseFinite DEF TInv, TypeOK, Runs, Tables, Kinds
  <2>. QED BY <2>1 DEF CountInv, Counts, PendingDelta
<1>. QED
  BY <1>1, <1>2, <1>3, PTL DEF Spec

-----------------------------------------------------------------------------
(* The unique index, and the agreement of the tables. *)

Before == {"deltas", "items", "editions", "members", "events"}
After == {"masters", "parent editions", "parents"}

\* What a refresh in progress has done to the rows it copied from the published tables.
TableInv ==
  /\ Agree(ledger)
  /\ run.step \in {"rebuild density", "commit"} => Agree(run.next)
  /\ run.step \in Maintaining => run.next.parents = ledger.parents /\ run.next.summary = ledger.summary
  /\ run.step \in Before => run.next.events = ledger.events
  /\ run.step = "events" => \E S \in SUBSET Items : run.member \in [S -> run.editions]
  /\ run.step \in After =>
       \A e : e[1] \notin run.editions => (e \in run.next.events <=> e \in ledger.events)

(* The rows a refresh inserts are of the editions whose rows it deleted. *)
LEMMA WrittenInEditions ==
  ASSUME TInv, NEW S \in SUBSET Items, run.member \in [S -> run.editions]
  PROVE  \A e \in Written : e[1] \in run.editions
<1>1. /\ SourcesOK /\ run.editions \in SUBSET Items
      /\ run.next.items \in SUBSET (Items \X (Nat \ {0}))
  BY DEF TInv, TypeOK, Runs, Tables
<1>2. run.member \in [S -> Items]
  BY <1>1
<1>3. \A e \in Written : \E i \in S : e[1] = run.member[i]
  BY <1>1, <1>2, EditionRowsType DEF Written
<1>. QED BY <1>3

(* A catalog that was never refreshed has no rows, and a recompute's tables agree. *)
LEMMA TableInit == Init => TableInv
<1>. SUFFICES ASSUME Init PROVE TableInv
  OBVIOUS
<1>1. run.step = "idle" /\ ledger \in {Empty, Recomputed}
  BY DEF Init, Idle
<1>2. SourcesOK /\ aliased \in SUBSET (Items \X (Nat \ {0}))
  BY TypeInit DEF TInv, TypeOK, SourcesOK
<1>3. Agree(Empty)
  BY DEF Agree, Empty, Summary, Owners
<1>4. Agree(Recomputed)
  <2>. DEFINE id == [i \in Releases |-> Resolve(i)]
              events == EditionRows(aliased, id)
              parents == ParentRows(Owners(events))
  <2>1. Releases \in SUBSET Items /\ id \in [Releases -> Items]
    BY <1>2, ResolveType DEF Items
  <2>2. Owners(events) \in SUBSET Items
    <3>1. events \subseteq Events
      BY <1>2, <2>1, EditionRowsType
    <3>. QED BY <3>1 DEF Owners, Events
  <2>3. Owners(parents) \subseteq Owners(events)
    BY <1>2, <2>2, ParentRowsType DEF Owners
  <2>4. /\ Recomputed.events = events /\ Recomputed.parents = parents
        /\ Recomputed.summary = [w \in Works |-> Summary(w, events, parents)]
    BY DEF Recomputed
  <2>. HIDE DEF events, parents
  <2>. QED BY <2>3, <2>4 DEF Agree
<1>. QED
  BY <1>1, <1>3, <1>4 DEF TableInv, Maintaining, Before, After

(* Every step keeps the tables in agreement: a maintenance replaces the rows of the editions *)
(* it chose, and the summaries of every work one of them was under or is under.              *)
LEMMA TableStep == TInv /\ RunInv /\ TableInv /\ [Next]_vars => TableInv'
<1>. SUFFICES ASSUME TInv, RunInv, TableInv, [Next]_vars PROVE TableInv'
  OBVIOUS
<1>0. SourcesOK /\ run \in Runs /\ ledger \in Tables /\ run.next \in Tables
  BY DEF TInv, TypeOK, Runs
<1>1. CASE Writer \/ (\E s \in Sources : CreateTriggers(s)) \/ UNCHANGED vars
  <2>1. UNCHANGED <<ledger, run>>
    BY <1>1 DEF Writer, Write, OpenAlias, CloseAlias, Supersede, Revert, Link, Unlink, SetParent,
                TruncateLinks, RequestRebuild, CreateTriggers, vars
  <2>. QED BY <2>1 DEF TableInv, Agree
<1>3. CASE Begin
  <2>1. run'.step = "drain" /\ run'.next = ledger /\ UNCHANGED ledger
    BY <1>0, <1>3 DEF Begin, Step, Runs
  <2>. QED BY <2>1 DEF TableInv, Agree, Maintaining, Before, After
<1>4. CASE Drain
  <2>1. run'.step = "choose" /\ UNCHANGED ledger
    BY <1>0, <1>4 DEF Drain, Step, Runs
  <2>. QED BY <2>1 DEF TableInv, Agree, Maintaining, Before, After
<1>5. CASE Choose
  <2>1. /\ run'.step \in {"rebuild items", "deltas", "commit"} /\ run'.next = run.next
        /\ run.step = "choose" /\ UNCHANGED ledger
    BY <1>0, <1>5 DEF Choose, Step, Runs
  <2>2. run.next = ledger
    BY <2>1 DEF RunInv, Unfolded
  <2>. QED BY <2>1, <2>2 DEF TableInv, Agree, Maintaining, Before, After
<1>6. CASE DrainDeltas
  <2>1. run'.step = "items" /\ run.step = "deltas" /\ run'.next = run.next /\ UNCHANGED ledger
    BY <1>0, <1>6 DEF DrainDeltas, Step, Runs
  <2>. QED BY <2>1 DEF TableInv, Agree, Maintaining, Before, After
<1>7. CASE MaintainItems
  <2>1. PICK items, density : run' = [run EXCEPT !.step = "editions", !.next.items = items, !.next.density = density]
    BY <1>7 DEF MaintainItems, Step
  <2>2. /\ run'.step = "editions"
        /\ run'.next.events = run.next.events /\ run'.next.parents = run.next.parents
        /\ run'.next.summary = run.next.summary
    BY <1>0, <2>1 DEF Runs, Tables
  <2>3. run.step = "items" /\ UNCHANGED ledger
    BY <1>7 DEF MaintainItems, Step
  <2>. QED BY <2>2, <2>3 DEF TableInv, Agree, Maintaining, Before, After
<1>8. CASE ChooseEditions
  <2>1. run'.step = "members" /\ run.step = "editions" /\ run'.next = run.next /\ UNCHANGED ledger
    BY <1>0, <1>8 DEF ChooseEditions, Step, Runs
  <2>. QED BY <2>1 DEF TableInv, Agree, Maintaining, Before, After
<1>9. CASE ChooseMembers
  <2>1. /\ run'.step = "events" /\ run.step = "members" /\ run'.next = run.next /\ UNCHANGED ledger
        /\ run'.editions = run.editions /\ run'.member = Members(run.editions)
    BY <1>0, <1>9 DEF ChooseMembers, Step, Runs
  <2>2. \E S \in SUBSET Items : run'.member \in [S -> run'.editions]
    BY <1>0, <2>1, MembersType DEF Runs
  <2>. QED BY <2>1, <2>2 DEF TableInv, Agree, Maintaining, Before, After
<1>10. CASE MaintainEvents
  <2>1. /\ run'.step = "masters" /\ run.step = "events" /\ UNCHANGED ledger
        /\ run'.next.events = Kept(run.editions) \cup Written /\ run'.editions = run.editions
        /\ run'.next.parents = run.next.parents /\ run'.next.summary = run.next.summary
    BY <1>0, <1>10 DEF MaintainEvents, Step, Runs, Tables
  <2>2. \A e \in Written : e[1] \in run.editions
    BY <2>1, WrittenInEditions DEF TableInv
  <2>3. \A e : e[1] \notin run.editions => (e \in run'.next.events <=> e \in ledger.events)
    BY <2>1, <2>2 DEF TableInv, Before, Kept
  <2>. QED BY <2>1, <2>3 DEF TableInv, Agree, Maintaining, Before, After
<1>11. CASE ChooseMasters
  <2>1. /\ run'.step = "parent editions" /\ run.step = "masters" /\ run'.next = run.next /\ UNCHANGED ledger
        /\ run'.editions = run.editions
    BY <1>0, <1>11 DEF ChooseMasters, Step, Runs
  <2>. QED BY <2>1 DEF TableInv, Agree, Maintaining, Before, After
<1>12. CASE ChooseParentEditions
  <2>1. /\ run'.step = "parents" /\ run.step = "parent editions" /\ run'.next = run.next /\ UNCHANGED ledger
        /\ run'.editions = ParentEditions(run.editions, run.masters)
    BY <1>0, <1>12 DEF ChooseParentEditions, Step, Runs
  <2>2. run.editions \subseteq run'.editions
    BY <2>1 DEF ParentEditions
  <2>. QED BY <2>1, <2>2 DEF TableInv, Agree, Maintaining, Before, After
<1>13. CASE MaintainParents
  <2>. DEFINE E == run.editions
              events == run.next.events
              moved == {p \in run.next.parents : p[1] \in E}
              written == ParentRows(E \cap Owners(events))
              parents == (run.next.parents \ moved) \cup written
              works == {p[2] : p \in moved \cup written}
              summary == [w \in Works |-> IF w \in works THEN Summary(w, events, parents) ELSE run.next.summary[w]]
  <2>1. /\ run' = [run EXCEPT !.step = "commit", !.next.parents = parents, !.next.summary = summary]
        /\ run.step = "parents" /\ UNCHANGED ledger
    BY <1>13 DEF MaintainParents, Step
  <2>2. /\ run.next.parents = ledger.parents /\ run.next.summary = ledger.summary
        /\ \A e : e[1] \notin E => (e \in events <=> e \in ledger.events)
    BY <2>1 DEF TableInv, Maintaining, After
  <2>3. written \in SUBSET ((E \cap Owners(events)) \X Works)
    <3>1. E \cap Owners(events) \in SUBSET Items
      BY <1>0 DEF Runs
    <3>. QED BY <1>0, <3>1, ParentRowsType
  <2>4. Owners(parents) \subseteq Owners(events)
    <3>. SUFFICES ASSUME NEW p \in parents PROVE p[1] \in Owners(events)
      BY DEF Owners
    <3>1. CASE p \in written
      BY <2>3, <3>1
    <3>2. CASE p \in ledger.parents /\ p[1] \notin E
      <4>1. Owners(ledger.parents) \subseteq Owners(ledger.events)
        BY DEF TableInv, Agree
      <4>2. PICK e \in ledger.events : e[1] = p[1]
        BY <3>2, <4>1 DEF Owners
      <4>. QED BY <2>2, <3>2, <4>2 DEF Owners
    <3>. QED BY <2>2, <3>1, <3>2
  <2>5. ASSUME NEW w \in Works, w \notin works
        PROVE  Summary(w, events, parents) = ledger.summary[w]
    <3>1. ledger.summary[w] = Summary(w, ledger.events, ledger.parents)
      BY DEF TableInv, Agree
    <3>a. \A x : <<x, w>> \notin moved /\ <<x, w>> \notin written
      <4>. SUFFICES ASSUME NEW x, <<x, w>> \in moved \cup written PROVE FALSE
        OBVIOUS
      <4>1. <<x, w>>[2] \in works
        OBVIOUS
      <4>. HIDE DEF works
      <4>. QED BY <2>5, <4>1
    <3>2. \A x : <<x, w>> \in parents <=> <<x, w>> \in ledger.parents
      <4>. HIDE DEF moved, written
      <4>. QED BY <2>2, <3>a
    <3>3. \A x : <<x, w>> \in parents => x \notin E
      BY <2>2, <3>2, <3>a
    <3>4. \A e : e \in Summary(w, events, parents) <=> e \in Summary(w, ledger.events, ledger.parents)
      <4>. HIDE DEF parents
      <4>. QED BY <2>2, <3>2, <3>3 DEF Summary
    <3>5. Summary(w, events, parents) = Summary(w, ledger.events, ledger.parents)
      BY <3>4
    <3>. QED BY <3>1, <3>5
  <2>6. \A w \in Works : summary[w] = Summary(w, events, parents)
    BY <2>2, <2>5
  <2>. HIDE DEF parents, summary
  <2>7. /\ run'.step = "commit" /\ run'.next.events = events /\ run'.next.parents = parents
        /\ run'.next.summary = summary
    BY <1>0, <2>1 DEF Runs, Tables
  <2>8. Agree(run'.next)
    BY <2>4, <2>6, <2>7 DEF Agree
  <2>. QED BY <2>1, <2>7, <2>8 DEF TableInv, Agree, Maintaining, Before, After
<1>14. CASE RebuildItems \/ RebuildEvents
  <2>1. run'.step \in {"rebuild events", "rebuild parents"} /\ UNCHANGED ledger
    BY <1>0, <1>14 DEF RebuildItems, RebuildEvents, Step, Runs
  <2>. QED BY <2>1 DEF TableInv, Agree, Maintaining, Before, After
<1>15. CASE RebuildParents
  <2>. DEFINE events == run.next.events
              parents == ParentRows(Owners(events))
              summary == [w \in Works |-> Summary(w, events, parents)]
  <2>1. /\ run' = [run EXCEPT !.step = "rebuild density", !.next.parents = parents, !.next.summary = summary]
        /\ UNCHANGED ledger
    BY <1>15 DEF RebuildParents, Step
  <2>2. Owners(events) \in SUBSET Items
    BY <1>0 DEF Tables, Owners
  <2>3. Owners(parents) \subseteq Owners(events)
    BY <1>0, <2>2, ParentRowsType DEF Owners
  <2>4. \A w \in Works : summary[w] = Summary(w, events, parents)
    OBVIOUS
  <2>. HIDE DEF parents, summary
  <2>5. /\ run'.step = "rebuild density" /\ run'.next.events = events /\ run'.next.parents = parents
        /\ run'.next.summary = summary
    BY <1>0, <2>1 DEF Runs, Tables
  <2>6. Agree(run'.next)
    BY <2>3, <2>4, <2>5 DEF Agree
  <2>. QED BY <2>1, <2>5, <2>6 DEF TableInv, Agree, Maintaining, Before, After
<1>16. CASE RebuildDensity
  <2>1. PICK density : run' = [run EXCEPT !.step = "commit", !.drained = delta, !.next.density = density]
    BY <1>16 DEF RebuildDensity, Step
  <2>2. /\ run'.step = "commit"
        /\ run'.next.events = run.next.events /\ run'.next.parents = run.next.parents
        /\ run'.next.summary = run.next.summary
    BY <1>0, <2>1 DEF Runs, Tables
  <2>3. run.step = "rebuild density" /\ UNCHANGED ledger
    BY <1>16 DEF RebuildDensity, Step
  <2>. QED BY <2>2, <2>3 DEF TableInv, Agree, Maintaining, Before, After
<1>17. CASE Commit
  <2>1. run.step = "commit" /\ run'.step = "idle" /\ ledger' = run.next
    BY <1>17 DEF Commit, Step, Idle
  <2>. QED BY <2>1 DEF TableInv, Agree, Maintaining, Before, After
<1>18. CASE Fail
  <2>1. run'.step = "idle" /\ UNCHANGED ledger
    BY <1>18 DEF Fail, Idle
  <2>. QED BY <2>1 DEF TableInv, Agree, Maintaining, Before, After
<1>. QED
  BY <1>1, <1>3, <1>4, <1>5, <1>6, <1>7, <1>8, <1>9, <1>10, <1>11, <1>12, <1>13, <1>14, <1>15,
     <1>16, <1>17, <1>18 DEF Next, Refresh, Maintain, RebuildAll

(* The table invariant of a refresh holds throughout. *)
LEMMA TableAlways == Spec => [](TInv /\ TableInv)
<1>1. Init => TInv /\ RunInv /\ TableInv
  BY TypeInit, RunInit, TableInit
<1>2. TInv /\ RunInv /\ TableInv /\ [Next]_vars => (TInv /\ RunInv /\ TableInv)'
  BY TypeStep, RunStep, TableStep
<1>. QED
  BY <1>1, <1>2, PTL DEF Spec

(* No insert of a refresh meets a kept row of another edition in the unique index, because  *)
(* its rows are of the editions it deleted, whatever a supersession committed since.        *)
THEOREM InsertsAreUnique == Spec => []NoUniqueViolation
<1>1. TInv /\ TableInv => NoUniqueViolation
  BY WrittenInEditions DEF TableInv, NoUniqueViolation, Kept
<1>. QED
  BY <1>1, TableAlways, PTL

(* The published tables agree with each other after every commit, also of a refresh that *)
(* saw only a part of a writer's change.                                                  *)
THEOREM TablesCorrect == Spec => []TablesAgree
<1>1. TableInv => TablesAgree
  BY DEF TableInv, TablesAgree
<1>. QED
  BY <1>1, TableAlways, PTL

-----------------------------------------------------------------------------
(* What is pending.                                                        *)

\* The editions, the masters and the editions with parents that log rows name.
NamedEditions(rows) == DirtyEditions(DirtyItems(rows))
NamedMasters(rows) == DirtyMasters(rows, DirtyItems(rows))
NamedParents(rows) == ParentEditions(NamedEditions(rows), NamedMasters(rows))

\* What log rows name, one by one.
Naming(rows) ==
  /\ \A i : i \in DirtyItems(rows) <=>
       \/ i \in Items /\ Item(i) \in rows
       \/ \E k \in Keys : Key(k) \in rows /\ holder[k] # NoItem /\ i = holder[k]
  /\ \A e : e \in NamedEditions(rows) <=> \E i \in DirtyItems(rows) : e = i \/ e = Resolve(i)
  /\ \A m : m \in NamedMasters(rows) <=> m \in Masters /\ (Key(m) \in rows \/ holder[m] \in DirtyItems(rows))
  /\ \A e : e \in NamedParents(rows) <=>
       \/ e \in NamedEditions(rows)
       \/ \E k \in Keys : /\ parent[k] \in NamedMasters(rows) /\ holder[k] # NoItem
                          /\ e = holder[k] \/ e = Resolve(holder[k])

AllNamed == \A rows : Naming(rows)

(* Each set of names is what the definitions say, element by element. *)
LEMMA NamesAre == AllNamed
<1>. SUFFICES ASSUME NEW rows PROVE Naming(rows)
  BY DEF AllNamed
<1>1. \A i : i \in DirtyItems(rows) <=>
        \/ i \in Items /\ Item(i) \in rows
        \/ \E k \in Keys : Key(k) \in rows /\ holder[k] # NoItem /\ i = holder[k]
  BY DEF DirtyItems
<1>2. \A e : e \in NamedEditions(rows) <=> \E i \in DirtyItems(rows) : e = i \/ e = Resolve(i)
  BY DEF NamedEditions, DirtyEditions
<1>3. \A m : m \in NamedMasters(rows) <=> m \in Masters /\ (Key(m) \in rows \/ holder[m] \in DirtyItems(rows))
  BY DEF NamedMasters, DirtyMasters
<1>4. \A e : e \in NamedParents(rows) <=>
        \/ e \in NamedEditions(rows)
        \/ \E k \in Keys : /\ parent[k] \in NamedMasters(rows) /\ holder[k] # NoItem
                           /\ e = holder[k] \/ e = Resolve(holder[k])
  BY DEF NamedParents, ParentEditions
<1>. QED BY <1>1, <1>2, <1>3, <1>4 DEF Naming

(* Two sets of rows name what either names. *)
LEMMA NamesJoin ==
  ASSUME NEW a, NEW b
  PROVE  /\ DirtyItems(a \cup b) = DirtyItems(a) \cup DirtyItems(b)
         /\ NamedEditions(a \cup b) = NamedEditions(a) \cup NamedEditions(b)
         /\ NamedMasters(a \cup b) = NamedMasters(a) \cup NamedMasters(b)
         /\ NamedParents(a \cup b) = NamedParents(a) \cup NamedParents(b)
<1>1. DirtyItems(a \cup b) = DirtyItems(a) \cup DirtyItems(b)
  BY NamesAre DEF AllNamed, Naming
<1>2. NamedEditions(a \cup b) = NamedEditions(a) \cup NamedEditions(b)
  BY <1>1, NamesAre DEF AllNamed, Naming
<1>3. NamedMasters(a \cup b) = NamedMasters(a) \cup NamedMasters(b)
  BY <1>1, NamesAre DEF AllNamed, Naming
<1>4. NamedParents(a \cup b) = NamedParents(a) \cup NamedParents(b)
  BY <1>2, <1>3, NamesAre DEF AllNamed, Naming
<1>. QED BY <1>1, <1>2, <1>3, <1>4

\* An item is superseded by one other at a time.
OneHop == \A s, t \in Open : s[1] = t[1] => s = t

Resolved ==
  /\ \A i, j : <<i, j>> \in Open => Resolve(i) = j
  /\ \A i : Resolve(i) = i \/ <<i, Resolve(i)>> \in Open

(* Where nothing is superseded twice, an item resolves by its one open supersession. *)
LEMMA ResolveIs == SourcesOK /\ OneHop => Resolved
<1>. SUFFICES ASSUME SourcesOK, OneHop PROVE Resolved
  OBVIOUS
<1>1. \A s \in Open : s = <<s[1], s[2]>>
  BY DEF Open, SourcesOK
<1>2. ASSUME NEW i, \E s \in Open : s[1] = i
      PROVE  \E s \in Open : s[1] = i /\ Resolve(i) = s[2]
  BY <1>2 DEF Resolve
<1>3. \A i, j : <<i, j>> \in Open => Resolve(i) = j
  BY <1>2 DEF OneHop
<1>4. ASSUME NEW i PROVE Resolve(i) = i \/ <<i, Resolve(i)>> \in Open
  <2>1. CASE \E s \in Open : s[1] = i
    <3>1. PICK s \in Open : s[1] = i /\ Resolve(i) = s[2]
      BY <2>1, <1>2
    <3>2. s = <<i, Resolve(i)>>
      BY <3>1, <1>1
    <3>. QED BY <3>1, <3>2
  <2>2. CASE ~\E s \in Open : s[1] = i
    BY <2>2 DEF Resolve
  <2>. QED BY <2>1, <2>2
<1>. QED BY <1>3, <1>4 DEF Resolved

\* The side events of an item: its further aliases in "stored", links of keys it holds, supersessions.
SideEvent(stored, i, x) ==
  \/ \E n \in Nat : n > 1 /\ <<i, n>> \in stored /\ x = <<"alias", n>>
  \/ \E k \in base["link"] : holder[k] = i /\ x = <<"link", k>>
  \/ \E c \in {"opened", "reverted"}, s \in Releases \X Releases :
       s \in base[c] /\ i \in {s[1], s[2]} /\ x = <<c, s>>

(* The rows of editions are the side events of the releases that are their members. *)
LEMMA RowsAre ==
  ASSUME SourcesOK, NEW stored \in SUBSET (Items \X (Nat \ {0})), NEW S \in SUBSET Items,
         NEW edition \in [S -> Items]
  PROVE  \A f : f \in EditionRows(stored, edition) <=>
           \E i \in S \cap Releases, x \in Event : SideEvent(stored, i, x) /\ f = <<edition[i], i, x>>
<1>1. ASSUME NEW e \in SideEvents(stored, S)
      PROVE  e[1] \in S \cap Releases /\ e[2] \in Event /\ SideEvent(stored, e[1], e[2])
  <2>1. e[1] \in S \cap Releases /\ e[2] \in Event
    BY SideEventsType
  <2>2. CASE \E r \in stored : r[1] \in S \cap Releases /\ r[2] > 1 /\ e = <<r[1], <<"alias", r[2]>>>>
    <3>1. PICK r \in stored : r[2] > 1 /\ e = <<r[1], <<"alias", r[2]>>>>
      BY <2>2
    <3>2. r = <<r[1], r[2]>> /\ r[2] \in Nat
      OBVIOUS
    <3>3. e[1] = r[1] /\ e[2] = <<"alias", r[2]>> /\ <<e[1], r[2]>> \in stored
      BY <3>1, <3>2
    <3>. QED BY <2>1, <3>1, <3>2, <3>3 DEF SideEvent
  <2>3. CASE \E k \in base["link"] : e = <<holder[k], <<"link", k>>>>
    <3>1. PICK k \in base["link"] : e = <<holder[k], <<"link", k>>>>
      BY <2>3
    <3>2. holder[k] = e[1] /\ e[2] = <<"link", k>>
      BY <3>1
    <3>. QED BY <2>1, <3>2 DEF SideEvent
  <2>4. CASE e \in S \X ({"opened", "reverted"} \X (Releases \X Releases))
             /\ e[2][2] \in base[e[2][1]] /\ e[1] \in {e[2][2][1], e[2][2][2]}
    <3>1. e[2] = <<e[2][1], e[2][2]>> /\ e[2][1] \in {"opened", "reverted"} /\ e[2][2] \in Releases \X Releases
      BY <2>4
    <3>. QED BY <2>1, <2>4, <3>1 DEF SideEvent
  <2>. QED BY <2>1, <2>2, <2>3, <2>4 DEF SideEvents
<1>2. ASSUME NEW i \in S \cap Releases, NEW x, SideEvent(stored, i, x)
      PROVE  <<i, x>> \in SideEvents(stored, S)
  <2>. DEFINE a == {r \in stored : r[1] \in S \cap Releases /\ r[2] > 1}
              l == {k \in base["link"] : holder[k] \in S}
              v == S \X ({"opened", "reverted"} \X (Releases \X Releases))
  <2>0. SideEvents(stored, S) = {<<r[1], <<"alias", r[2]>>>> : r \in a} \cup {<<holder[k], <<"link", k>>>> : k \in l}
          \cup {e \in v : e[2][2] \in base[e[2][1]] /\ e[1] \in {e[2][2][1], e[2][2][2]}}
    BY DEF SideEvents
  <2>1. CASE \E n \in Nat : n > 1 /\ <<i, n>> \in stored /\ x = <<"alias", n>>
    <3>1. PICK n \in Nat : n > 1 /\ <<i, n>> \in stored /\ x = <<"alias", n>>
      BY <2>1
    <3>2. PICK r \in stored : r = <<i, n>>
      BY <3>1
    <3>3. r[1] = i /\ r[2] = n /\ r \in a
      BY <3>1, <3>2
    <3>. QED BY <2>0, <3>1, <3>3
  <2>2. CASE \E k \in base["link"] : holder[k] = i /\ x = <<"link", k>>
    <3>1. PICK k \in l : holder[k] = i /\ x = <<"link", k>>
      BY <2>2
    <3>. QED BY <2>0, <3>1
  <2>3. CASE \E c \in {"opened", "reverted"}, s \in Releases \X Releases :
               s \in base[c] /\ i \in {s[1], s[2]} /\ x = <<c, s>>
    <3>1. PICK c \in {"opened", "reverted"}, s \in Releases \X Releases :
            s \in base[c] /\ i \in {s[1], s[2]} /\ x = <<c, s>>
      BY <2>3
    <3>2. <<i, x>> \in v
      BY <3>1
    <3>3. <<i, x>>[2][2] \in base[<<i, x>>[2][1]] /\ <<i, x>>[1] \in {<<i, x>>[2][2][1], <<i, x>>[2][2][2]}
      BY <3>1
    <3>. QED BY <2>0, <3>2, <3>3
  <2>. QED BY <1>2, <2>1, <2>2, <2>3 DEF SideEvent
<1>3. EditionRows(stored, edition) = {<<edition[e[1]], e[1], e[2]>> : e \in SideEvents(stored, S)}
  BY DEF EditionRows
<1>4. ASSUME NEW i \in S \cap Releases, NEW x \in Event, SideEvent(stored, i, x)
      PROVE  <<edition[i], i, x>> \in EditionRows(stored, edition)
  <2>1. <<i, x>> \in SideEvents(stored, S)
    BY <1>2, <1>4
  <2>. QED BY <2>1, <1>3
<1>5. ASSUME NEW f \in EditionRows(stored, edition)
      PROVE  \E i \in S \cap Releases, x \in Event : SideEvent(stored, i, x) /\ f = <<edition[i], i, x>>
  <2>1. PICK e \in SideEvents(stored, S) : f = <<edition[e[1]], e[1], e[2]>>
    BY <1>3
  <2>. QED BY <2>1, <1>1
<1>. QED BY <1>4, <1>5

FullRows ==
  \A f : f \in Recomputed.events <=>
    \E i \in Releases, x \in Event : SideEvent(aliased, i, x) /\ f = <<Resolve(i), i, x>>

(* A recompute puts every side event of a release under what the release resolves to. *)
LEMMA FullEvents == SourcesOK => FullRows
<1>. SUFFICES ASSUME SourcesOK PROVE FullRows
  OBVIOUS
<1>. DEFINE id == [i \in Releases |-> Resolve(i)]
<1>1. Releases \in SUBSET Items /\ id \in [Releases -> Items]
  BY ResolveType DEF Items
<1>2. Recomputed.events = EditionRows(aliased, id)
  BY DEF Recomputed
<1>3. \A f : f \in EditionRows(aliased, id) <=>
        \E i \in Releases \cap Releases, x \in Event : SideEvent(aliased, i, x) /\ f = <<id[i], i, x>>
  BY <1>1, RowsAre DEF SourcesOK
<1>. QED BY <1>2, <1>3 DEF FullRows

\* An item holds a release key, itself or through one it supersedes.
Holds(e, k) == holder[k] = e \/ <<holder[k], e>> \in Open

\* An edition sits under a work by a release key and the master of that.
Under(e, w) ==
  \E k \in Keys : /\ Holds(e, k) /\ parent[k] # NoMaster /\ holder[parent[k]] # NoItem
                  /\ w = Resolve(holder[parent[k]])

(* The parents of editions are the works they sit under. *)
LEMMA ParentsAre ==
  \A E, q : q \in ParentRows(E) <=> \E e \in E : \E w : Under(e, w) /\ q = <<e, w>>
<1>. SUFFICES ASSUME NEW E, NEW q
     PROVE  q \in ParentRows(E) <=> \E e \in E : \E w : Under(e, w) /\ q = <<e, w>>
  OBVIOUS
<1>1. ASSUME q \in ParentRows(E) PROVE \E e \in E : \E w : Under(e, w) /\ q = <<e, w>>
  <2>1. PICK h \in E \X Keys : /\ holder[h[2]] = h[1] \/ <<holder[h[2]], h[1]>> \in Open
                               /\ parent[h[2]] # NoMaster /\ holder[parent[h[2]]] # NoItem
                               /\ q = <<h[1], Resolve(holder[parent[h[2]]])>>
    BY <1>1 DEF ParentRows
  <2>. QED BY <2>1 DEF Holds, Under
<1>2. ASSUME NEW e \in E, NEW w, Under(e, w), q = <<e, w>> PROVE q \in ParentRows(E)
  <2>1. PICK k \in Keys : /\ Holds(e, k) /\ parent[k] # NoMaster /\ holder[parent[k]] # NoItem
                          /\ w = Resolve(holder[parent[k]])
    BY <1>2 DEF Under
  <2>2. PICK h \in E \X Keys : h = <<e, k>>
    OBVIOUS
  <2>3. h[1] = e /\ h[2] = k
    BY <2>2
  <2>. QED BY <1>2, <2>1, <2>2, <2>3 DEF ParentRows, Holds
<1>. QED BY <1>1, <1>2

\* The full recompute's parents: of editions that have events.
FullUnder ==
  \A q : q \in Recomputed.parents <=>
    \E e \in Owners(Recomputed.events) : \E w : Under(e, w) /\ q = <<e, w>>

(* A recompute keeps the parents of the editions that have events. *)
LEMMA FullParents == FullUnder
<1>1. Recomputed.parents = ParentRows(Owners(Recomputed.events))
  BY DEF Recomputed
<1>. QED BY <1>1, ParentsAre DEF FullUnder

\* What a step changes of the sources is named by "rows", the log after it.
Logged(rows) ==
  /\ log \subseteq rows
  /\ \A k \in Keys \cup Masters : holder'[k] # holder[k] =>
       /\ \A i \in Items : i = holder[k] \/ i = holder'[k] => Item(i) \in rows
       /\ k \in Masters => Key(k) \in rows
  /\ \A i, n : ~(<<i, n>> \in aliased' <=> <<i, n>> \in aliased) => Item(i) \in rows
  /\ \A c \in {"opened", "reverted"} : \A a, b :
       ~(<<a, b>> \in base'[c] <=> <<a, b>> \in base[c]) => Item(a) \in rows /\ Item(b) \in rows
  /\ \A k : ~(k \in base'["link"] <=> k \in base["link"]) => Key(k) \in rows
  /\ \A k \in Keys : parent'[k] # parent[k] => Key(k) \in rows

(* With every trigger in place, whatever a writer changes it logs. *)
LEMMA WritersLog ==
  ASSUME TypeOK, captured = Sources, Writer, Rebuild \notin log'
  PROVE  Logged(log')
<1>0. /\ holder \in [Keys \cup Masters -> Items \cup {NoItem}]
      /\ base \in [Counted -> SUBSET (Keys \cup (Items \X Items))]
      /\ parent \in [Keys -> Masters \cup {NoMaster}] /\ NoItem \notin Items
      /\ base["link"] \subseteq Keys
  BY ConstantsDistinct DEF TypeOK, SourcesOK
<1>1. \A source \in Sources : \A rows : Captured(source, rows) = rows
  BY DEF Captured
<1>2. /\ \A rows, items, i : i \in items => Item(i) \in AliasLogged(rows, items)
      /\ \A rows, items, k : k \in rows /\ k \in Masters => Key(k) \in AliasLogged(rows, items)
  BY DEF AliasLogged
<1>3. /\ {"opened", "reverted"} \subseteq Counted /\ "link" \in Counted
      /\ {"aliases", "supersessions", "links", "parents"} = Sources
  BY DEF Counted, Sources
<1>4. ASSUME NEW k \in Keys \cup Masters, NEW i \in Items, OpenAlias(k, i) PROVE Logged(log')
  <2>1. /\ holder[k] = NoItem /\ holder' = [holder EXCEPT ![k] = i]
        /\ aliased' = aliased \cup {NextEvent(i)} /\ log' = log \cup AliasLogged({k}, {i})
        /\ UNCHANGED <<base, parent>>
    BY <1>1, <1>3, <1>4 DEF OpenAlias
  <2>2. Item(i) \in log' /\ (k \in Masters => Key(k) \in log')
    BY <1>2, <2>1
  <2>3. \A j, n : ~(<<j, n>> \in aliased' <=> <<j, n>> \in aliased) => Item(j) \in log'
    BY <2>1, <2>2 DEF NextEvent
  <2>. QED BY <1>0, <2>1, <2>2, <2>3 DEF Logged
<1>5. ASSUME NEW k \in Keys \cup Masters, CloseAlias(k) PROVE Logged(log')
  <2>1. /\ holder[k] # NoItem /\ holder' = [holder EXCEPT ![k] = NoItem]
        /\ aliased' = aliased \cup {NextEvent(holder[k])} /\ log' = log \cup AliasLogged({k}, {holder[k]})
        /\ UNCHANGED <<base, parent>>
    BY <1>1, <1>3, <1>5 DEF CloseAlias
  <2>2. Item(holder[k]) \in log' /\ (k \in Masters => Key(k) \in log')
    BY <1>2, <2>1
  <2>3. \A j, n : ~(<<j, n>> \in aliased' <=> <<j, n>> \in aliased) => Item(j) \in log'
    BY <2>1, <2>2 DEF NextEvent
  <2>. QED BY <1>0, <2>1, <2>2, <2>3 DEF Logged
<1>6. ASSUME NEW keys \in SUBSET DOMAIN holder, NEW from \in Items, NEW to \in Items, \A k \in keys : holder[k] = from,
             MoveAliases(keys, from, to)
      PROVE  /\ log \subseteq log' /\ Item(from) \in log' /\ Item(to) \in log'
             /\ \A k \in Keys \cup Masters : holder'[k] # holder[k] =>
                  holder[k] = from /\ holder'[k] = to /\ (k \in Masters => Key(k) \in log')
             /\ \A j, n : ~(<<j, n>> \in aliased' <=> <<j, n>> \in aliased) => Item(j) \in log'
  <2>1. /\ aliased' = IF keys = {} THEN aliased ELSE aliased \cup {<<to, 1>>}
        /\ holder' = [k \in DOMAIN holder |-> IF k \in keys THEN to ELSE holder[k]]
        /\ log' = log \cup {Item(from), Item(to)} \cup (IF keys = {} THEN {} ELSE AliasLogged(keys, {from, to}))
    BY <1>1, <1>3, <1>6 DEF MoveAliases
  <2>2. \A k \in Keys \cup Masters : holder'[k] # holder[k] => k \in keys /\ holder'[k] = to
    BY <1>0, <2>1
  <2>3. \A k \in keys : k \in Masters => Key(k) \in log'
    BY <1>2, <2>1
  <2>4. \A j, n : ~(<<j, n>> \in aliased' <=> <<j, n>> \in aliased) => Item(j) \in log'
    BY <2>1
  <2>. QED BY <1>6, <2>1, <2>2, <2>3, <2>4
<1>7. ASSUME NEW a \in Items, NEW b \in Items, Supersede(a, b) PROVE Logged(log')
  <2>1. PICK keys \in SUBSET Held(a) : MoveAliases(keys, a, b)
    BY <1>7 DEF Supersede
  <2>2. base' = [base EXCEPT !["opened"] = @ \cup {<<a, b>>}] /\ UNCHANGED parent
    BY <1>7 DEF Supersede
  <2>3. keys \in SUBSET DOMAIN holder /\ \A k \in keys : holder[k] = a
    BY <2>1 DEF Held
  <2>4. /\ log \subseteq log' /\ Item(a) \in log' /\ Item(b) \in log'
        /\ \A k \in Keys \cup Masters : holder'[k] # holder[k] =>
             holder[k] = a /\ holder'[k] = b /\ (k \in Masters => Key(k) \in log')
        /\ \A j, n : ~(<<j, n>> \in aliased' <=> <<j, n>> \in aliased) => Item(j) \in log'
    BY <1>6, <2>1, <2>3
  <2>5. \A c \in Counted : \A s : ~(s \in base'[c] <=> s \in base[c]) => c = "opened" /\ s = <<a, b>>
    BY <1>0, <2>2
  <2>6. /\ \A c \in {"opened", "reverted"} : \A x, y :
             ~(<<x, y>> \in base'[c] <=> <<x, y>> \in base[c]) => Item(x) \in log' /\ Item(y) \in log'
        /\ \A k : k \in base'["link"] <=> k \in base["link"]
    BY <1>3, <2>4, <2>5
  <2>. QED BY <2>2, <2>4, <2>6 DEF Logged
<1>8. ASSUME NEW a \in Items, NEW b \in Items, Revert(a, b) PROVE Logged(log')
  <2>1. PICK keys \in SUBSET Held(b) : MoveAliases(keys, b, a)
    BY <1>8 DEF Revert
  <2>2. base' = [base EXCEPT !["reverted"] = @ \cup {<<a, b>>}] /\ UNCHANGED parent
    BY <1>8 DEF Revert
  <2>3. keys \in SUBSET DOMAIN holder /\ \A k \in keys : holder[k] = b
    BY <2>1 DEF Held
  <2>4. /\ log \subseteq log' /\ Item(a) \in log' /\ Item(b) \in log'
        /\ \A k \in Keys \cup Masters : holder'[k] # holder[k] =>
             holder[k] = b /\ holder'[k] = a /\ (k \in Masters => Key(k) \in log')
        /\ \A j, n : ~(<<j, n>> \in aliased' <=> <<j, n>> \in aliased) => Item(j) \in log'
    BY <1>6, <2>1, <2>3
  <2>5. \A c \in Counted : \A s : ~(s \in base'[c] <=> s \in base[c]) => c = "reverted" /\ s = <<a, b>>
    BY <1>0, <2>2
  <2>6. /\ \A c \in {"opened", "reverted"} : \A x, y :
             ~(<<x, y>> \in base'[c] <=> <<x, y>> \in base[c]) => Item(x) \in log' /\ Item(y) \in log'
        /\ \A k : k \in base'["link"] <=> k \in base["link"]
    BY <1>3, <2>4, <2>5
  <2>. QED BY <2>2, <2>4, <2>6 DEF Logged
<1>9. ASSUME NEW k \in Keys, Link(k) \/ Unlink(k) PROVE Logged(log')
  <2>1. /\ log' = log \cup {Key(k)} /\ UNCHANGED <<holder, aliased, parent>>
        /\ \/ base' = [base EXCEPT !["link"] = @ \cup {k}]
           \/ base' = [base EXCEPT !["link"] = @ \ {k}]
    BY <1>1, <1>3, <1>9 DEF Link, Unlink
  <2>2. \A c \in Counted : \A s : ~(s \in base'[c] <=> s \in base[c]) => c = "link" /\ s = k
    BY <1>0, <2>1
  <2>. QED BY <1>3, <2>1, <2>2 DEF Logged
<1>10. ASSUME NEW k \in Keys, NEW m \in Masters \cup {NoMaster}, SetParent(k, m) PROVE Logged(log')
  <2>1. /\ log' = log \cup {Key(k)} /\ UNCHANGED <<holder, aliased, base>>
        /\ parent' = [parent EXCEPT ![k] = m]
    BY <1>1, <1>3, <1>10 DEF SetParent
  <2>2. \A j \in Keys : parent'[j] # parent[j] => j = k
    BY <1>0, <2>1
  <2>. QED BY <2>1, <2>2 DEF Logged
<1>11. ~TruncateLinks /\ ~RequestRebuild
  BY <1>1, <1>3 DEF TruncateLinks, RequestRebuild
<1>. QED
  BY <1>4, <1>5, <1>7, <1>8, <1>9, <1>10, <1>11 DEF Writer

(* The same after a step. *)
LEMMA NamesAfter == AllNamed'
BY NamesAre, PTL

LEMMA ResolveAfter == SourcesOK' /\ OneHop' => Resolved'
BY ResolveIs, PTL

LEMMA RowsAfter == SourcesOK' => FullRows'
BY FullEvents, PTL

LEMMA UnderAfter == FullUnder'
BY FullParents, PTL

(* An item that the log does not name resolves as before, and what resolves to it does too. *)
LEMMA NamesGrow ==
  ASSUME SourcesOK, SourcesOK', OneHop, OneHop', NEW L, Logged(L)
  PROVE  /\ \A i, j \in Items : Item(j) \notin L => (Resolve(i) = j <=> Resolve(i)' = j)
         /\ \A i \in Items : Item(i) \notin L => Resolve(i)' = Resolve(i)
         /\ \A i \in Items : Item(i) \in L => i \in DirtyItems(L)'
         /\ \A i \in DirtyItems(L)' \cap Items :
              {i, Resolve(i), Resolve(i)'} \subseteq NamedEditions(L)'
<1>0. AllNamed' /\ Resolved /\ Resolved'
  BY NamesAfter, ResolveIs, ResolveAfter
<1>1. \A i, j \in Items : Item(i) \notin L \/ Item(j) \notin L => (<<i, j>> \in Open <=> <<i, j>> \in Open')
  BY DEF Logged, Open
<1>2. \A i \in Items : Item(i) \in L => i \in DirtyItems(L)'
  BY <1>0 DEF AllNamed, Naming
<1>3. \A i \in DirtyItems(L)' : i \in NamedEditions(L)' /\ Resolve(i)' \in NamedEditions(L)'
  BY <1>0 DEF AllNamed, Naming
<1>4. \A i, j : /\ <<i, j>> \in Open => i \in Items /\ j \in Items
                /\ <<i, j>> \in Open' => i \in Items /\ j \in Items
  BY DEF Open, SourcesOK, Items
<1>5. ASSUME NEW i \in Items, Item(i) \notin L PROVE Resolve(i)' = Resolve(i)
  <2>1. CASE \E j : <<i, j>> \in Open
    <3>1. PICK j : <<i, j>> \in Open
      BY <2>1
    <3>2. <<i, j>> \in Open'
      BY <1>1, <1>4, <1>5, <3>1
    <3>. QED BY <1>0, <3>1, <3>2 DEF Resolved
  <2>2. CASE ~\E j : <<i, j>> \in Open
    <3>1. ~\E j : <<i, j>> \in Open'
      BY <1>1, <1>4, <1>5, <2>2
    <3>. QED BY <1>0, <2>2, <3>1 DEF Resolved
  <2>. QED BY <2>1, <2>2
<1>6. ASSUME NEW i \in Items, NEW j \in Items, Item(j) \notin L
      PROVE  Resolve(i) = j <=> Resolve(i)' = j
  <2>1. CASE i = j
    BY <1>5, <1>6, <2>1
  <2>2. CASE i # j
    <3>1. Resolve(i) = j <=> <<i, j>> \in Open
      BY <1>0, <2>2 DEF Resolved
    <3>2. Resolve(i)' = j <=> <<i, j>> \in Open'
      BY <1>0, <2>2 DEF Resolved
    <3>. QED BY <1>1, <1>6, <3>1, <3>2
  <2>. QED BY <2>1, <2>2
<1>7. ASSUME NEW i \in Items, i \in DirtyItems(L)' PROVE Resolve(i) \in NamedEditions(L)'
  <2>1. Resolve(i) \in Items
    BY ResolveType
  <2>2. CASE Item(Resolve(i)) \in L
    BY <1>2, <1>3, <2>1, <2>2
  <2>3. CASE Item(Resolve(i)) \notin L
    BY <1>3, <1>6, <1>7, <2>1, <2>3
  <2>. QED BY <2>2, <2>3
<1>. QED BY <1>2, <1>3, <1>5, <1>6, <1>7

(* What rows of the log named stays named by the log, and what other rows come to name it names too. *)
LEMMA NamesKept ==
  ASSUME SourcesOK, SourcesOK', OneHop, OneHop', NEW L, Logged(L), NEW rows
  PROVE  /\ rows \subseteq L => /\ DirtyItems(rows) \subseteq DirtyItems(L)'
                                /\ NamedEditions(rows) \subseteq NamedEditions(L)'
                                /\ NamedMasters(rows) \subseteq NamedMasters(L)'
                                /\ NamedParents(rows) \subseteq NamedParents(L)'
         /\ DirtyItems(rows)' \subseteq DirtyItems(rows) \cup DirtyItems(L)'
         /\ NamedEditions(rows)' \subseteq NamedEditions(rows) \cup NamedEditions(L)'
         /\ NamedMasters(rows)' \subseteq NamedMasters(rows) \cup NamedMasters(L)'
         /\ NamedParents(rows)' \subseteq NamedParents(rows) \cup NamedParents(L)'
<1>0. Naming(rows) /\ Naming(rows)' /\ Naming(L)'
  BY NamesAre, NamesAfter DEF AllNamed
<1>1. /\ \A i, j \in Items : Item(j) \notin L => (Resolve(i) = j <=> Resolve(i)' = j)
      /\ \A i \in Items : Item(i) \notin L => Resolve(i)' = Resolve(i)
      /\ \A i \in Items : Item(i) \in L => i \in DirtyItems(L)'
      /\ \A i \in DirtyItems(L)' \cap Items : {i, Resolve(i), Resolve(i)'} \subseteq NamedEditions(L)'
  BY NamesGrow
<1>2. /\ \A k \in Keys \cup Masters : /\ holder[k] # NoItem => holder[k] \in Items
                                      /\ holder'[k] # NoItem => holder'[k] \in Items
      /\ DirtyItems(rows) \subseteq Items /\ DirtyItems(rows)' \subseteq Items
      /\ \A i \in Items : Resolve(i) \in Items
  BY DirtyType, ResolveType, <1>0 DEF SourcesOK, Naming
<1>3. \A k \in Keys \cup Masters : holder'[k] # holder[k] =>
        /\ holder[k] # NoItem => holder[k] \in DirtyItems(L)'
        /\ holder'[k] # NoItem => holder'[k] \in DirtyItems(L)'
        /\ k \in Masters => k \in NamedMasters(L)'
  BY <1>0, <1>1, <1>2 DEF Logged, Naming
<1>4. ASSUME rows \subseteq L
      PROVE  /\ DirtyItems(rows) \subseteq DirtyItems(L)'
             /\ NamedEditions(rows) \subseteq NamedEditions(L)'
             /\ NamedMasters(rows) \subseteq NamedMasters(L)'
             /\ NamedParents(rows) \subseteq NamedParents(L)'
  <2>1. ASSUME NEW i \in DirtyItems(rows) PROVE i \in DirtyItems(L)'
    <3>1. CASE i \in Items /\ Item(i) \in rows
      BY <1>1, <1>4, <3>1
    <3>2. CASE \E k \in Keys : Key(k) \in rows /\ holder[k] # NoItem /\ i = holder[k]
      BY <1>0, <1>3, <1>4, <3>2 DEF Naming
    <3>. QED BY <1>0, <3>1, <3>2 DEF Naming
  <2>2. ASSUME NEW e \in NamedEditions(rows) PROVE e \in NamedEditions(L)'
    <3>1. PICK i \in DirtyItems(rows) : e = i \/ e = Resolve(i)
      BY <1>0 DEF Naming
    <3>. QED BY <1>1, <1>2, <2>1, <3>1
  <2>3. ASSUME NEW m \in NamedMasters(rows) PROVE m \in NamedMasters(L)'
    <3>1. m \in Masters /\ (Key(m) \in rows \/ holder[m] \in DirtyItems(rows))
      BY <1>0 DEF Naming
    <3>. QED BY <1>0, <1>3, <1>4, <2>1, <3>1 DEF Naming
  <2>4. ASSUME NEW e \in NamedParents(rows) PROVE e \in NamedParents(L)'
    <3>1. CASE e \in NamedEditions(rows)
      BY <1>0, <2>2, <3>1 DEF Naming
    <3>2. CASE \E k \in Keys : /\ parent[k] \in NamedMasters(rows) /\ holder[k] # NoItem
                               /\ e = holder[k] \/ e = Resolve(holder[k])
      <4>1. PICK k \in Keys : /\ parent[k] \in NamedMasters(rows) /\ holder[k] # NoItem
                              /\ e = holder[k] \/ e = Resolve(holder[k])
        BY <3>2
      <4>2. CASE holder'[k] # holder[k] \/ parent'[k] # parent[k]
        <5>1. holder[k] \in DirtyItems(L)' /\ holder[k] \in Items
          BY <1>0, <1>2, <1>3, <4>1, <4>2 DEF Logged, Naming
        <5>2. e \in NamedEditions(L)'
          BY <1>1, <4>1, <5>1
        <5>. QED BY <1>0, <5>2 DEF Naming
      <4>3. CASE holder'[k] = holder[k] /\ parent'[k] = parent[k]
        <5>1. parent'[k] \in NamedMasters(L)' /\ holder'[k] # NoItem /\ holder[k] \in Items
          BY <1>2, <2>3, <4>1, <4>3
        <5>2. CASE e = holder[k] \/ e = Resolve(holder[k])'
          BY <1>0, <4>3, <5>1, <5>2 DEF Naming
        <5>3. CASE e = Resolve(holder[k]) /\ Item(e) \in L
          BY <1>0, <1>1, <1>2, <5>1, <5>3 DEF Naming
        <5>4. CASE e = Resolve(holder[k]) /\ Item(e) \notin L
          <6>1. PICK i \in Items : i = holder[k] /\ i = holder'[k]
            BY <4>3, <5>1
          <6>2. e = Resolve(i) /\ e \in Items
            BY <1>2, <5>4, <6>1
          <6>3. e = Resolve(i)'
            BY <1>1, <5>4, <6>2
          <6>. QED BY <1>0, <5>1, <6>1, <6>3 DEF Naming
        <5>. QED BY <4>1, <5>2, <5>3, <5>4
      <4>. QED BY <4>2, <4>3
    <3>. QED BY <1>0, <3>1, <3>2 DEF Naming
  <2>. QED BY <2>1, <2>2, <2>3, <2>4
<1>5. ASSUME NEW i \in DirtyItems(rows)' PROVE i \in DirtyItems(rows) \/ i \in DirtyItems(L)'
  BY <1>0, <1>3 DEF Naming
<1>6. ASSUME NEW e \in NamedEditions(rows)' PROVE e \in NamedEditions(rows) \/ e \in NamedEditions(L)'
  <2>1. PICK i \in DirtyItems(rows)' : e = i \/ e = Resolve(i)'
    BY <1>0 DEF Naming
  <2>2. CASE i \in DirtyItems(L)'
    BY <1>1, <1>2, <2>1, <2>2
  <2>3. CASE i \in DirtyItems(rows) /\ i \notin DirtyItems(L)'
    <3>1. Resolve(i)' = Resolve(i)
      BY <1>1, <1>2, <2>3
    <3>. QED BY <1>0, <2>1, <2>3, <3>1 DEF Naming
  <2>. QED BY <1>5, <2>2, <2>3
<1>7. ASSUME NEW m \in NamedMasters(rows)' PROVE m \in NamedMasters(rows) \/ m \in NamedMasters(L)'
  <2>1. m \in Masters /\ (Key(m) \in rows \/ holder'[m] \in DirtyItems(rows)')
    BY <1>0 DEF Naming
  <2>2. CASE holder'[m] # holder[m]
    BY <1>3, <2>1, <2>2
  <2>3. CASE holder'[m] = holder[m]
    BY <1>0, <1>5, <2>1, <2>3 DEF Naming
  <2>. QED BY <2>2, <2>3
<1>8. ASSUME NEW e \in NamedParents(rows)' PROVE e \in NamedParents(rows) \/ e \in NamedParents(L)'
  <2>1. CASE e \in NamedEditions(rows)'
    BY <1>0, <1>6, <2>1 DEF Naming
  <2>2. CASE \E k \in Keys : /\ parent'[k] \in NamedMasters(rows)' /\ holder'[k] # NoItem
                             /\ e = holder'[k] \/ e = Resolve(holder[k])'
    <3>1. PICK k \in Keys : /\ parent'[k] \in NamedMasters(rows)' /\ holder'[k] # NoItem
                            /\ e = holder'[k] \/ e = Resolve(holder[k])'
      BY <2>2
    <3>2. PICK i \in Items : i = holder'[k]
      BY <1>2, <3>1
    <3>3. e = i \/ e = Resolve(i)'
      BY <3>1, <3>2 DEF Resolve
    <3>4. CASE holder'[k] # holder[k] \/ parent'[k] # parent[k]
      <4>1. i \in DirtyItems(L)'
        BY <1>0, <1>3, <3>1, <3>2, <3>4 DEF Logged, Naming
      <4>2. e \in NamedEditions(L)'
        BY <1>1, <3>3, <4>1
      <4>. QED BY <1>0, <4>2 DEF Naming
    <3>5. CASE parent'[k] \in NamedMasters(L)'
      BY <1>0, <3>1, <3>5 DEF Naming
    <3>6. CASE holder'[k] = holder[k] /\ parent'[k] = parent[k] /\ parent[k] \in NamedMasters(rows)
      <4>1. CASE Item(i) \in L
        <5>1. e \in NamedEditions(L)'
          BY <1>1, <3>3, <4>1
        <5>. QED BY <1>0, <5>1 DEF Naming
      <4>2. CASE Item(i) \notin L
        <5>1. e = i \/ e = Resolve(i)
          BY <1>1, <3>3, <4>2
        <5>. QED BY <1>0, <3>1, <3>2, <3>6, <5>1 DEF Naming
      <4>. QED BY <4>1, <4>2
    <3>. QED BY <1>7, <3>1, <3>4, <3>5, <3>6
  <2>. QED BY <1>0, <2>1, <2>2 DEF Naming
<1>. QED BY <1>4, <1>5, <1>6, <1>7, <1>8

(* An edition that the log does not name has the events and the parents it had. *)
LEMMA RowsStay ==
  ASSUME SourcesOK, SourcesOK', OneHop, OneHop', NEW L, Logged(L)
  PROVE  /\ \A i, n : i \in Items /\ i \notin DirtyItems(L)' => (<<i, n>> \in aliased <=> <<i, n>> \in aliased')
         /\ \A f : f[1] \in Items /\ f[1] \notin NamedEditions(L)' =>
              (f \in Recomputed.events <=> f \in Recomputed.events')
         /\ \A q : q[1] \in Items /\ q[1] \notin NamedParents(L)' =>
              (q \in Recomputed.parents <=> q \in Recomputed.parents')
<1>0. Naming(L)' /\ FullRows /\ FullRows' /\ FullUnder /\ FullUnder' /\ Resolved /\ Resolved'
  BY NamesAfter, FullEvents, RowsAfter, FullParents, UnderAfter, ResolveIs, ResolveAfter DEF AllNamed
<1>1. /\ \A i, j \in Items : Item(j) \notin L => (Resolve(i) = j <=> Resolve(i)' = j)
      /\ \A i \in Items : Item(i) \notin L => Resolve(i)' = Resolve(i)
      /\ \A i \in Items : Item(i) \in L => i \in DirtyItems(L)'
      /\ \A i \in DirtyItems(L)' \cap Items : {i, Resolve(i), Resolve(i)'} \subseteq NamedEditions(L)'
  BY NamesGrow
<1>2. \A i, n : i \in Items /\ i \notin DirtyItems(L)' => (<<i, n>> \in aliased <=> <<i, n>> \in aliased')
  BY <1>1 DEF Logged
<1>3. ASSUME NEW i \in Releases, i \notin DirtyItems(L)', NEW x
      PROVE  SideEvent(aliased, i, x) <=> SideEvent(aliased, i, x)'
  <2>1. i \in Items /\ i # NoItem
    BY ConstantsDistinct DEF Items
  <2>2. \A n : <<i, n>> \in aliased <=> <<i, n>> \in aliased'
    BY <1>2, <1>3, <2>1
  <2>3. \A k \in Keys : (k \in base["link"] /\ holder[k] = i) <=> (k \in base'["link"] /\ holder'[k] = i)
    BY <1>0, <1>1, <1>3, <2>1 DEF Logged, Naming
  <2>4. \A c \in {"opened", "reverted"}, s \in Releases \X Releases :
          i \in {s[1], s[2]} => (s \in base[c] <=> s \in base'[c])
    BY <1>1, <1>3, <2>1 DEF Logged
  <2>5. base["link"] \subseteq Keys /\ base'["link"] \subseteq Keys
    BY DEF SourcesOK
  <2>. QED BY <2>2, <2>3, <2>4, <2>5 DEF SideEvent
<1>4. ASSUME NEW e \in Items, e \notin NamedEditions(L)', NEW f, f[1] = e
      PROVE  f \in Recomputed.events <=> f \in Recomputed.events'
  <2>1. Item(e) \notin L
    BY <1>1, <1>4
  <2>2. \A i \in Releases : Resolve(i) = e <=> Resolve(i)' = e
    BY <1>1, <2>1, <1>4 DEF Items
  <2>3. \A i \in Releases : Resolve(i) = e => i \notin DirtyItems(L)'
    BY <1>1, <1>4, <2>2 DEF Items
  <2>4. ASSUME f \in Recomputed.events PROVE f \in Recomputed.events'
    <3>1. PICK i \in Releases, x \in Event : SideEvent(aliased, i, x) /\ f = <<Resolve(i), i, x>>
      BY <1>0, <2>4 DEF FullRows
    <3>2. Resolve(i) = e
      BY <1>4, <3>1
    <3>3. SideEvent(aliased, i, x)' /\ f = <<Resolve(i)', i, x>>
      BY <1>3, <2>2, <2>3, <3>1, <3>2
    <3>. QED BY <1>0, <3>3 DEF FullRows
  <2>5. ASSUME f \in Recomputed.events' PROVE f \in Recomputed.events
    <3>1. PICK i \in Releases, x \in Event : SideEvent(aliased, i, x)' /\ f = <<Resolve(i)', i, x>>
      BY <1>0, <2>5 DEF FullRows
    <3>2. Resolve(i) = e
      BY <1>4, <2>2, <3>1
    <3>3. SideEvent(aliased, i, x) /\ f = <<Resolve(i), i, x>>
      BY <1>3, <2>2, <2>3, <3>1, <3>2
    <3>. QED BY <1>0, <3>3 DEF FullRows
  <2>. QED BY <2>4, <2>5
<1>5. ASSUME NEW e \in Items, e \notin NamedParents(L)', NEW k \in Keys, Holds(e, k) \/ Holds(e, k)'
      PROVE  /\ Holds(e, k) /\ Holds(e, k)' /\ holder'[k] = holder[k] /\ holder[k] \in Items
             /\ parent'[k] = parent[k]
  <2>1. e \notin NamedEditions(L)' /\ Item(e) \notin L /\ e # NoItem
    BY <1>0, <1>1, <1>5, ConstantsDistinct DEF Naming
  <2>2. \A j \in Items : <<j, e>> \in Open <=> <<j, e>> \in Open'
    BY <2>1 DEF Logged, Open
  <2>3. \A j \in Items : <<j, e>> \in Open' => Item(j) \notin L
    <3>1. \A j \in Items : <<j, e>> \in Open' => Resolve(j)' = e
      BY <1>0 DEF Resolved
    <3>. QED BY <1>1, <2>1, <3>1
  <2>4. \A j : <<j, e>> \in Open \/ <<j, e>> \in Open' => j \in Items
    BY DEF Open, SourcesOK, Items
  <2>5. holder'[k] = holder[k] /\ holder[k] \in Items
    BY <1>5, <2>1, <2>2, <2>3, <2>4 DEF Logged, Holds
  <2>6. Holds(e, k) /\ Holds(e, k)'
    BY <1>5, <2>2, <2>5 DEF Holds
  <2>7. Key(k) \notin L
    <3>1. ASSUME Key(k) \in L PROVE FALSE
      <4>1. holder[k] \in DirtyItems(L)'
        BY <1>0, <2>5, <3>1, ConstantsDistinct DEF Naming
      <4>2. e = holder[k] \/ e = Resolve(holder[k])'
        BY <1>0, <2>6, <2>5 DEF Holds, Resolved
      <4>3. PICK i \in Items : i = holder[k]
        BY <2>5
      <4>4. e = i \/ e = Resolve(i)'
        <5>1. e = i \/ <<i, e>> \in Open'
          BY <2>5, <2>6, <4>3 DEF Holds
        <5>. QED BY <1>0, <5>1 DEF Resolved
      <4>. QED BY <1>1, <2>1, <4>1, <4>3, <4>4
    <3>. QED BY <3>1
  <2>. QED BY <2>5, <2>6, <2>7 DEF Logged
<1>6. ASSUME NEW e \in Items, e \notin NamedParents(L)', NEW k \in Keys, Holds(e, k), parent[k] # NoMaster
      PROVE  /\ holder'[parent[k]] = holder[parent[k]]
             /\ holder[parent[k]] # NoItem => Resolve(holder[parent[k]])' = Resolve(holder[parent[k]])
  <2>1. /\ Holds(e, k)' /\ holder'[k] = holder[k] /\ holder[k] \in Items /\ parent'[k] = parent[k]
        /\ parent[k] \in Masters
    BY <1>5, <1>6 DEF SourcesOK
  <2>2. parent[k] \notin NamedMasters(L)'
    <3>1. PICK i \in Items : i = holder'[k]
      BY <2>1
    <3>2. e = i \/ e = Resolve(i)'
      <4>1. e = i \/ <<i, e>> \in Open'
        BY <2>1, <3>1 DEF Holds
      <4>. QED BY <1>0, <4>1 DEF Resolved
    <3>3. e = holder'[k] \/ e = Resolve(holder[k])'
      BY <3>1, <3>2 DEF Resolve
    <3>. QED BY <1>0, <1>6, <2>1, <3>3, ConstantsDistinct DEF Naming
  <2>3. PICK m \in Masters : m = parent[k]
    BY <2>1
  <2>4. Key(m) \notin L /\ holder'[m] = holder[m] /\ holder'[m] \notin DirtyItems(L)'
    BY <1>0, <2>2, <2>3 DEF Logged, Naming
  <2>5. ASSUME holder[m] # NoItem PROVE Resolve(holder[m])' = Resolve(holder[m])
    <3>1. PICK w \in Items : w = holder[m] /\ w = holder'[m]
      BY <2>4, <2>5 DEF SourcesOK
    <3>2. Resolve(w)' = Resolve(w)
      BY <1>1, <2>4, <3>1
    <3>3. Resolve(holder[m])' = Resolve(w)'
      BY <3>1 DEF Resolve
    <3>4. Resolve(holder[m]) = Resolve(w)
      BY <3>1
    <3>. QED BY <3>2, <3>3, <3>4, Zenon
  <2>6. Resolve(holder[parent[k]])' = Resolve(holder[m])' /\ Resolve(holder[parent[k]]) = Resolve(holder[m])
    BY <2>1, <2>3 DEF Resolve
  <2>. QED BY <2>3, <2>4, <2>5, <2>6
<1>7. ASSUME NEW e \in Items, e \notin NamedParents(L)', NEW w
      PROVE  Under(e, w) <=> Under(e, w)'
  <2>1. ASSUME NEW k \in Keys
        PROVE  /\ Holds(e, k) /\ parent[k] # NoMaster /\ holder[parent[k]] # NoItem /\ w = Resolve(holder[parent[k]])
               <=> (Holds(e, k) /\ parent[k] # NoMaster /\ holder[parent[k]] # NoItem /\ w = Resolve(holder[parent[k]]))'
    <3>1. CASE ~Holds(e, k) /\ ~Holds(e, k)'
      BY <3>1
    <3>2. CASE Holds(e, k) \/ Holds(e, k)'
      <4>1. Holds(e, k) /\ Holds(e, k)' /\ parent'[k] = parent[k]
        BY <1>5, <1>7, <3>2
      <4>2. parent[k] # NoMaster =>
              /\ holder'[parent[k]] = holder[parent[k]]
              /\ holder[parent[k]] # NoItem => Resolve(holder[parent[k]])' = Resolve(holder[parent[k]])
        BY <1>6, <1>7, <4>1
      <4>. QED BY <4>1, <4>2
    <3>. QED BY <3>1, <3>2
  <2>. QED BY <2>1 DEF Under
<1>8. ASSUME NEW e \in Items, e \notin NamedParents(L)', NEW q, q[1] = e
      PROVE  q \in Recomputed.parents <=> q \in Recomputed.parents'
  <2>1. e \notin NamedEditions(L)'
    BY <1>0, <1>8 DEF Naming
  <2>2. e \in Owners(Recomputed.events) <=> e \in Owners(Recomputed.events')
    BY <1>4, <1>8, <2>1 DEF Owners
  <2>3. q \in Recomputed.parents <=> e \in Owners(Recomputed.events) /\ \E w : Under(e, w) /\ q = <<e, w>>
    BY <1>0, <1>8 DEF FullUnder
  <2>4. q \in Recomputed.parents' <=> e \in Owners(Recomputed.events') /\ \E w : Under(e, w)' /\ q = <<e, w>>
    <3>1. q \in Recomputed.parents' <=>
            \E d \in Owners(Recomputed.events') : \E w : Under(d, w)' /\ q = <<d, w>>
      BY <1>0 DEF FullUnder, Owners
    <3>. QED BY <3>1, <1>8
  <2>. QED BY <1>7, <1>8, <2>2, <2>3, <2>4
<1>. QED BY <1>2, <1>4, <1>8

Same(a, b, S) == \A e \in a \cup b : e[1] \notin S => (e \in a <=> e \in b)

\* Tables that are as a full recompute has them, but for what "rows" name.
ItemsFresh(t, rows) == Same(t.items, aliased, DirtyItems(rows))
EventsFresh(t, rows) == Same(t.events, Recomputed.events, NamedEditions(rows))
ParentsFresh(t, rows) == Same(t.parents, Recomputed.parents, NamedParents(rows))
Fresh(t, rows) == ItemsFresh(t, rows) /\ EventsFresh(t, rows) /\ ParentsFresh(t, rows)

\* The tables of its copy that a refresh has done with.
ItemsDone == {"editions", "members", "events", "masters", "parent editions", "parents", "commit",
              "rebuild events", "rebuild parents", "rebuild density"}
EventsDone == {"masters", "parent editions", "parents", "commit", "rebuild parents", "rebuild density"}
ParentsDone == {"commit", "rebuild density"}
NextFresh(r, rows) ==
  /\ r.step \in ItemsDone => ItemsFresh(r.next, rows)
  /\ r.step \in EventsDone => EventsFresh(r.next, rows)
  /\ r.step \in ParentsDone => ParentsFresh(r.next, rows)

\* What the drained rows name is what the refresh chose, or "rows" name it again.
Chosen(r, rows) ==
  /\ r.step \in Maintaining => DirtyItems(r.changed) \subseteq r.dirty \cup DirtyItems(rows)
  /\ r.step \in {"members", "events", "masters", "parent editions"} =>
       NamedEditions(r.changed) \subseteq r.editions \cup NamedEditions(rows)
  /\ r.step = "events" =>
       \A e \in r.editions \ NamedEditions(rows), i \in Items :
         (i \in DOMAIN r.member /\ r.member[i] = e) <=> Resolve(i) = e
  /\ r.step = "parent editions" => NamedMasters(r.changed) \subseteq r.masters \cup NamedMasters(rows)
  /\ r.step = "parents" => NamedParents(r.changed) \subseteq r.editions \cup NamedParents(rows)

\* A master's key is never logged alone.
MastersNamed(rows) == \A m \in Masters : Key(m) \in rows => \E i \in Items : Item(i) \in rows

PendInv ==
  /\ OneHop /\ MastersNamed(log) /\ MastersNamed(run.changed)
  /\ Rebuild \notin log =>
       /\ refreshed /\ Rebuild \notin run.changed => Fresh(ledger, log \cup run.changed)
       /\ NextFresh(run, log)
       /\ Chosen(run, log)

(* The invariant after a step, with the logs and the tables named. *)
LEMMA PendAfter ==
  ASSUME NEW L, L = log', NEW r, r = run', NEW C, C = r.changed, NEW u, u = ledger', NEW P, P = L \cup C,
         OneHop', MastersNamed(L), MastersNamed(C),
         Rebuild \notin L =>
           /\ refreshed' /\ Rebuild \notin C => Fresh(u, P)'
           /\ NextFresh(r, L)'
           /\ Chosen(r, L)'
  PROVE  PendInv'
<1>1. Fresh(ledger, log \cup run.changed)' <=> Fresh(u, P)'
  BY DEF Fresh, ItemsFresh, EventsFresh, ParentsFresh, Same, NamedEditions, NamedMasters, NamedParents,
         DirtyItems, DirtyEditions, DirtyMasters, ParentEditions
<1>2. NextFresh(run, log)' <=> NextFresh(r, L)'
  BY DEF NextFresh, ItemsFresh, EventsFresh, ParentsFresh, Same, NamedEditions, NamedMasters, NamedParents,
         DirtyItems, DirtyEditions, DirtyMasters, ParentEditions
<1>3. Chosen(run, log)' <=> Chosen(r, L)'
  <2>1. DirtyItems(log)' = DirtyItems(L)' /\ DirtyItems(run.changed)' = DirtyItems(r.changed)'
    BY DEF DirtyItems
  <2>2. NamedEditions(log)' = NamedEditions(L)' /\ NamedEditions(run.changed)' = NamedEditions(r.changed)'
    BY <2>1 DEF NamedEditions, DirtyEditions, DirtyItems
  <2>3. NamedMasters(log)' = NamedMasters(L)' /\ NamedMasters(run.changed)' = NamedMasters(r.changed)'
    BY <2>1 DEF NamedMasters, DirtyMasters, DirtyItems
  <2>4. NamedParents(log)' = NamedParents(L)' /\ NamedParents(run.changed)' = NamedParents(r.changed)'
    BY <2>2, <2>3 DEF NamedParents, ParentEditions, NamedEditions, NamedMasters, DirtyItems, DirtyEditions, DirtyMasters
  <2>. QED BY <2>1, <2>2, <2>3, <2>4 DEF Chosen
<1>4. MastersNamed(log)' /\ MastersNamed(run.changed)'
  BY DEF MastersNamed
<1>. QED BY <1>1, <1>2, <1>3, <1>4 DEF PendInv

(* A step that leaves the sources alone changes no name and no recompute. *)
LEMMA NothingMoves ==
  ASSUME UNCHANGED sources
  PROVE  /\ SourcesOK => SourcesOK' 
         /\ \A rows : /\ DirtyItems(rows)' = DirtyItems(rows) /\ NamedEditions(rows)' = NamedEditions(rows)
                      /\ NamedMasters(rows)' = NamedMasters(rows) /\ NamedParents(rows)' = NamedParents(rows)
         /\ \A t, rows : /\ ItemsFresh(t, rows)' <=> ItemsFresh(t, rows)
                         /\ EventsFresh(t, rows)' <=> EventsFresh(t, rows)
                         /\ ParentsFresh(t, rows)' <=> ParentsFresh(t, rows)
         /\ \A i : Resolve(i)' = Resolve(i)
         /\ OneHop => OneHop'
<1>0. UNCHANGED <<holder, aliased, base, parent>>
  BY DEF sources
<1>1. SourcesOK => SourcesOK'
  BY <1>0 DEF SourcesOK
<1>2. \A i : Resolve(i)' = Resolve(i)
  BY <1>0 DEF Resolve, Open
<1>3. OneHop => OneHop'
  BY <1>0 DEF OneHop, Open
<1>4. ASSUME NEW rows
      PROVE  /\ DirtyItems(rows)' = DirtyItems(rows) /\ NamedEditions(rows)' = NamedEditions(rows)
             /\ NamedMasters(rows)' = NamedMasters(rows) /\ NamedParents(rows)' = NamedParents(rows)
  <2>0. Naming(rows) /\ Naming(rows)'
    BY NamesAre, NamesAfter DEF AllNamed
  <2>1. DirtyItems(rows)' = DirtyItems(rows)
    BY <1>0 DEF DirtyItems
  <2>2. NamedEditions(rows)' = NamedEditions(rows)
    BY <1>2, <2>1 DEF NamedEditions, DirtyEditions
  <2>3. NamedMasters(rows)' = NamedMasters(rows)
    BY <1>0, <2>1 DEF NamedMasters, DirtyMasters
  <2>4. NamedParents(rows)' = NamedParents(rows)
    <3>1. \A k \in Keys : Resolve(holder[k])' = Resolve(holder[k])
      BY <1>0 DEF Resolve, Open
    <3>. QED BY <1>0, <2>0, <2>2, <2>3, <3>1 DEF Naming
  <2>. QED BY <2>1, <2>2, <2>3, <2>4
<1>5. Recomputed' = Recomputed
  BY <1>0 DEF Recomputed, EditionRows, SideEvents, ParentRows, Resolve, Open, Owners, Summary
<1>6. ASSUME NEW t, NEW rows
      PROVE  /\ ItemsFresh(t, rows)' <=> ItemsFresh(t, rows)
             /\ EventsFresh(t, rows)' <=> EventsFresh(t, rows)
             /\ ParentsFresh(t, rows)' <=> ParentsFresh(t, rows)
  BY <1>0, <1>4, <1>5 DEF ItemsFresh, EventsFresh, ParentsFresh, Same
<1>. QED BY <1>1, <1>2, <1>3, <1>4, <1>6

(* Rows that are fresh but for what is named stay so when all that changes is named. *)
LEMMA FreshStays ==
  ASSUME SourcesOK, SourcesOK', OneHop, OneHop', NEW L, Logged(L), NEW rows, rows \subseteq L, NEW t \in Tables
  PROVE  /\ ItemsFresh(t, rows) => ItemsFresh(t, L)'
         /\ EventsFresh(t, rows) => EventsFresh(t, L)'
         /\ ParentsFresh(t, rows) => ParentsFresh(t, L)'
<1>0. /\ DirtyItems(rows) \subseteq DirtyItems(L)' /\ NamedEditions(rows) \subseteq NamedEditions(L)'
      /\ NamedParents(rows) \subseteq NamedParents(L)'
  BY NamesKept
<1>1. /\ \A i, n : i \in Items /\ i \notin DirtyItems(L)' => (<<i, n>> \in aliased <=> <<i, n>> \in aliased')
      /\ \A f : f[1] \in Items /\ f[1] \notin NamedEditions(L)' =>
           (f \in Recomputed.events <=> f \in Recomputed.events')
      /\ \A q : q[1] \in Items /\ q[1] \notin NamedParents(L)' =>
           (q \in Recomputed.parents <=> q \in Recomputed.parents')
  BY RowsStay
<1>2. /\ \A e \in t.items \cup aliased' : e = <<e[1], e[2]>> /\ e[1] \in Items
      /\ \A e \in t.events : e[1] \in Items
      /\ \A e \in t.parents : e[1] \in Items
  BY DEF Tables, SourcesOK
<1>3. /\ \A e \in Recomputed.events' : e[1] \in Items
      /\ \A e \in Recomputed.parents' : e[1] \in Items
  <2>1. FullRows' /\ FullUnder'
    BY RowsAfter, UnderAfter
  <2>2. \A i \in Releases : Resolve(i)' \in Items
    <3>1. Resolved'
      BY ResolveAfter
    <3>. QED BY <3>1 DEF Resolved, Open, SourcesOK, Items
  <2>3. \A e \in Recomputed.events' : e[1] \in Items
    BY <2>1, <2>2 DEF FullRows
  <2>4. \A e \in Recomputed.parents' : e[1] \in Items
    <3>1. \A e \in Owners(Recomputed.events') : e \in Items
      BY <2>3 DEF Owners
    <3>2. \A q \in Recomputed.parents' : \E e \in Owners(Recomputed.events') : q[1] = e
      BY <2>1 DEF FullUnder, Owners
    <3>. QED BY <3>1, <3>2
  <2>. QED BY <2>3, <2>4
<1>4. ItemsFresh(t, rows) => ItemsFresh(t, L)'
  BY <1>0, <1>1, <1>2 DEF ItemsFresh, Same
<1>5. EventsFresh(t, rows) => EventsFresh(t, L)'
  BY <1>0, <1>1, <1>2, <1>3 DEF EventsFresh, Same
<1>6. ParentsFresh(t, rows) => ParentsFresh(t, L)'
  BY <1>0, <1>1, <1>2, <1>3 DEF ParentsFresh, Same
<1>. QED BY <1>4, <1>5, <1>6

(* Of two items one supersedes the other only while neither is superseded, and the superseded *)
(* one supersedes nothing.                                                                    *)
LEMMA OneHopStep == TInv /\ OneHop /\ [Next]_vars => OneHop'
<1>. SUFFICES ASSUME TInv, OneHop, [Next]_vars PROVE OneHop'
  OBVIOUS
<1>0. base \in [Counted -> SUBSET (Keys \cup (Items \X Items))] /\ {"link", "opened", "reverted"} = Counted
      /\ base["reverted"] \subseteq base["opened"]
  BY DEF TInv, TypeOK, SourcesOK, Counted
<1>a. ASSUME base'["opened"] = base["opened"], base'["reverted"] = base["reverted"] PROVE OneHop'
  BY <1>a DEF OneHop, Open
<1>1. ASSUME NEW a \in Items, NEW b \in Items, Supersede(a, b) PROVE OneHop'
  <2>1. /\ \A s \in Open : s[1] # a
        /\ base'["opened"] = base["opened"] \cup {<<a, b>>} /\ base'["reverted"] = base["reverted"]
    BY <1>0, <1>1 DEF Supersede
  <2>2. Open' \subseteq Open \cup {<<a, b>>}
    BY <2>1 DEF Open
  <2>. QED BY <2>1, <2>2 DEF OneHop
<1>2. ASSUME NEW a \in Items, NEW b \in Items, Revert(a, b) PROVE OneHop'
  <2>1. base'["opened"] = base["opened"] /\ base["reverted"] \subseteq base'["reverted"]
    BY <1>0, <1>2 DEF Revert
  <2>2. Open' \subseteq Open
    BY <2>1 DEF Open
  <2>. QED BY <2>2 DEF OneHop
<1>3. ASSUME NEW k \in Keys, Link(k) \/ Unlink(k) PROVE OneHop'
  BY <1>0, <1>3, <1>a DEF Link, Unlink
<1>4. CASE TruncateLinks
  BY <1>0, <1>4, <1>a DEF TruncateLinks
<1>5. CASE UNCHANGED base
  BY <1>5, <1>a
<1>. QED
  BY <1>1, <1>2, <1>3, <1>4, <1>5
  DEF Next, Writer, OpenAlias, CloseAlias, SetParent, RequestRebuild, CreateTriggers, Refresh, Maintain, RebuildAll,
      Begin, Drain, Choose, DrainDeltas, MaintainItems, ChooseEditions, ChooseMembers, MaintainEvents, ChooseMasters,
      ChooseParentEditions, MaintainParents, RebuildItems, RebuildEvents, RebuildParents, RebuildDensity, Commit, Fail,
      Step, sources, vars

(* A writer only adds to the log. *)
LEMMA LogGrows == Writer => log \subseteq log'
<1>1. ASSUME NEW k, NEW i, OpenAlias(k, i) PROVE log \subseteq log'
  BY <1>1 DEF OpenAlias
<1>2. ASSUME NEW k, CloseAlias(k) PROVE log \subseteq log'
  BY <1>2 DEF CloseAlias
<1>3. ASSUME NEW a, NEW b, Supersede(a, b) \/ Revert(a, b) PROVE log \subseteq log'
  BY <1>3 DEF Supersede, Revert, MoveAliases
<1>4. ASSUME NEW k, Link(k) \/ Unlink(k) PROVE log \subseteq log'
  BY <1>4 DEF Link, Unlink
<1>5. ASSUME NEW k, NEW m, SetParent(k, m) PROVE log \subseteq log'
  BY <1>5 DEF SetParent
<1>6. CASE TruncateLinks \/ RequestRebuild
  BY <1>6 DEF TruncateLinks, RequestRebuild
<1>. QED BY <1>1, <1>2, <1>3, <1>4, <1>5, <1>6 DEF Writer

(* A master's key is logged with the item of its alias. *)
LEMMA MastersNamedStep == TInv /\ MastersNamed(log) /\ Writer => MastersNamed(log)'
<1>. SUFFICES ASSUME TInv, MastersNamed(log), Writer PROVE MastersNamed(log)'
  OBVIOUS
<1>l. log \subseteq log'
  BY LogGrows
<1>m. SUFFICES ASSUME NEW m \in Masters, Key(m) \in log', Key(m) \notin log
      PROVE  \E i \in Items : Item(i) \in log'
  BY <1>l DEF MastersNamed
<1>0. /\ \A k \in Keys \cup Masters : holder[k] # NoItem => holder[k] \in Items
      /\ \A i : Key(m) # Item(i) /\ Key(m) # Rebuild
      /\ \A k \in Keys : Key(m) # Key(k)
  BY ConstantsDistinct DEF TInv, TypeOK, SourcesOK, Key, Item, Rebuild
<1>1. ASSUME NEW keys, NEW items, Key(m) \in Captured("aliases", AliasLogged(keys, items))
      PROVE  \A i \in items : Item(i) \in Captured("aliases", AliasLogged(keys, items))
  BY <1>1 DEF Captured, AliasLogged
<1>2. ASSUME NEW k \in Keys \cup Masters, NEW i \in Items, OpenAlias(k, i) PROVE \E j \in Items : Item(j) \in log'
  BY <1>m, <1>1, <1>2 DEF OpenAlias
<1>3. ASSUME NEW k \in Keys \cup Masters, CloseAlias(k) PROVE \E j \in Items : Item(j) \in log'
  BY <1>m, <1>0, <1>1, <1>3 DEF CloseAlias
<1>4. ASSUME NEW from \in Items, NEW to \in Items, NEW keys, MoveAliases(keys, from, to)
      PROVE  \E j \in Items : Item(j) \in log'
  <2>1. log' = log \cup Captured("supersessions", {Item(from), Item(to)})
                 \cup (IF keys = {} THEN {} ELSE Captured("aliases", AliasLogged(keys, {from, to})))
    BY <1>4 DEF MoveAliases
  <2>2. Key(m) \notin Captured("supersessions", {Item(from), Item(to)})
    BY <1>0 DEF Captured
  <2>. QED BY <1>m, <1>1, <2>1, <2>2
<1>5. ASSUME NEW a \in Items, NEW b \in Items, Supersede(a, b) \/ Revert(a, b) PROVE \E j \in Items : Item(j) \in log'
  BY <1>4, <1>5 DEF Supersede, Revert
<1>6. ASSUME NEW k \in Keys PROVE ~Link(k) /\ ~Unlink(k) /\ \A n : ~SetParent(k, n)
  BY <1>m, <1>0 DEF Link, Unlink, SetParent, Captured
<1>7. ~TruncateLinks /\ ~RequestRebuild
  BY <1>m, <1>0 DEF TruncateLinks, RequestRebuild, Captured
<1>. QED BY <1>m, <1>2, <1>3, <1>5, <1>6, <1>7 DEF Writer


(* At the start nothing is pending, and tables in use are exact. *)
LEMMA PendInit == Init => PendInv
<1>. SUFFICES ASSUME Init PROVE PendInv
  OBVIOUS
<1>1. log = {} /\ run.changed = {} /\ run.step = "idle" /\ (refreshed => ledger = Recomputed)
  BY DEF Init, Idle
<1>2. OneHop
  <2>1. PICK s \in {{}} \cup {{<<a, b>>} : a, b \in Releases} : base = [c \in Counted |-> IF c = "opened" THEN s ELSE {}]
    BY DEF Init
  <2>2. Open \subseteq s
    BY <2>1 DEF Open, Counted
  <2>. QED BY <2>2 DEF OneHop
<1>3. refreshed => Fresh(ledger, log \cup run.changed)
  BY <1>1 DEF Fresh, ItemsFresh, EventsFresh, ParentsFresh, Same, Recomputed
<1>4. NextFresh(run, log) /\ Chosen(run, log)
  BY <1>1 DEF NextFresh, Chosen, ItemsDone, EventsDone, ParentsDone, Maintaining
<1>5. MastersNamed(log) /\ MastersNamed(run.changed)
  BY <1>1 DEF MastersNamed
<1>. QED BY <1>2, <1>3, <1>4, <1>5 DEF PendInv

(* A write that a refresh does not see is named by the log, and so is what it makes stale. *)
LEMMA PendWriter == TInv /\ TInv' /\ RunInv /\ PendInv /\ OneHop' /\ Writer => PendInv'
<1>. SUFFICES ASSUME TInv, TInv', RunInv, PendInv, OneHop', Writer PROVE PendInv'
  OBVIOUS
<1>. PICK L, r, C, u, P : L = log' /\ r = run /\ C = run.changed /\ u = ledger /\ P = L \cup C
  OBVIOUS
<1>0. r = run' /\ C = r.changed /\ u = ledger' /\ refreshed' = refreshed /\ UNCHANGED captured
  BY DEF Writer, OpenAlias, CloseAlias, Supersede, Revert, Link, Unlink, SetParent, TruncateLinks, RequestRebuild, Write
<1>1. log \subseteq L
  BY LogGrows
<1>2. MastersNamed(L) /\ MastersNamed(C)
  <2>1. MastersNamed(log)'
    BY MastersNamedStep DEF PendInv
  <2>. QED BY <2>1 DEF PendInv, MastersNamed
<1>3. ASSUME Rebuild \notin L
      PROVE  /\ refreshed' /\ Rebuild \notin C => Fresh(u, P)'
             /\ NextFresh(r, L)'
             /\ Chosen(r, L)'
  <2>0. /\ SourcesOK /\ SourcesOK' /\ OneHop /\ OneHop' /\ r \in Runs /\ r.next \in Tables /\ u \in Tables
        /\ refreshed /\ Rebuild \notin C => Fresh(u, log \cup C)
        /\ NextFresh(r, log) /\ Chosen(r, log)
    BY <1>1, <1>3 DEF TInv, TypeOK, PendInv, Runs
  <2>1. CASE captured # Sources
    <3>1. ~refreshed /\ r.step = "idle"
      <4>1. r.step = "idle" \/ r.step # "idle"
        OBVIOUS
      <4>. QED BY <2>1 DEF RunInv
    <3>. QED BY <1>0, <3>1 DEF NextFresh, Chosen, ItemsDone, EventsDone, ParentsDone, Maintaining
  <2>2. CASE captured = Sources
    <3>1. Logged(L)
      <4>1. Logged(log')
        BY <1>3, <2>2, WritersLog DEF TInv
      <4>. QED BY <4>1
    <3>2. Logged(P)
      BY <3>1 DEF Logged
    <3>3. ASSUME refreshed', Rebuild \notin C PROVE Fresh(u, P)'
      <4>1. Fresh(u, log \cup C) /\ log \cup C \subseteq P
        BY <1>0, <1>1, <2>0, <3>3
      <4>2. PICK Q : Q = log \cup C
        OBVIOUS
      <4>3. Fresh(u, Q) /\ Q \subseteq P
        BY <4>1, <4>2
      <4>4. /\ ItemsFresh(u, Q) => ItemsFresh(u, P)'
            /\ EventsFresh(u, Q) => EventsFresh(u, P)'
            /\ ParentsFresh(u, Q) => ParentsFresh(u, P)'
        BY <2>0, <3>2, <4>3, FreshStays
      <4>. QED BY <4>3, <4>4 DEF Fresh
    <3>4. PICK l : l = log
      OBVIOUS
    <3>5. l \subseteq L /\ NextFresh(r, l) /\ Chosen(r, l)
      BY <1>1, <2>0, <3>4
    <3>6. /\ ItemsFresh(r.next, l) => ItemsFresh(r.next, L)'
          /\ EventsFresh(r.next, l) => EventsFresh(r.next, L)'
          /\ ParentsFresh(r.next, l) => ParentsFresh(r.next, L)'
      BY <2>0, <3>1, <3>5, FreshStays
    <3>7. NextFresh(r, L)'
      BY <3>5, <3>6 DEF NextFresh
    <3>8. /\ DirtyItems(l) \subseteq DirtyItems(L)' /\ NamedEditions(l) \subseteq NamedEditions(L)'
          /\ NamedMasters(l) \subseteq NamedMasters(L)' /\ NamedParents(l) \subseteq NamedParents(L)'
      BY <2>0, <3>1, <3>5, NamesKept
    <3>9. /\ DirtyItems(C)' \subseteq DirtyItems(C) \cup DirtyItems(L)'
          /\ NamedEditions(C)' \subseteq NamedEditions(C) \cup NamedEditions(L)'
          /\ NamedMasters(C)' \subseteq NamedMasters(C) \cup NamedMasters(L)'
          /\ NamedParents(C)' \subseteq NamedParents(C) \cup NamedParents(L)'
      BY <2>0, <3>1, NamesKept
    <3>10. r.step = "events" =>
             \A e \in r.editions \ NamedEditions(L)', i \in Items :
               (i \in DOMAIN r.member /\ r.member[i] = e) <=> Resolve(i)' = e
      <4>1. SUFFICES ASSUME r.step = "events", NEW e \in r.editions \ NamedEditions(L)', NEW i \in Items
                     PROVE  (i \in DOMAIN r.member /\ r.member[i] = e) <=> Resolve(i)' = e
        OBVIOUS
      <4>2. e \in Items /\ e \notin NamedEditions(l)
        BY <2>0, <3>8, <4>1 DEF Runs
      <4>3. Item(e) \notin L
        <5>1. /\ \A j \in Items : Item(j) \in L => j \in DirtyItems(L)'
              /\ \A j \in DirtyItems(L)' \cap Items : {j, Resolve(j), Resolve(j)'} \subseteq NamedEditions(L)'
          BY <2>0, <3>1, NamesGrow
        <5>. QED BY <4>1, <4>2, <5>1
      <4>4. Resolve(i) = e <=> Resolve(i)' = e
        BY <2>0, <3>1, <4>2, <4>3, NamesGrow
      <4>5. (i \in DOMAIN r.member /\ r.member[i] = e) <=> Resolve(i) = e
        BY <3>5, <4>1, <4>2 DEF Chosen
      <4>. QED BY <4>4, <4>5
    <3>11. Chosen(r, L)'
      <4>1. /\ DirtyItems(r.changed)' = DirtyItems(C)' /\ NamedEditions(r.changed)' = NamedEditions(C)'
            /\ NamedMasters(r.changed)' = NamedMasters(C)' /\ NamedParents(r.changed)' = NamedParents(C)'
            /\ DirtyItems(r.changed) = DirtyItems(C) /\ NamedEditions(r.changed) = NamedEditions(C)
            /\ NamedMasters(r.changed) = NamedMasters(C) /\ NamedParents(r.changed) = NamedParents(C)
        BY <1>0
      <4>2. r.step \in Maintaining => DirtyItems(r.changed)' \subseteq r.dirty \cup DirtyItems(L)'
        BY <3>5, <3>8, <3>9, <4>1 DEF Chosen
      <4>3. r.step \in {"members", "events", "masters", "parent editions"} =>
               NamedEditions(r.changed)' \subseteq r.editions \cup NamedEditions(L)'
        BY <3>5, <3>8, <3>9, <4>1 DEF Chosen
      <4>4. r.step = "parent editions" => NamedMasters(r.changed)' \subseteq r.masters \cup NamedMasters(L)'
        BY <3>5, <3>8, <3>9, <4>1 DEF Chosen
      <4>5. r.step = "parents" => NamedParents(r.changed)' \subseteq r.editions \cup NamedParents(L)'
        BY <3>5, <3>8, <3>9, <4>1 DEF Chosen
      <4>. QED BY <3>10, <4>2, <4>3, <4>4, <4>5 DEF Chosen
    <3>. QED BY <3>3, <3>7, <3>11
  <2>. QED BY <2>1, <2>2
<1>. QED BY <1>0, <1>2, <1>3, PendAfter

(* The invariant after a step that leaves the sources alone, in names from before the step. *)
LEMMA PendStill ==
  ASSUME UNCHANGED sources, OneHop, NEW L, L = log', NEW r, r = run', NEW u, u = ledger',
         MastersNamed(L), MastersNamed(r.changed),
         Rebuild \notin L =>
           /\ refreshed' /\ Rebuild \notin r.changed => Fresh(u, L \cup r.changed)
           /\ NextFresh(r, L)
           /\ Chosen(r, L)
  PROVE  PendInv'
<1>. PICK C, P : C = r.changed /\ P = L \cup r.changed
  OBVIOUS
<1>1. OneHop'
  BY NothingMoves
<1>2. Fresh(u, P) => Fresh(u, P)'
  BY NothingMoves DEF Fresh
<1>3. NextFresh(r, L) => NextFresh(r, L)'
  BY NothingMoves DEF NextFresh
<1>4. Chosen(r, L) => Chosen(r, L)'
  <2>1. /\ DirtyItems(L)' = DirtyItems(L) /\ NamedEditions(L)' = NamedEditions(L)
        /\ NamedMasters(L)' = NamedMasters(L) /\ NamedParents(L)' = NamedParents(L)
        /\ DirtyItems(C)' = DirtyItems(C) /\ NamedEditions(C)' = NamedEditions(C)
        /\ NamedMasters(C)' = NamedMasters(C) /\ NamedParents(C)' = NamedParents(C)
        /\ \A i : Resolve(i)' = Resolve(i)
    BY NothingMoves
  <2>2. /\ DirtyItems(r.changed)' = DirtyItems(r.changed) /\ NamedEditions(r.changed)' = NamedEditions(r.changed)
        /\ NamedMasters(r.changed)' = NamedMasters(r.changed) /\ NamedParents(r.changed)' = NamedParents(r.changed)
    BY NothingMoves
  <2>3. ASSUME Chosen(r, L), r.step = "events", NEW e \in r.editions \ NamedEditions(L)', NEW i \in Items
        PROVE  (i \in DOMAIN r.member /\ r.member[i] = e) <=> Resolve(i)' = e
    <3>1. e \in r.editions \ NamedEditions(L) /\ Resolve(i)' = Resolve(i)
      BY <2>1, <2>3
    <3>. QED BY <2>3, <3>1 DEF Chosen
  <2>4. Chosen(r, L) =>
          (r.step \in Maintaining => DirtyItems(r.changed)' \subseteq r.dirty \cup DirtyItems(L)')
    BY <2>1, <2>2 DEF Chosen
  <2>5. Chosen(r, L) =>
          (r.step \in {"members", "events", "masters", "parent editions"} =>
             NamedEditions(r.changed)' \subseteq r.editions \cup NamedEditions(L)')
    BY <2>1, <2>2 DEF Chosen
  <2>6. Chosen(r, L) =>
          (r.step = "parent editions" => NamedMasters(r.changed)' \subseteq r.masters \cup NamedMasters(L)')
    BY <2>1, <2>2 DEF Chosen
  <2>7. Chosen(r, L) =>
          (r.step = "parents" => NamedParents(r.changed)' \subseteq r.editions \cup NamedParents(L)')
    BY <2>1, <2>2 DEF Chosen
  <2>. QED BY <2>3, <2>4, <2>5, <2>6, <2>7 DEF Chosen
<1>. QED BY <1>1, <1>2, <1>3, <1>4, PendAfter

(* What fresh but for two sets of rows means, and that nothing is named by nothing. *)
LEMMA NamesNothing ==
  ASSUME SourcesOK, NEW rows, DirtyItems(rows) = {}, MastersNamed(rows)
  PROVE  NamedEditions(rows) = {} /\ NamedMasters(rows) = {} /\ NamedParents(rows) = {}
<1>0. Naming(rows)
  BY NamesAre DEF AllNamed
<1>1. NamedEditions(rows) = {}
  BY <1>0 DEF Naming
<1>2. NamedMasters(rows) = {}
  <2>1. \A m \in Masters : Key(m) \notin rows
    BY <1>0 DEF MastersNamed, Naming
  <2>. QED BY <1>0, <2>1 DEF Naming
<1>3. NamedParents(rows) = {}
  <2>1. \A e : e \notin NamedParents(rows)
    BY <1>0, <1>1, <1>2 DEF Naming
  <2>. QED BY <2>1
<1>. QED BY <1>1, <1>2, <1>3

(* The steps before a refresh writes, and those that end it. *)
LEMMA PendControl ==
  TInv /\ RunInv /\ PendInv /\ (Begin \/ Drain \/ Choose \/ DrainDeltas \/ Commit \/ Fail) => PendInv'
<1>. SUFFICES ASSUME TInv, RunInv, PendInv, Begin \/ Drain \/ Choose \/ DrainDeltas \/ Commit \/ Fail
     PROVE PendInv'
  OBVIOUS
<1>. PICK L, r, u, C : L = log' /\ r = run' /\ u = ledger' /\ C = run.changed
  OBVIOUS
<1>0. /\ OneHop /\ UNCHANGED sources /\ run \in Runs /\ SourcesOK
      /\ MastersNamed(log) /\ MastersNamed(C) /\ MastersNamed({})
      /\ Rebuild \notin log =>
           /\ refreshed /\ Rebuild \notin C => Fresh(ledger, log \cup C)
           /\ NextFresh(run, log) /\ Chosen(run, log)
  BY DEF PendInv, MastersNamed, TInv, TypeOK, Begin, Drain, Choose, DrainDeltas, Commit, Fail, Step, sources
<1>1. CASE Begin
  <2>1. /\ r = [run EXCEPT !.step = "drain", !.next = ledger] /\ L = log /\ u = ledger /\ refreshed' = refreshed
    BY <1>1 DEF Begin, Step, logs
  <2>2. r.step = "drain" /\ r.changed = C
    BY <1>0, <2>1 DEF Runs
  <2>3. NextFresh(r, L) /\ Chosen(r, L)
    BY <2>2 DEF NextFresh, Chosen, ItemsDone, EventsDone, ParentsDone, Maintaining
  <2>. QED BY <1>0, <2>1, <2>2, <2>3, PendStill
<1>2. CASE Drain
  <2>1. /\ r = [run EXCEPT !.step = "choose", !.changed = log] /\ L = {} /\ u = ledger /\ refreshed' = refreshed
        /\ C = {}
    BY <1>2 DEF Drain, Step, RunInv
  <2>2. r.step = "choose" /\ r.changed = log
    BY <1>0, <2>1 DEF Runs
  <2>3. NextFresh(r, L) /\ Chosen(r, L)
    BY <2>2 DEF NextFresh, Chosen, ItemsDone, EventsDone, ParentsDone, Maintaining
  <2>4. L \cup r.changed = log \cup C
    BY <2>1, <2>2
  <2>5. refreshed' /\ Rebuild \notin r.changed => Fresh(u, L \cup r.changed)
    BY <1>0, <2>1, <2>2, <2>4
  <2>. QED BY <1>0, <2>1, <2>2, <2>3, <2>5, PendStill
<1>3. CASE Choose
  <2>. DEFINE all == ~refreshed \/ Rebuild \in run.changed \/ Cardinality(DirtyItems(run.changed)) > Large
  <2>1. /\ r = [run EXCEPT !.dirty = DirtyItems(run.changed),
                  !.step = IF all THEN "rebuild items"
                           ELSE IF DirtyItems(run.changed) # {} \/ delta # NoDelta THEN "deltas" ELSE "commit"]
        /\ L = log /\ u = ledger /\ refreshed' = refreshed /\ run.next = ledger
    BY <1>3 DEF Choose, Step, RunInv, Unfolded, logs
  <2>2. /\ r.changed = C /\ r.dirty = DirtyItems(C) /\ r.next = ledger
        /\ \/ r.step = "rebuild items"
           \/ ~all /\ r.step = "deltas"
           \/ ~all /\ r.step = "commit" /\ DirtyItems(C) = {}
    <3>. HIDE DEF all
    <3>. QED BY <1>0, <2>1 DEF Runs
  <2>3. Chosen(r, L)
    BY <2>2 DEF Chosen, Maintaining
  <2>4. Rebuild \notin L => NextFresh(r, L)
    <3>1. CASE r.step # "commit"
      BY <2>2, <3>1 DEF NextFresh, ItemsDone, EventsDone, ParentsDone
    <3>2. CASE r.step = "commit"
      <4>1. refreshed /\ Rebuild \notin C /\ DirtyItems(C) = {}
        BY <2>2, <3>2
      <4>2. NamedEditions(C) = {} /\ NamedParents(C) = {}
        BY <1>0, <4>1, NamesNothing
      <4>3. /\ DirtyItems(log \cup C) = DirtyItems(log) /\ NamedEditions(log \cup C) = NamedEditions(log)
            /\ NamedParents(log \cup C) = NamedParents(log)
        <5>1. /\ DirtyItems(log \cup C) = DirtyItems(log) \cup DirtyItems(C)
              /\ NamedEditions(log \cup C) = NamedEditions(log) \cup NamedEditions(C)
              /\ NamedParents(log \cup C) = NamedParents(log) \cup NamedParents(C)
          BY NamesJoin
        <5>. QED BY <4>1, <4>2, <5>1
      <4>4. Rebuild \notin log => Fresh(ledger, log)
        BY <1>0, <4>1, <4>3 DEF Fresh, ItemsFresh, EventsFresh, ParentsFresh
      <4>. QED BY <2>1, <2>2, <4>4 DEF NextFresh, Fresh
    <3>. QED BY <3>1, <3>2
  <2>5. Rebuild \notin L /\ refreshed' /\ Rebuild \notin r.changed => Fresh(u, L \cup r.changed)
    BY <1>0, <2>1, <2>2
  <2>6. OneHop /\ UNCHANGED sources /\ MastersNamed(L) /\ MastersNamed(r.changed)
    BY <1>0, <2>1, <2>2
  <2>. HIDE DEF all
  <2>. QED BY <2>3, <2>4, <2>5, <2>6, PendStill
<1>4. CASE DrainDeltas
  <2>1. /\ r = [run EXCEPT !.step = "items", !.drained = delta] /\ L = log /\ u = ledger /\ refreshed' = refreshed
        /\ run.step = "deltas"
    BY <1>4 DEF DrainDeltas, Step
  <2>2. r.step = "items" /\ r.changed = C /\ r.dirty = run.dirty
    BY <1>0, <2>1 DEF Runs
  <2>3. NextFresh(r, L)
    BY <2>2 DEF NextFresh, ItemsDone, EventsDone, ParentsDone
  <2>4. Rebuild \notin L => Chosen(r, L)
    BY <1>0, <2>1, <2>2 DEF Chosen, Maintaining
  <2>5. Rebuild \notin L /\ refreshed' /\ Rebuild \notin r.changed => Fresh(u, L \cup r.changed)
    BY <1>0, <2>1, <2>2
  <2>6. OneHop /\ UNCHANGED sources /\ MastersNamed(L) /\ MastersNamed(r.changed)
    BY <1>0, <2>1, <2>2
  <2>. QED BY <2>3, <2>4, <2>5, <2>6, PendStill
<1>5. CASE Commit
  <2>1. r = Idle /\ L = log /\ u = run.next /\ run.step = "commit"
    BY <1>5 DEF Commit, Step, logs
  <2>2. r.step = "idle" /\ r.changed = {} /\ L \cup r.changed = L
    BY <2>1 DEF Idle
  <2>3. NextFresh(r, L) /\ Chosen(r, L)
    BY <2>2 DEF NextFresh, Chosen, ItemsDone, EventsDone, ParentsDone, Maintaining
  <2>4. Rebuild \notin L => Fresh(u, L)
    BY <1>0, <2>1 DEF NextFresh, ItemsDone, EventsDone, ParentsDone, Fresh
  <2>. QED BY <1>0, <2>1, <2>2, <2>3, <2>4, PendStill
<1>6. CASE Fail
  <2>1. r = Idle /\ L = log \cup C /\ u = ledger /\ refreshed' = refreshed
    BY <1>6 DEF Fail
  <2>2. r.step = "idle" /\ r.changed = {} /\ L \cup r.changed = L
    BY <2>1 DEF Idle
  <2>3. NextFresh(r, L) /\ Chosen(r, L)
    BY <2>2 DEF NextFresh, Chosen, ItemsDone, EventsDone, ParentsDone, Maintaining
  <2>4. Rebuild \notin L /\ refreshed' => Fresh(u, L)
    BY <1>0, <2>1
  <2>5. MastersNamed(L)
    BY <1>0, <2>1 DEF MastersNamed
  <2>. QED BY <1>0, <2>1, <2>2, <2>3, <2>4, <2>5, PendStill
<1>. QED BY <1>1, <1>2, <1>3, <1>4, <1>5, <1>6

(* The steps between write nothing but the refresh's own copy. *)
LEMMA PendWork ==
  ASSUME PendInv, UNCHANGED <<sources, log, ledger, refreshed>>, NEW r, r = run', r.changed = run.changed,
         Rebuild \notin log => NextFresh(r, log) /\ Chosen(r, log)
  PROVE  PendInv'
<1>. PICK L, u : L = log /\ u = ledger
  OBVIOUS
<1>1. L = log' /\ u = ledger' /\ UNCHANGED sources /\ OneHop /\ MastersNamed(L) /\ MastersNamed(r.changed)
  BY DEF PendInv, MastersNamed
<1>2. Rebuild \notin L /\ refreshed' /\ Rebuild \notin r.changed => Fresh(u, L \cup r.changed)
  BY DEF PendInv
<1>3. Rebuild \notin L => NextFresh(r, L) /\ Chosen(r, L)
  OBVIOUS
<1>. QED BY <1>1, <1>2, <1>3, PendStill

\* What the steps of a refresh have in common.
Working == TInv /\ RunInv /\ TableInv /\ PendInv

(* In maintenance, tables are as they should be but for the log and what was chosen. *)
LEMMA MaintainedFresh ==
  ASSUME Working, run.step \in Maintaining, Rebuild \notin log, NEW t, t = ledger
  PROVE  /\ \A e \in t.items \cup aliased :
              e[1] \notin DirtyItems(log) \cup run.dirty => (e \in t.items <=> e \in aliased)
         /\ \A e \in t.events \cup Recomputed.events :
              e[1] \notin NamedEditions(log) \cup NamedEditions(run.changed) =>
                (e \in t.events <=> e \in Recomputed.events)
         /\ \A e \in t.parents \cup Recomputed.parents :
              e[1] \notin NamedParents(log) \cup NamedParents(run.changed) =>
                (e \in t.parents <=> e \in Recomputed.parents)
         /\ DirtyItems(run.changed) \subseteq run.dirty \cup DirtyItems(log)
<1>. PICK l, c : l = log /\ c = run.changed
  OBVIOUS
<1>1. Fresh(t, l \cup c)
  BY DEF Working, RunInv, PendInv
<1>2. /\ DirtyItems(l \cup c) = DirtyItems(l) \cup DirtyItems(c)
      /\ NamedEditions(l \cup c) = NamedEditions(l) \cup NamedEditions(c)
      /\ NamedParents(l \cup c) = NamedParents(l) \cup NamedParents(c)
  BY NamesJoin
<1>3. DirtyItems(c) \subseteq run.dirty \cup DirtyItems(l)
  BY DEF Working, PendInv, Chosen
<1>4. \A e \in t.items \cup aliased : e[1] \notin DirtyItems(l) \cup run.dirty => (e \in t.items <=> e \in aliased)
  BY <1>1, <1>2, <1>3 DEF Fresh, ItemsFresh, Same
<1>5. \A e \in t.events \cup Recomputed.events :
        e[1] \notin NamedEditions(l) \cup NamedEditions(c) => (e \in t.events <=> e \in Recomputed.events)
  BY <1>1, <1>2 DEF Fresh, EventsFresh, Same
<1>6. \A e \in t.parents \cup Recomputed.parents :
        e[1] \notin NamedParents(l) \cup NamedParents(c) => (e \in t.parents <=> e \in Recomputed.parents)
  BY <1>1, <1>2 DEF Fresh, ParentsFresh, Same
<1>. QED BY <1>3, <1>4, <1>5, <1>6

(* The choices of a maintenance. *)
LEMMA PendChoices ==
  Working /\ (ChooseEditions \/ ChooseMembers \/ ChooseMasters \/ ChooseParentEditions) => PendInv'
<1>. SUFFICES ASSUME Working, ChooseEditions \/ ChooseMembers \/ ChooseMasters \/ ChooseParentEditions PROVE PendInv'
  OBVIOUS
<1>. PICK r, C, l : r = run' /\ C = run.changed /\ l = log
  OBVIOUS
<1>0. /\ UNCHANGED <<sources, log, ledger, refreshed>> /\ run \in Runs /\ run.step \in Maintaining
      /\ Rebuild \notin l => NextFresh(run, l) /\ Chosen(run, l)
      /\ SourcesOK /\ OneHop
  BY DEF Working, TInv, TypeOK, PendInv, ChooseEditions, ChooseMembers, ChooseMasters, ChooseParentEditions,
         Step, Maintaining, logs
<1>n. AllNamed
  BY NamesAre
<1>1. CASE ChooseEditions
  <2>1. r = [run EXCEPT !.step = "members", !.editions = DirtyEditions(run.dirty)] /\ run.step = "editions"
    BY <1>1 DEF ChooseEditions, Step
  <2>2. /\ r.step = "members" /\ r.changed = C /\ r.dirty = run.dirty /\ r.next = run.next
        /\ r.editions = DirtyEditions(run.dirty)
    BY <1>0, <2>1 DEF Runs
  <2>3. ASSUME Rebuild \notin l PROVE NextFresh(r, l) /\ Chosen(r, l)
    <3>1. ItemsFresh(r.next, l) /\ DirtyItems(C) \subseteq run.dirty \cup DirtyItems(l)
      BY <1>0, <2>1, <2>2, <2>3 DEF NextFresh, ItemsDone, Chosen, Maintaining
    <3>2. NamedEditions(C) \subseteq r.editions \cup NamedEditions(l)
      <4>1. \A i \in run.dirty : i \in r.editions /\ Resolve(i) \in r.editions
        BY <2>2 DEF DirtyEditions
      <4>2. \A e \in NamedEditions(C) : \E i \in DirtyItems(C) : e = i \/ e = Resolve(i)
        BY <1>n DEF AllNamed, Naming
      <4>3. \A i \in DirtyItems(l) : i \in NamedEditions(l) /\ Resolve(i) \in NamedEditions(l)
        BY <1>n DEF AllNamed, Naming
      <4>. QED BY <3>1, <4>1, <4>2, <4>3
    <3>3. NextFresh(r, l)
      BY <2>2, <3>1 DEF NextFresh, ItemsDone, EventsDone, ParentsDone
    <3>. QED BY <2>2, <3>1, <3>2, <3>3 DEF Chosen, Maintaining
  <2>. QED BY <1>0, <2>2, <2>3, PendWork DEF Working
<1>2. CASE ChooseMembers
  <2>1. r = [run EXCEPT !.step = "events", !.member = Members(run.editions)] /\ run.step = "members"
    BY <1>2 DEF ChooseMembers, Step
  <2>2. /\ r.step = "events" /\ r.changed = C /\ r.dirty = run.dirty
        /\ r.editions = run.editions /\ r.next = run.next /\ r.member = Members(run.editions)
    BY <1>0, <2>1 DEF Runs
  <2>3. ASSUME NEW e \in r.editions, NEW i \in Items
        PROVE  (i \in DOMAIN r.member /\ r.member[i] = e) <=> Resolve(i) = e
    <3>. DEFINE reached == run.editions \cup {s[1] : s \in {s \in Open : s[2] \in run.editions}}
                D == {j \in reached : Resolve(j) \in run.editions}
    <3>1. r.member = [j \in D |-> Resolve(j)]
      BY <2>2 DEF Members
    <3>2. ASSUME Resolve(i) = e PROVE i \in D
      <4>1. i = e \/ <<i, e>> \in Open
        BY <1>0, <3>2, ResolveIs DEF Resolved
      <4>2. <<i, e>> \in Open => i \in {s[1] : s \in {s \in Open : s[2] \in run.editions}}
        <5>1. ASSUME NEW s, s \in Open, s = <<i, e>> PROVE i \in {s_1[1] : s_1 \in {s_1 \in Open : s_1[2] \in run.editions}}
          BY <2>2, <5>1
        <5>. QED BY <5>1
      <4>. QED BY <2>2, <3>2, <4>1, <4>2
    <3>. HIDE DEF D
    <3>. QED BY <3>1, <3>2
  <2>4. ASSUME Rebuild \notin l PROVE NextFresh(r, l) /\ Chosen(r, l)
    <3>1. ItemsFresh(r.next, l)
      BY <1>0, <2>1, <2>2, <2>4 DEF NextFresh, ItemsDone
    <3>2. /\ DirtyItems(r.changed) \subseteq r.dirty \cup DirtyItems(l)
          /\ NamedEditions(r.changed) \subseteq r.editions \cup NamedEditions(l)
      BY <1>0, <2>1, <2>2, <2>4 DEF Chosen, Maintaining
    <3>3. NextFresh(r, l)
      BY <2>2, <3>1 DEF NextFresh, ItemsDone, EventsDone, ParentsDone
    <3>. QED BY <2>2, <2>3, <3>2, <3>3 DEF Chosen, Maintaining
  <2>. QED BY <1>0, <2>2, <2>4, PendWork DEF Working
<1>3. CASE ChooseMasters
  <2>1. r = [run EXCEPT !.step = "parent editions", !.masters = DirtyMasters(run.changed, run.dirty)] /\ run.step = "masters"
    BY <1>3 DEF ChooseMasters, Step
  <2>2. /\ r.step = "parent editions" /\ r.changed = C /\ r.dirty = run.dirty
        /\ r.editions = run.editions /\ r.next = run.next /\ r.masters = DirtyMasters(C, run.dirty)
    BY <1>0, <2>1 DEF Runs
  <2>3. ASSUME Rebuild \notin l PROVE NextFresh(r, l) /\ Chosen(r, l)
    <3>1. ItemsFresh(r.next, l) /\ EventsFresh(r.next, l)
      BY <1>0, <2>1, <2>2, <2>3 DEF NextFresh, ItemsDone, EventsDone
    <3>2. /\ DirtyItems(r.changed) \subseteq r.dirty \cup DirtyItems(l)
          /\ NamedEditions(r.changed) \subseteq r.editions \cup NamedEditions(l)
      BY <1>0, <2>1, <2>2, <2>3 DEF Chosen, Maintaining
    <3>3. NamedMasters(C) \subseteq r.masters \cup NamedMasters(l)
      <4>1. \A m \in Masters : Key(m) \in C \/ holder[m] \in run.dirty => m \in r.masters
        BY <2>2 DEF DirtyMasters
      <4>2. \A m \in NamedMasters(C) : m \in Masters /\ (Key(m) \in C \/ holder[m] \in DirtyItems(C))
        BY <1>n DEF AllNamed, Naming
      <4>3. \A m \in Masters : holder[m] \in DirtyItems(l) => m \in NamedMasters(l)
        BY <1>n DEF AllNamed, Naming
      <4>. QED BY <2>2, <3>2, <4>1, <4>2, <4>3
    <3>4. NextFresh(r, l)
      BY <2>2, <3>1 DEF NextFresh, ItemsDone, EventsDone, ParentsDone
    <3>. QED BY <2>2, <3>2, <3>3, <3>4 DEF Chosen, Maintaining
  <2>. QED BY <1>0, <2>2, <2>3, PendWork DEF Working
<1>4. CASE ChooseParentEditions
  <2>1. /\ r = [run EXCEPT !.step = "parents", !.editions = ParentEditions(run.editions, run.masters)]
        /\ run.step = "parent editions"
    BY <1>4 DEF ChooseParentEditions, Step
  <2>2. /\ r.step = "parents" /\ r.changed = C /\ r.dirty = run.dirty /\ r.next = run.next
        /\ r.editions = ParentEditions(run.editions, run.masters)
    BY <1>0, <2>1 DEF Runs
  <2>3. ASSUME Rebuild \notin l PROVE NextFresh(r, l) /\ Chosen(r, l)
    <3>1. ItemsFresh(r.next, l) /\ EventsFresh(r.next, l)
      BY <1>0, <2>1, <2>2, <2>3 DEF NextFresh, ItemsDone, EventsDone
    <3>2. /\ DirtyItems(C) \subseteq r.dirty \cup DirtyItems(l)
          /\ NamedEditions(C) \subseteq run.editions \cup NamedEditions(l)
          /\ NamedMasters(C) \subseteq run.masters \cup NamedMasters(l)
      BY <1>0, <2>1, <2>2, <2>3 DEF Chosen, Maintaining
    <3>3. NamedParents(C) \subseteq r.editions \cup NamedParents(l)
      <4>1. /\ run.editions \subseteq r.editions
            /\ \A k \in Keys : parent[k] \in run.masters /\ holder[k] # NoItem =>
                 holder[k] \in r.editions /\ Resolve(holder[k]) \in r.editions
        BY <2>2 DEF ParentEditions
      <4>2. /\ NamedEditions(l) \subseteq NamedParents(l)
            /\ \A k \in Keys : parent[k] \in NamedMasters(l) /\ holder[k] # NoItem =>
                 holder[k] \in NamedParents(l) /\ Resolve(holder[k]) \in NamedParents(l)
        BY <1>n DEF AllNamed, Naming
      <4>3. \A e \in NamedParents(C) :
              \/ e \in NamedEditions(C)
              \/ \E k \in Keys : /\ parent[k] \in NamedMasters(C) /\ holder[k] # NoItem
                                 /\ e = holder[k] \/ e = Resolve(holder[k])
        BY <1>n DEF AllNamed, Naming
      <4>. QED BY <3>2, <4>1, <4>2, <4>3
    <3>4. NextFresh(r, l)
      BY <2>2, <3>1 DEF NextFresh, ItemsDone, EventsDone, ParentsDone
    <3>. QED BY <2>2, <3>2, <3>3, <3>4 DEF Chosen, Maintaining
  <2>. QED BY <1>0, <2>2, <2>3, PendWork DEF Working
<1>. QED BY <1>1, <1>2, <1>3, <1>4

(* The dirty items' rows are copied, and the others were right or are logged again. *)
LEMMA PendItems == Working /\ (MaintainItems \/ RebuildItems) => PendInv'
<1>. SUFFICES ASSUME Working, MaintainItems \/ RebuildItems PROVE PendInv'
  OBVIOUS
<1>. PICK r, C, l, t : r = run' /\ C = run.changed /\ l = log /\ t = ledger
  OBVIOUS
<1>0. UNCHANGED <<sources, log, ledger, refreshed>> /\ run \in Runs /\ run.next \in Tables
  BY DEF Working, TInv, TypeOK, Runs, MaintainItems, RebuildItems, Step, logs
<1>1. CASE MaintainItems
  <2>. DEFINE old == {e \in run.next.items : e[1] \in run.dirty}
              new == {e \in aliased : e[1] \in run.dirty}
  <2>1. /\ r.step = "editions" /\ r.changed = C /\ r.dirty = run.dirty
        /\ r.next.items = (run.next.items \ old) \cup new
    BY <1>0, <1>1 DEF MaintainItems, Step, Runs, Tables
  <2>2. run.step = "items" /\ run.step \in Maintaining /\ run.next = t
    BY <1>1 DEF MaintainItems, Step, Maintaining, Working, RunInv, Unfolded
  <2>3. ASSUME Rebuild \notin l PROVE NextFresh(r, l) /\ Chosen(r, l)
    <3>1. /\ \A e \in t.items \cup aliased :
               e[1] \notin DirtyItems(l) \cup run.dirty => (e \in t.items <=> e \in aliased)
          /\ DirtyItems(C) \subseteq run.dirty \cup DirtyItems(l)
      BY <2>2, <2>3, MaintainedFresh
    <3>2. ItemsFresh(r.next, l)
      BY <2>1, <2>2, <3>1 DEF ItemsFresh, Same
    <3>3. NextFresh(r, l)
      BY <2>1, <3>2 DEF NextFresh, EventsDone, ParentsDone
    <3>. QED BY <2>1, <3>1, <3>3 DEF Chosen
  <2>. QED BY <1>0, <2>1, <2>3, PendWork DEF Working
<1>2. CASE RebuildItems
  <2>1. r.step = "rebuild events" /\ r.changed = C /\ r.next.items = aliased
    BY <1>0, <1>2 DEF RebuildItems, Step, Runs, Empty
  <2>2. NextFresh(r, l) /\ Chosen(r, l)
    BY <2>1 DEF NextFresh, EventsDone, ParentsDone, ItemsFresh, Same, Chosen, Maintaining
  <2>. QED BY <1>0, <2>1, <2>2, PendWork DEF Working
<1>. QED BY <1>1, <1>2

(* The rows written for an edition that the log does not name are those of a recompute, if *)
(* the members it was given are the releases that resolve to it.                           *)
LEMMA RowsFresh ==
  ASSUME TInv, OneHop, NEW rows, ItemsFresh(run.next, rows), NEW e \in Items, e \notin NamedEditions(rows),
         NEW S \in SUBSET Items, NEW edition \in [S -> Items],
         \A i \in Releases : (i \in S /\ edition[i] = e) <=> Resolve(i) = e,
         NEW f, f[1] = e
  PROVE  f \in EditionRows(run.next.items, edition) <=> f \in Recomputed.events
<1>. PICK stored : stored = run.next.items
  OBVIOUS
<1>0. SourcesOK /\ stored \in SUBSET (Items \X (Nat \ {0})) /\ AllNamed /\ Releases \subseteq Items
  BY NamesAre DEF TInv, TypeOK, Runs, Tables, Items
<1>1. \A g : g \in EditionRows(stored, edition) <=>
        \E i \in S \cap Releases, x \in Event : SideEvent(stored, i, x) /\ g = <<edition[i], i, x>>
  BY <1>0, RowsAre
<1>2. FullRows
  BY <1>0, FullEvents
<1>3. ASSUME NEW i \in Releases, Resolve(i) = e, NEW x
      PROVE  SideEvent(stored, i, x) <=> SideEvent(aliased, i, x)
  <2>1. i \notin DirtyItems(rows)
    BY <1>0, <1>3 DEF AllNamed, Naming
  <2>2. \A n : <<i, n>> \in stored <=> <<i, n>> \in aliased
    BY <2>1 DEF ItemsFresh, Same
  <2>. QED BY <2>2 DEF SideEvent
<1>4. ASSUME f \in EditionRows(stored, edition) PROVE f \in Recomputed.events
  <2>1. PICK i \in S \cap Releases, x \in Event : SideEvent(stored, i, x) /\ f = <<edition[i], i, x>>
    BY <1>1, <1>4
  <2>2. edition[i] = e /\ Resolve(i) = e
    BY <2>1
  <2>3. SideEvent(aliased, i, x) /\ f = <<Resolve(i), i, x>>
    BY <1>3, <2>1, <2>2
  <2>. QED BY <1>2, <2>3 DEF FullRows
<1>5. ASSUME f \in Recomputed.events PROVE f \in EditionRows(stored, edition)
  <2>1. PICK i \in Releases, x \in Event : SideEvent(aliased, i, x) /\ f = <<Resolve(i), i, x>>
    BY <1>2, <1>5 DEF FullRows
  <2>2. Resolve(i) = e /\ i \in S /\ edition[i] = e
    BY <2>1
  <2>3. SideEvent(stored, i, x) /\ f = <<edition[i], i, x>>
    BY <1>3, <2>1, <2>2
  <2>. QED BY <1>1, <2>2, <2>3
<1>. QED BY <1>4, <1>5

(* The events of the chosen editions are written from the members chosen before them. *)
LEMMA PendEvents == Working /\ (MaintainEvents \/ RebuildEvents) => PendInv'
<1>. SUFFICES ASSUME Working, MaintainEvents \/ RebuildEvents PROVE PendInv'
  OBVIOUS
<1>. PICK r, C, l, t : r = run' /\ C = run.changed /\ l = log /\ t = ledger
  OBVIOUS
<1>0. /\ UNCHANGED <<sources, log, ledger, refreshed>> /\ run \in Runs /\ run.next \in Tables /\ t \in Tables
      /\ SourcesOK /\ OneHop /\ TInv
  BY DEF Working, TInv, TypeOK, Runs, PendInv, MaintainEvents, RebuildEvents, Step, logs
<1>e. /\ \A f \in Recomputed.events : f[1] \in Items
      /\ \A i \in Items : Resolve(i) \in Items
  <2>1. FullRows /\ \A i \in Items : Resolve(i) \in Items
    BY <1>0, FullEvents, ResolveType
  <2>. QED BY <2>1 DEF FullRows, Items
<1>1. CASE MaintainEvents
  <2>1. /\ r.step = "masters" /\ r.changed = C /\ r.dirty = run.dirty /\ r.editions = run.editions
        /\ r.next.items = run.next.items /\ r.next.events = Kept(run.editions) \cup Written
    BY <1>0, <1>1 DEF MaintainEvents, Step, Runs, Tables
  <2>2. run.step = "events" /\ run.step \in Maintaining /\ run.next.events = t.events
    BY <1>1 DEF MaintainEvents, Step, Maintaining, Working, TableInv, Before
  <2>3. PICK S \in SUBSET Items : run.member \in [S -> run.editions]
    BY <2>2 DEF Working, TableInv
  <2>4. \A f \in Written : f[1] \in run.editions
    BY <1>0, <2>3, WrittenInEditions
  <2>5. ASSUME Rebuild \notin l PROVE NextFresh(r, l) /\ Chosen(r, l)
    <3>1. /\ \A e \in t.events \cup Recomputed.events :
               e[1] \notin NamedEditions(l) \cup NamedEditions(C) => (e \in t.events <=> e \in Recomputed.events)
          /\ DirtyItems(C) \subseteq run.dirty \cup DirtyItems(l)
      BY <2>2, <2>5, MaintainedFresh
    <3>2. /\ ItemsFresh(run.next, l) /\ NamedEditions(C) \subseteq run.editions \cup NamedEditions(l)
          /\ \A e \in run.editions \ NamedEditions(l), i \in Items :
               (i \in DOMAIN run.member /\ run.member[i] = e) <=> Resolve(i) = e
      BY <2>2, <2>5 DEF Working, PendInv, NextFresh, ItemsDone, Chosen
    <3>3. ASSUME NEW f, f[1] \in Items, f[1] \notin NamedEditions(l)
          PROVE  f \in r.next.events <=> f \in Recomputed.events
      <4>1. CASE f[1] \notin run.editions
        <5>1. f \in r.next.events <=> f \in t.events
          BY <2>1, <2>2, <2>4, <4>1 DEF Kept
        <5>2. f \in t.events <=> f \in Recomputed.events
          BY <3>1, <3>2, <3>3, <4>1
        <5>. QED BY <5>1, <5>2
      <4>2. CASE f[1] \in run.editions
        <5>1. f \in r.next.events <=> f \in Written
          BY <2>1, <4>2 DEF Kept
        <5>2. run.member \in [S -> Items] /\ DOMAIN run.member = S
          BY <1>0, <2>3 DEF Runs
        <5>3. \A i \in Releases : (i \in S /\ run.member[i] = f[1]) <=> Resolve(i) = f[1]
          BY <3>2, <3>3, <4>2, <5>2 DEF Items
        <5>4. f \in EditionRows(run.next.items, run.member) <=> f \in Recomputed.events
          <6>. PICK edition \in [S -> Items], e \in Items : edition = run.member /\ e = f[1]
            BY <3>3, <5>2
          <6>1. f \in EditionRows(run.next.items, edition) <=> f \in Recomputed.events
            BY <1>0, <3>2, <3>3, <5>3, RowsFresh
          <6>. QED BY <6>1
        <5>. QED BY <5>1, <5>4 DEF Written
      <4>. QED BY <4>1, <4>2
    <3>4. EventsFresh(r.next, l)
      <4>1. \A f \in r.next.events : f[1] \in Items
        BY <1>0, <2>1, <2>4 DEF Kept, Tables, Runs
      <4>. QED BY <1>e, <3>3, <4>1 DEF EventsFresh, Same
    <3>5. NextFresh(r, l)
      BY <2>1, <3>2, <3>4 DEF NextFresh, ItemsFresh, ParentsDone
    <3>. QED BY <2>1, <3>1, <3>2, <3>5 DEF Chosen
  <2>. QED BY <1>0, <2>1, <2>5, PendWork DEF Working
<1>2. CASE RebuildEvents
  <2>. DEFINE id == [i \in Releases |-> Resolve(i)]
  <2>1. /\ r.step = "rebuild parents" /\ r.changed = C /\ r.next.items = run.next.items
        /\ r.next.events = EditionRows(run.next.items, id) /\ run.step = "rebuild events"
    BY <1>0, <1>2 DEF RebuildEvents, Step, Runs, Tables
  <2>2. id \in [Releases -> Items] /\ Releases \in SUBSET Items
    BY <1>e DEF Items
  <2>3. ASSUME Rebuild \notin l PROVE NextFresh(r, l) /\ Chosen(r, l)
    <3>1. ItemsFresh(run.next, l)
      BY <2>1, <2>3 DEF Working, PendInv, NextFresh, ItemsDone
    <3>2. ASSUME NEW f, f[1] \in Items, f[1] \notin NamedEditions(l)
          PROVE  f \in r.next.events <=> f \in Recomputed.events
      <4>. PICK edition \in [Releases -> Items], e \in Items : edition = id /\ e = f[1]
        BY <2>2, <3>2
      <4>1. \A i \in Releases : (i \in Releases /\ edition[i] = e) <=> Resolve(i) = e
        OBVIOUS
      <4>2. f \in EditionRows(run.next.items, edition) <=> f \in Recomputed.events
        <5>. HIDE DEF id
        <5>. QED BY <1>0, <2>2, <3>1, <3>2, <4>1, RowsFresh
      <4>. QED BY <2>1, <4>2
    <3>3. \A f \in r.next.events : f[1] \in Items
      <4>1. run.next.items \in SUBSET (Items \X (Nat \ {0}))
        BY <1>0 DEF Tables
      <4>2. \A f \in EditionRows(run.next.items, id) :
              \E i \in Releases \cap Releases, x \in Event : SideEvent(run.next.items, i, x) /\ f = <<id[i], i, x>>
        BY <1>0, <2>2, <4>1, RowsAre
      <4>3. \A i \in Releases : id[i] \in Items
        BY <2>2
      <4>4. SUFFICES ASSUME NEW f \in EditionRows(run.next.items, id) PROVE f[1] \in Items
        BY <2>1
      <4>5. PICK i \in Releases, x \in Event : f = <<id[i], i, x>>
        BY <4>2
      <4>. HIDE DEF id
      <4>. QED BY <4>3, <4>5
    <3>4. EventsFresh(r.next, l)
      BY <1>e, <3>2, <3>3 DEF EventsFresh, Same
    <3>5. NextFresh(r, l)
      BY <2>1, <3>1, <3>4 DEF NextFresh, ItemsFresh, ParentsDone
    <3>. QED BY <2>1, <3>5 DEF Chosen, Maintaining
  <2>. QED BY <1>0, <2>1, <2>3, PendWork DEF Working
<1>. QED BY <1>1, <1>2

(* The parents of the chosen editions are written last, for those that have events. *)
LEMMA PendParents == Working /\ (MaintainParents \/ RebuildParents) => PendInv'
<1>. SUFFICES ASSUME Working, MaintainParents \/ RebuildParents PROVE PendInv'
  OBVIOUS
<1>. PICK r, C, l, t : r = run' /\ C = run.changed /\ l = log /\ t = ledger
  OBVIOUS
<1>0. /\ UNCHANGED <<sources, log, ledger, refreshed>> /\ run \in Runs /\ run.next \in Tables /\ t \in Tables
      /\ SourcesOK /\ OneHop /\ TInv
  BY DEF Working, TInv, TypeOK, Runs, PendInv, MaintainParents, RebuildParents, Step, logs
<1>n. AllNamed /\ FullUnder
  BY NamesAre, FullParents
<1>o. \A f \in Recomputed.events : f[1] \in Items
  <2>1. FullRows /\ \A i \in Items : Resolve(i) \in Items
    BY <1>0, FullEvents, ResolveType
  <2>. QED BY <2>1 DEF FullRows, Items
<1>e. ASSUME EventsFresh(run.next, l), NEW e \in Items, e \notin NamedEditions(l)
      PROVE  e \in Owners(run.next.events) <=> e \in Owners(Recomputed.events)
  BY <1>e DEF EventsFresh, Same, Owners
<1>p. ASSUME NEW E, NEW q, q[1] \in E <=> q[1] \in Owners(Recomputed.events)
      PROVE  q \in ParentRows(E) <=> q \in Recomputed.parents
  <2>1. q \in ParentRows(E) <=> \E e \in E : \E w : Under(e, w) /\ q = <<e, w>>
    BY ParentsAre
  <2>2. q \in Recomputed.parents <=> \E e \in Owners(Recomputed.events) : \E w : Under(e, w) /\ q = <<e, w>>
    BY <1>n DEF FullUnder
  <2>. QED BY <1>p, <2>1, <2>2
<1>1. CASE MaintainParents
  <2>. DEFINE E == run.editions \cap Owners(run.next.events)
              moved == {p \in run.next.parents : p[1] \in run.editions}
  <2>1. /\ r.step = "commit" /\ r.changed = C
        /\ r.next.items = run.next.items /\ r.next.events = run.next.events
        /\ r.next.parents = (run.next.parents \ moved) \cup ParentRows(E)
    BY <1>0, <1>1 DEF MaintainParents, Step, Runs, Tables
  <2>2. run.step = "parents" /\ run.step \in Maintaining /\ run.next.parents = t.parents
    BY <1>1 DEF MaintainParents, Step, Maintaining, Working, TableInv
  <2>3. \A q \in ParentRows(E) : q[1] \in E
    BY ParentsAre
  <2>4. ASSUME Rebuild \notin l PROVE NextFresh(r, l) /\ Chosen(r, l)
    <3>1. \A e \in t.parents \cup Recomputed.parents :
            e[1] \notin NamedParents(l) \cup NamedParents(C) => (e \in t.parents <=> e \in Recomputed.parents)
      BY <2>2, <2>4, MaintainedFresh
    <3>2. /\ ItemsFresh(run.next, l) /\ EventsFresh(run.next, l)
          /\ NamedParents(C) \subseteq run.editions \cup NamedParents(l)
      BY <2>2, <2>4 DEF Working, PendInv, NextFresh, ItemsDone, EventsDone, Chosen
    <3>3. ASSUME NEW q, q[1] \in Items, q[1] \notin NamedParents(l)
          PROVE  q \in r.next.parents <=> q \in Recomputed.parents
      <4>1. CASE q[1] \notin run.editions
        <5>1. q \in r.next.parents <=> q \in t.parents
          BY <2>1, <2>2, <2>3, <4>1
        <5>2. q \in t.parents <=> q \in Recomputed.parents
          BY <3>1, <3>2, <3>3, <4>1
        <5>. QED BY <5>1, <5>2
      <4>2. CASE q[1] \in run.editions
        <5>1. q \in r.next.parents <=> q \in ParentRows(E)
          BY <2>1, <4>2
        <5>2. q[1] \notin NamedEditions(l)
          BY <1>n, <3>3 DEF AllNamed, Naming
        <5>3. q[1] \in Owners(run.next.events) <=> q[1] \in Owners(Recomputed.events)
          <6>. PICK e \in Items : e = q[1]
            BY <3>3
          <6>1. e \in Owners(run.next.events) <=> e \in Owners(Recomputed.events)
            BY <1>e, <3>2, <5>2
          <6>. QED BY <6>1
        <5>4. q[1] \in E <=> q[1] \in Owners(Recomputed.events)
          BY <4>2, <5>3
        <5>. QED BY <1>p, <5>1, <5>4
      <4>. QED BY <4>1, <4>2
    <3>4. ParentsFresh(r.next, l)
      <4>1. \A q \in r.next.parents : q[1] \in Items
        BY <1>0, <2>1, <2>3 DEF Tables, Runs
      <4>2. \A q \in Recomputed.parents : q[1] \in Items
        BY <1>n, <1>o DEF FullUnder, Owners
      <4>. QED BY <3>3, <4>1, <4>2 DEF ParentsFresh, Same
    <3>5. NextFresh(r, l)
      BY <2>1, <3>2, <3>4 DEF NextFresh, ItemsFresh, EventsFresh
    <3>. QED BY <2>1, <3>5 DEF Chosen, Maintaining
  <2>. QED BY <1>0, <2>1, <2>4, PendWork DEF Working
<1>2. CASE RebuildParents
  <2>. DEFINE E == Owners(run.next.events)
  <2>1. /\ r.step = "rebuild density" /\ r.changed = C
        /\ r.next.items = run.next.items /\ r.next.events = run.next.events
        /\ r.next.parents = ParentRows(E) /\ run.step = "rebuild parents"
    BY <1>0, <1>2 DEF RebuildParents, Step, Runs, Tables
  <2>2. ASSUME Rebuild \notin l PROVE NextFresh(r, l) /\ Chosen(r, l)
    <3>1. ItemsFresh(run.next, l) /\ EventsFresh(run.next, l)
      BY <2>1, <2>2 DEF Working, PendInv, NextFresh, ItemsDone, EventsDone
    <3>2. ASSUME NEW q, q[1] \in Items, q[1] \notin NamedParents(l)
          PROVE  q \in r.next.parents <=> q \in Recomputed.parents
      <4>1. q[1] \notin NamedEditions(l)
        BY <1>n, <3>2 DEF AllNamed, Naming
      <4>2. q[1] \in E <=> q[1] \in Owners(Recomputed.events)
        <5>. PICK e \in Items : e = q[1]
          BY <3>2
        <5>1. e \in Owners(run.next.events) <=> e \in Owners(Recomputed.events)
          BY <1>e, <3>1, <4>1
        <5>. QED BY <5>1
      <4>. QED BY <1>p, <2>1, <4>2
    <3>3. ParentsFresh(r.next, l)
      <4>1. \A q \in r.next.parents : q[1] \in Items
        <5>1. \A e \in E : e \in Items
          BY <1>0 DEF Tables, Owners
        <5>2. \A q \in ParentRows(E) : q[1] \in E
          BY ParentsAre
        <5>. QED BY <2>1, <5>1, <5>2
      <4>2. \A q \in Recomputed.parents : q[1] \in Items
        BY <1>n, <1>o DEF FullUnder, Owners
      <4>. QED BY <3>2, <4>1, <4>2 DEF ParentsFresh, Same
    <3>4. NextFresh(r, l)
      BY <2>1, <3>1, <3>3 DEF NextFresh, ItemsFresh, EventsFresh
    <3>. QED BY <2>1, <3>4 DEF Chosen, Maintaining
  <2>. QED BY <1>0, <2>1, <2>2, PendWork DEF Working
<1>. QED BY <1>1, <1>2

(* Counting changes no row. *)
LEMMA PendDensity == Working /\ RebuildDensity => PendInv'
<1>. SUFFICES ASSUME Working, RebuildDensity PROVE PendInv'
  OBVIOUS
<1>. PICK r, l : r = run' /\ l = log
  OBVIOUS
<1>0. /\ UNCHANGED <<sources, log, ledger, refreshed>> /\ run \in Runs /\ run.next \in Tables
  BY DEF Working, TInv, TypeOK, Runs, RebuildDensity, Step
<1>1. /\ r.step = "commit" /\ r.changed = run.changed /\ run.step = "rebuild density"
      /\ r.next.items = run.next.items /\ r.next.events = run.next.events /\ r.next.parents = run.next.parents
  BY <1>0 DEF RebuildDensity, Step, Runs, Tables
<1>2. ASSUME Rebuild \notin l PROVE NextFresh(r, l) /\ Chosen(r, l)
  <2>1. ItemsFresh(run.next, l) /\ EventsFresh(run.next, l) /\ ParentsFresh(run.next, l)
    BY <1>1, <1>2 DEF Working, PendInv, NextFresh, ItemsDone, EventsDone, ParentsDone
  <2>2. NextFresh(r, l)
    BY <1>1, <2>1 DEF NextFresh, ItemsFresh, EventsFresh, ParentsFresh
  <2>. QED BY <1>1, <2>2 DEF Chosen, Maintaining
<1>. QED BY <1>0, <1>1, <1>2, PendWork DEF Working

(* However writers and refreshes interleave. *)
LEMMA PendStep == TInv /\ TInv' /\ RunInv /\ TableInv /\ PendInv /\ [Next]_vars => PendInv'
<1>. SUFFICES ASSUME TInv, TInv', RunInv, TableInv, PendInv, [Next]_vars PROVE PendInv'
  OBVIOUS
<1>0. OneHop' /\ Working
  BY OneHopStep DEF PendInv, Working
<1>1. CASE Writer
  BY <1>0, <1>1, PendWriter
<1>2. CASE Begin \/ Drain \/ Choose \/ DrainDeltas \/ Commit \/ Fail
  BY <1>2, PendControl
<1>3. CASE ChooseEditions \/ ChooseMembers \/ ChooseMasters \/ ChooseParentEditions
  BY <1>0, <1>3, PendChoices
<1>4. CASE MaintainItems \/ RebuildItems \/ MaintainEvents \/ RebuildEvents \/ MaintainParents \/ RebuildParents
           \/ RebuildDensity
  BY <1>0, <1>4, PendItems, PendEvents, PendParents, PendDensity
<1>5. CASE UNCHANGED <<sources, logs, refreshed, ledger, run>>
  <2>. PICK r : r = run'
    OBVIOUS
  <2>1. UNCHANGED <<sources, log, ledger, refreshed>> /\ r.changed = run.changed
    BY <1>5 DEF logs
  <2>2. Rebuild \notin log => NextFresh(r, log) /\ Chosen(r, log)
    BY <1>5 DEF PendInv
  <2>. QED BY <2>1, <2>2, PendWork
<1>6. ASSUME NEW s \in Sources, CreateTriggers(s) PROVE PendInv'
  BY <1>5, <1>6 DEF CreateTriggers
<1>7. CASE UNCHANGED vars
  BY <1>5, <1>7 DEF vars
<1>. QED BY <1>1, <1>2, <1>3, <1>4, <1>6, <1>7 DEF Next, Refresh, Maintain, RebuildAll

(* Rows that differ are rows one side has and the other has not. *)
LEMMA PendIsNamed == TInv /\ PendInv => DifferencesArePending
<1>. DEFINE Differ(x, y) == Owners((x \ y) \cup (y \ x))
<1>. SUFFICES ASSUME TInv, PendInv, refreshed, Rebuild \notin Pending
     PROVE  /\ Differ(ledger.items, Recomputed.items) \subseteq DirtyItems(Pending)
            /\ Differ(ledger.events, Recomputed.events) \subseteq NamedEditions(Pending)
            /\ Differ(ledger.parents, Recomputed.parents) \subseteq NamedParents(Pending)
  BY DEF DifferencesArePending, NamedEditions, NamedMasters, NamedParents
<1>1. Fresh(ledger, Pending)
  BY DEF PendInv, Pending
<1>2. Recomputed.items = aliased
  BY DEF Recomputed
<1>. QED BY <1>1, <1>2 DEF Fresh, ItemsFresh, EventsFresh, ParentsFresh, Same, Owners

\* Once refreshed, whatever the published rows lack or have too much is named by the changes
\* that are pending, however writers, refreshes and their failures interleaved: no change is
\* lost, and a refresh that saw half of one leaves the whole of it in the log
\* (postgres.py:6159-6161).
THEOREM StaleRowsAreNamed == Spec => []DifferencesArePending
<1>1. Init => TInv /\ RunInv /\ TableInv /\ PendInv
  BY TypeInit, RunInit, TableInit, PendInit
<1>2. TInv /\ RunInv /\ TableInv /\ PendInv /\ [Next]_vars => (TInv /\ RunInv /\ TableInv /\ PendInv)'
  BY TypeStep, RunStep, TableStep, PendStep
<1>. QED BY <1>1, <1>2, PendIsNamed, PTL DEF Spec
=============================================================================
