--------------------------- MODULE IdentityLedger ---------------------------
(***************************************************************************)
(* The precomputed Identity Ledger: six source tables whose statement      *)
(* triggers log every change in the writer's own transaction, and one      *)
(* refresh that drains the logs and maintains, or rebuilds, four published *)
(* tables and the per-item rows behind them.                               *)
(*                                                                         *)
(* The refresh is one READ COMMITTED transaction: each of its statements   *)
(* sees what was committed when that statement began, so writers commit    *)
(* between any two of them.  A statement that reads a source is an action; *)
(* statements that read only what the refresh itself wrote are part of the *)
(* action before them.  The advisory lock allows one refresh at a time.    *)
(*                                                                         *)
(* An event is named by what caused it: an item's n-th alias event (the    *)
(* first is its mint), the link event of a key, the opening or closing of  *)
(* a supersession.  Instants and types are abstracted to that name, and a  *)
(* count to the rows that share it.  A key stands for a release's          *)
(* (provider, entity, external id), a master key for a work's, and parent  *)
(* for the rows of graph.derived_from and musicbrainz.releases alike.      *)
(***************************************************************************)
EXTENDS Integers, FiniteSets

CONSTANTS
  Releases, Works,      \* catalog items of kind release and of kind master
  Keys, Masters,        \* external ids of releases and of masters
  NoItem, NoMaster,     \* SQL NULL
  Loaded,               \* the open aliases a loaded catalog may have to begin with
  Large,                \* dirty items above this make a refresh rebuild
  MaxChanges, MaxFails  \* bounds: committed writes, failed refreshes

Items == Releases \cup Works
Counted == {"link", "opened", "reverted"}        \* events density counts from base tables
Kinds == Counted \cup {"alias"}
Sources == {"aliases", "supersessions", "links", "parents"}

ASSUME ConstantsDistinct ==
  /\ IsFiniteSet(Items) /\ IsFiniteSet(Keys) /\ IsFiniteSet(Masters)
  /\ Releases \cap Works = {} /\ Keys \cap Masters = {}
  /\ NoItem \notin Items /\ NoMaster \notin Masters
  /\ Loaded \subseteq {h \in [Keys \cup Masters -> Items \cup {NoItem}] :
                  /\ \A k \in Keys : h[k] \notin Works
                  /\ \A m \in Masters : h[m] \notin Releases}
  /\ Large \in Nat /\ MaxChanges \in Nat /\ MaxFails \in Nat

VARIABLES
  holder,     \* provider_aliases: the item of each external id's open alias
  aliased,    \* provider_aliases: the alias events <<item, n>> of every item
  base,       \* identity_link_events and catalog_item_supersessions, by kind of event
  parent,     \* derived_from and releases: the master of each release key
  captured,   \* the sources with all four capture triggers
  log,        \* identity_ledger_changes, committed and not drained
  delta,      \* identity_ledger_density_changes, likewise, summed by kind
  refreshed,  \* is there a row in identity_ledger_refresh_state?
  ledger,     \* the published tables and the per-item rows, as committed
  run,        \* the refresh in progress: its step, temporary tables and uncommitted rows
  changes,    \* writes committed so far
  fails       \* refreshes that failed so far

sources == <<holder, aliased, base, parent>>
logs == <<log, delta>>
vars == <<sources, captured, logs, refreshed, ledger, run, changes, fails>>

-----------------------------------------------------------------------------
(* What the tables hold, as functions of the sources one statement sees. *)

\* The supersessions with valid_to IS NULL.
Open == base["opened"] \ base["reverted"]

\* The item an item resolves to, one hop through its open supersession.
Resolve(i) == IF \E s \in Open : s[1] = i THEN (CHOOSE s \in Open : s[1] = i)[2] ELSE i

\* The non-mint events of the items S, each with the item it is on.
SideEvents(stored, S) ==
  {<<r[1], <<"alias", r[2]>>>> : r \in {r \in stored : r[1] \in S \cap Releases /\ r[2] > 1}}
  \cup {<<holder[k], <<"link", k>>>> : k \in {k \in base["link"] : holder[k] \in S}}
  \cup {e \in S \X ({"opened", "reverted"} \X (Releases \X Releases)) :
          e[2][2] \in base[e[2][1]] /\ e[1] \in {e[2][2][1], e[2][2][2]}}

\* identity_ledger_edition_events: each event under the edition its item is a member of.
EditionRows(stored, edition) ==
  {<<edition[e[1]], e[1], e[2]>> : e \in SideEvents(stored, DOMAIN edition)}

\* identity_ledger_edition_parents of the editions E: their members' keys' masters' items.
ParentRows(E) ==
  LET held == {h \in E \X Keys : holder[h[2]] = h[1] \/ <<holder[h[2]], h[1]>> \in Open}
      worked == {h \in held : parent[h[2]] # NoMaster /\ holder[parent[h[2]]] # NoItem}
  IN {<<h[1], Resolve(holder[parent[h[2]]])>> : h \in worked}

\* The editions, or the items, that some rows are of.
Owners(rows) == {e[1] : e \in rows}

\* identity_ledger_work_summary: the events of the editions under a work.
Summary(w, events, parents) == {e \in events : <<e[1], w>> \in parents}

\* The full recompute that identity_ledger_verify() compares the tables with.
Recomputed ==
  LET events == EditionRows(aliased, [i \in Releases |-> Resolve(i)])
      parents == ParentRows(Owners(events))
  IN [items |-> aliased, events |-> events, parents |-> parents,
      summary |-> [w \in Works |-> Summary(w, events, parents)],
      density |-> [c \in Kinds |-> Cardinality(IF c = "alias" THEN aliased ELSE base[c])]]

Empty == [items |-> {}, events |-> {}, parents |-> {},
          summary |-> [w \in Works |-> {}], density |-> [c \in Kinds |-> 0]]

NoDelta == [c \in Counted |-> 0]
Idle == [step |-> "idle", changed |-> {}, drained |-> NoDelta, dirty |-> {}, editions |-> {},
         member |-> [i \in {} |-> i], masters |-> {}, next |-> Empty]

-----------------------------------------------------------------------------
(* The change log. *)

Rebuild == <<"rebuild", NoItem>>
Item(i) == <<"item", i>>
Key(k) == <<"key", k>>

\* What a source's triggers append; nothing when they are not all there.
Captured(source, rows) == IF source \in captured THEN rows ELSE {}
CapturedDelta(source, c, n) ==
  IF source \in captured THEN [delta EXCEPT ![c] = @ + n] ELSE delta

\* An alias row's item, and a master alias's key.
AliasLogged(keys, items) == {Item(i) : i \in items} \cup {Key(m) : m \in keys \cap Masters}

\* Mutant: a release key with no current holder still makes a row.
DirtyItemsOuter(rows) ==
  {i \in Items : Item(i) \in rows} \cup {holder[k] : k \in {k \in Keys : Key(k) \in rows}}
\* The items a set of log rows makes dirty: those it names, and the holders of release keys.
DirtyItems(rows) ==
  {i \in Items : Item(i) \in rows} \cup {holder[k] : k \in {k \in Keys : Key(k) \in rows /\ holder[k] # NoItem}}

\* The editions of dirty items, and the masters and editions whose parents may have moved.
DirtyEditions(dirty) == dirty \cup {Resolve(i) : i \in dirty}
DirtyMasters(rows, dirty) == {m \in Masters : Key(m) \in rows \/ holder[m] \in dirty}
ParentEditions(editions, masters) ==
  LET reached == {holder[k] : k \in {k \in Keys : parent[k] \in masters /\ holder[k] # NoItem}}
  IN editions \cup reached \cup {Resolve(i) : i \in reached}

-----------------------------------------------------------------------------
(* Writers: transactions of catalog-api and the loaders, with the log rows  *)
(* the triggers add to them.  Nothing of a transaction is seen before its   *)
(* commit, and what a trigger logs depends on no other transaction, so a    *)
(* transaction is one action at its commit.                                 *)

Write ==
  /\ changes < MaxChanges
  /\ changes' = changes + 1
  /\ UNCHANGED <<captured, refreshed, ledger, run, fails>>

NextEvent(i) == <<i, Cardinality({r \in aliased : r[1] = i}) + 1>>

\* An external id becomes evidence for an item.
OpenAlias(k, i) ==
  /\ Write
  /\ holder[k] = NoItem
  /\ (k \in Keys) <=> (i \in Releases)
  /\ holder' = [holder EXCEPT ![k] = i]
  /\ aliased' = aliased \cup {NextEvent(i)}
  /\ log' = log \cup Captured("aliases", AliasLogged({k}, {i}))
  /\ UNCHANGED <<base, parent, delta>>

CloseAlias(k) ==
  /\ Write
  /\ holder[k] # NoItem
  /\ holder' = [holder EXCEPT ![k] = NoItem]
  /\ aliased' = aliased \cup {NextEvent(holder[k])}
  /\ log' = log \cup Captured("aliases", AliasLogged({k}, {holder[k]}))
  /\ UNCHANGED <<base, parent, delta>>

\* A supersession opens or closes, and moves some aliases of one item to the other at
\* the same instant, which makes those rows no events of their own (but an item with a
\* first alias is minted by it).
MoveAliases(keys, from, to) ==
  /\ aliased' = IF keys = {} THEN aliased ELSE aliased \cup {<<to, 1>>}
  /\ holder' = [k \in DOMAIN holder |-> IF k \in keys THEN to ELSE holder[k]]
  /\ log' = log \cup Captured("supersessions", {Item(from), Item(to)})
                \cup (IF keys = {} THEN {} ELSE Captured("aliases", AliasLogged(keys, {from, to})))

Held(i) == {k \in DOMAIN holder : holder[k] = i}

\* Resolution is always one hop: an item that survives another, or is superseded, is not
\* superseded.  (Compressing a chain reverts and reopens its rows; here in several writes.)
Supersede(a, b) ==
  /\ Write
  /\ a # b
  /\ (a \in Releases) <=> (b \in Releases)
  /\ <<a, b>> \notin base["opened"]
  /\ \A s \in Open : s[1] \notin {a, b} /\ s[2] # a
  /\ base' = [base EXCEPT !["opened"] = @ \cup {<<a, b>>}]
  /\ delta' = CapturedDelta("supersessions", "opened", 1)
  /\ \E keys \in SUBSET Held(a) : MoveAliases(keys, a, b)
  /\ UNCHANGED parent

\* The update logs the old row's opening with -1 and the new row's with +1.
Revert(a, b) ==
  /\ Write
  /\ <<a, b>> \in Open
  /\ base' = [base EXCEPT !["reverted"] = @ \cup {<<a, b>>}]
  /\ delta' = CapturedDelta("supersessions", "reverted", 1)
  /\ \E keys \in SUBSET Held(b) : MoveAliases(keys, b, a)
  /\ UNCHANGED parent

Link(k) ==
  /\ Write
  /\ k \notin base["link"]
  /\ base' = [base EXCEPT !["link"] = @ \cup {k}]
  /\ log' = log \cup Captured("links", {Key(k)})
  /\ delta' = CapturedDelta("links", "link", 1)
  /\ UNCHANGED <<holder, aliased, parent>>

Unlink(k) ==
  /\ Write
  /\ k \in base["link"]
  /\ base' = [base EXCEPT !["link"] = @ \ {k}]
  /\ log' = log \cup Captured("links", {Key(k)})
  /\ delta' = CapturedDelta("links", "link", -1)
  /\ UNCHANGED <<holder, aliased, parent>>

\* A derived_from row, or a release group, comes, goes or changes.
SetParent(k, m) ==
  /\ Write
  /\ parent[k] # m
  /\ parent' = [parent EXCEPT ![k] = m]
  /\ log' = log \cup Captured("parents", {Key(k)})
  /\ UNCHANGED <<holder, aliased, base, delta>>

\* TRUNCATE of identity_link_events logs a rebuild and no deltas.
TruncateLinks ==
  /\ Write
  /\ base["link"] # {}
  /\ base' = [base EXCEPT !["link"] = {}]
  /\ log' = log \cup Captured("links", {Rebuild})
  /\ UNCHANGED <<holder, aliased, parent, delta>>

RequestRebuild ==
  /\ Write
  /\ log' = log \cup {Rebuild}
  /\ UNCHANGED <<sources, delta>>

Writer ==
  \/ \E k \in Keys \cup Masters : CloseAlias(k) \/ \E i \in Items : OpenAlias(k, i)
  \/ \E a, b \in Items : Supersede(a, b) \/ Revert(a, b)
  \/ \E k \in Keys : Link(k) \/ Unlink(k) \/ \E m \in Masters \cup {NoMaster} : SetParent(k, m)
  \/ TruncateLinks
  \/ RequestRebuild

\* One table's capture statement of the schema apply, which creates its four triggers in
\* one transaction unless it counts four already.
CreateTriggers(source) ==
  /\ source \notin captured
  /\ captured' = captured \cup {source}
  /\ UNCHANGED <<sources, logs, refreshed, ledger, run, changes, fails>>

-----------------------------------------------------------------------------
(* The refresh. *)

Step(at, r) ==
  /\ run.step = at
  /\ run' = r
  /\ UNCHANGED <<sources, captured, changes, fails>>

\* Takes the lock and refuses unless every source is captured.
Begin ==
  /\ captured = Sources
  /\ Step("idle", [run EXCEPT !.step = "drain", !.next = ledger])
  /\ UNCHANGED <<logs, refreshed, ledger>>

Drain ==
  /\ Step("drain", [run EXCEPT !.step = "choose", !.changed = log])
  /\ log' = {}
  /\ UNCHANGED <<delta, refreshed, ledger>>

\* Mutant: the missing state row does not ask for a rebuild.
ChooseByLog ==
  LET dirty == DirtyItems(run.changed)
      all == Rebuild \in run.changed \/ Cardinality(dirty) > Large
  IN /\ Step("choose", [run EXCEPT !.dirty = dirty,
                          !.step = IF all THEN "rebuild items"
                                   ELSE IF dirty # {} \/ delta # NoDelta THEN "deltas" ELSE "commit"])
     /\ UNCHANGED <<logs, refreshed, ledger>>
\* Chooses between a rebuild, the maintenance of the dirty items, and nothing.
Choose ==
  LET dirty == DirtyItems(run.changed)
      all == ~refreshed \/ Rebuild \in run.changed \/ Cardinality(dirty) > Large
  IN /\ Step("choose", [run EXCEPT !.dirty = dirty,
                          !.step = IF all THEN "rebuild items"
                                   ELSE IF dirty # {} \/ delta # NoDelta THEN "deltas" ELSE "commit"])
     /\ UNCHANGED <<logs, refreshed, ledger>>

\* identity_ledger_maintain(), one action per statement that reads a log or a source.
DrainDeltas ==
  /\ Step("deltas", [run EXCEPT !.step = "items", !.drained = delta])
  /\ delta' = NoDelta
  /\ UNCHANGED <<log, refreshed, ledger>>

\* Replaces the dirty items' rows and folds the difference and the drained deltas into density.
MaintainItems ==
  LET old == {r \in run.next.items : r[1] \in run.dirty}
      new == {r \in aliased : r[1] \in run.dirty}
      fold == [c \in Kinds |-> run.next.density[c] +
                 (IF c = "alias" THEN Cardinality(new) - Cardinality(old) ELSE run.drained[c])]
  IN /\ Step("items", [run EXCEPT !.step = "editions",
                         !.next.items = (@ \ old) \cup new, !.next.density = fold])
     /\ UNCHANGED <<logs, refreshed, ledger>>

ChooseEditions ==
  /\ Step("editions", [run EXCEPT !.step = "members", !.editions = DirtyEditions(run.dirty)])
  /\ UNCHANGED <<logs, refreshed, ledger>>

\* Every item that resolves to a dirty edition, with that edition.
Members(editions) ==
  LET candidates == editions \cup {s[1] : s \in {s \in Open : s[2] \in editions}}
  IN [i \in {i \in candidates : Resolve(i) \in editions} |-> Resolve(i)]

ChooseMembers ==
  /\ Step("members", [run EXCEPT !.step = "events", !.member = Members(run.editions)])
  /\ UNCHANGED <<logs, refreshed, ledger>>

\* Mutant: the statement resolves the members again, in its own snapshot.
WrittenElsewhere == EditionRows(run.next.items, [i \in DOMAIN run.member |-> Resolve(i)])
\* The rows this refresh inserts, and those the unique index would find in their way.
Kept(editions) == {e \in run.next.events : e[1] \notin editions}
Written == EditionRows(run.next.items, run.member)

MaintainEvents ==
  /\ Step("events", [run EXCEPT !.step = "masters", !.next.events = Kept(run.editions) \cup Written])
  /\ UNCHANGED <<logs, refreshed, ledger>>

ChooseMasters ==
  /\ Step("masters", [run EXCEPT !.step = "parent editions",
                        !.masters = DirtyMasters(run.changed, run.dirty)])
  /\ UNCHANGED <<logs, refreshed, ledger>>

ChooseParentEditions ==
  /\ Step("parent editions", [run EXCEPT !.step = "parents",
                                !.editions = ParentEditions(run.editions, run.masters)])
  /\ UNCHANGED <<logs, refreshed, ledger>>

\* Mutant: only the works the editions sat under before are summarised again.
MaintainParentsMoved ==
  LET moved == {p \in run.next.parents : p[1] \in run.editions}
      parents == (run.next.parents \ moved) \cup ParentRows(run.editions \cap Owners(run.next.events))
      works == {p[2] : p \in moved}
  IN /\ Step("parents", [run EXCEPT !.step = "commit", !.next.parents = parents,
             !.next.summary = [w \in Works |-> IF w \in works THEN Summary(w, run.next.events, parents) ELSE @[w]]])
     /\ UNCHANGED <<logs, refreshed, ledger>>
\* Replaces the parents of those editions, and the summary of every work they sat under
\* before or sit under now.
MaintainParents ==
  LET moved == {p \in run.next.parents : p[1] \in run.editions}
      written == ParentRows(run.editions \cap Owners(run.next.events))
      parents == (run.next.parents \ moved) \cup written
      works == {p[2] : p \in moved \cup written}
  IN /\ Step("parents", [run EXCEPT !.step = "commit", !.next.parents = parents,
             !.next.summary = [w \in Works |-> IF w \in works THEN Summary(w, run.next.events, parents) ELSE @[w]]])
     /\ UNCHANGED <<logs, refreshed, ledger>>

\* identity_ledger_rebuild(), likewise.
RebuildItems ==
  /\ Step("rebuild items", [run EXCEPT !.step = "rebuild events", !.next = [Empty EXCEPT !.items = aliased]])
  /\ UNCHANGED <<logs, refreshed, ledger>>

RebuildEvents ==
  /\ Step("rebuild events", [run EXCEPT !.step = "rebuild parents",
             !.next.events = EditionRows(run.next.items, [i \in Releases |-> Resolve(i)])])
  /\ UNCHANGED <<logs, refreshed, ledger>>

RebuildParents ==
  LET parents == ParentRows(Owners(run.next.events))
  IN /\ Step("rebuild parents", [run EXCEPT !.step = "rebuild density", !.next.parents = parents,
               !.next.summary = [w \in Works |-> Summary(w, run.next.events, parents)]])
     /\ UNCHANGED <<logs, refreshed, ledger>>

\* Mutant: the deltas the counts already contain stay to be folded in again.
RebuildDensityUndrained ==
  /\ Step("rebuild density", [run EXCEPT !.step = "commit",
             !.next.density = [c \in Kinds |-> Cardinality(IF c = "alias" THEN run.next.items ELSE base[c])]])
  /\ UNCHANGED <<logs, refreshed, ledger>>
\* Counts the base tables and drains the deltas in one statement, which is one snapshot.
RebuildDensity ==
  /\ Step("rebuild density", [run EXCEPT !.step = "commit", !.drained = delta,
             !.next.density = [c \in Kinds |-> Cardinality(IF c = "alias" THEN run.next.items ELSE base[c])]])
  /\ delta' = NoDelta
  /\ UNCHANGED <<log, refreshed, ledger>>

\* Mutant: the log is emptied at the end, with what writers appended meanwhile.
CommitClearsLog ==
  /\ Step("commit", Idle)
  /\ ledger' = run.next
  /\ refreshed' = TRUE
  /\ log' = {}
  /\ UNCHANGED delta
Commit ==
  /\ Step("commit", Idle)
  /\ ledger' = run.next
  /\ refreshed' = TRUE
  /\ UNCHANGED logs

\* Any statement may fail; everything is as it was, and what was drained is back in the logs.
Fail ==
  /\ run.step # "idle"
  /\ fails < MaxFails
  /\ fails' = fails + 1
  /\ run' = Idle
  /\ log' = log \cup run.changed
  /\ delta' = [c \in Counted |-> delta[c] + run.drained[c]]
  /\ UNCHANGED <<sources, captured, refreshed, ledger, changes>>

Maintain ==
  \/ DrainDeltas \/ MaintainItems \/ ChooseEditions \/ ChooseMembers \/ MaintainEvents
  \/ ChooseMasters \/ ChooseParentEditions \/ MaintainParents
RebuildAll == RebuildItems \/ RebuildEvents \/ RebuildParents \/ RebuildDensity
Refresh == Begin \/ Drain \/ Choose \/ Maintain \/ RebuildAll \/ Commit

-----------------------------------------------------------------------------
\* A loaded catalog, in which every item has been minted and given one more alias, and one
\* may have been superseded: either captured and refreshed, or just upgraded from the views.
Init ==
  /\ holder \in Loaded
  /\ aliased = Items \X {1, 2}
  /\ \E s \in {{}} \cup {{<<a, b>>} : a, b \in Releases} :
       /\ \A p \in s : p[1] # p[2]
       /\ base = [c \in Counted |-> IF c = "opened" THEN s ELSE {}]
  /\ parent \in [Keys -> Masters]
  /\ log = {} /\ delta = NoDelta
  /\ \/ /\ captured = {}
        /\ refreshed = FALSE
        /\ ledger = Empty
     \/ /\ captured = Sources
        /\ refreshed = TRUE
        /\ ledger = Recomputed
  /\ run = Idle
  /\ changes = 0 /\ fails = 0

Next == Writer \/ (\E s \in Sources : CreateTriggers(s)) \/ Refresh \/ Fail

Spec == Init /\ [][Next]_vars

\* catalog-api polls for as long as it runs, and an apply that failed is run again.
Fairness == WF_vars(Refresh) /\ WF_vars(\E s \in Sources : CreateTriggers(s))
FairSpec == Spec /\ Fairness

\* The rollback statements, run while refreshes are stopped: the triggers go table by table
\* and the tables and the state row last.  An interrupted rollback, or an operator, may leave
\* triggers missing, and the schema apply is what brings them back.
DropTriggers(source) ==
  /\ run = Idle /\ source \in captured
  /\ captured' = captured \ {source}
  /\ UNCHANGED <<sources, logs, refreshed, ledger, run, changes, fails>>
RollbackTables ==
  /\ run = Idle /\ captured = {}
  /\ log' = {} /\ delta' = NoDelta
  /\ ledger' = Empty /\ refreshed' = FALSE
  /\ UNCHANGED <<sources, captured, run, changes, fails>>
OutageSpec == Init /\ [][Next \/ (\E s \in Sources : DropTriggers(s)) \/ RollbackTables]_vars

-----------------------------------------------------------------------------
(* Properties. *)

Event == ({"alias"} \X (Nat \ {0})) \cup ({"link"} \X Keys)
           \cup ({"opened", "reverted"} \X (Releases \X Releases))
Tables == [items : SUBSET (Items \X (Nat \ {0})), events : SUBSET (Items \X Releases \X Event),
           parents : SUBSET (Items \X Works),
           summary : [Works -> SUBSET (Items \X Releases \X Event)], density : [Kinds -> Int]]
LogRow == {Rebuild} \cup {Item(i) : i \in Items} \cup {Key(k) : k \in Keys \cup Masters}
Steps == {"idle", "drain", "choose", "deltas", "items", "editions", "members", "events", "masters",
          "parent editions", "parents", "commit",
          "rebuild items", "rebuild events", "rebuild parents", "rebuild density"}

Runs == [step : Steps, changed : SUBSET LogRow, drained : [Counted -> Int],
         dirty : SUBSET Items, editions : SUBSET Items,
         member : UNION {[S -> Items] : S \in SUBSET Items}, masters : SUBSET Masters,
         next : Tables]

\* Only releases hold release keys, works master keys, and a supersession stays within a kind.
SourcesOK ==
  /\ holder \in [Keys \cup Masters -> Items \cup {NoItem}]
  /\ \A k \in Keys : holder[k] \notin Works
  /\ \A m \in Masters : holder[m] \notin Releases
  /\ aliased \in SUBSET (Items \X (Nat \ {0}))
  /\ base \in [Counted -> SUBSET (Keys \cup (Items \X Items))]
  /\ base["link"] \subseteq Keys
  /\ base["opened"] \subseteq (Releases \X Releases) \cup (Works \X Works)
  /\ base["reverted"] \subseteq base["opened"]
  /\ parent \in [Keys -> Masters \cup {NoMaster}]

\* The state of the sources, the logs, the published tables and a refresh.
TypeOK ==
  /\ SourcesOK
  /\ captured \subseteq Sources
  /\ log \subseteq LogRow /\ delta \in [Counted -> Int]
  /\ refreshed \in BOOLEAN /\ ledger \in Tables /\ run \in Runs
  /\ changes \in 0..MaxChanges /\ fails \in 0..MaxFails

\* What verify() counts as pending: a refresh's drain is not visible before it commits.
Pending == log \cup run.changed
PendingDelta(c) == delta[c] + run.drained[c]

\* Once refreshed, every published row that differs from a full recompute belongs to an item,
\* an edition or a work's edition that the pending changes name, however writers and refreshes
\* interleaved: no change is lost, and one shown in part is still in the log
\* (postgres.py:6159-6161, docs/architecture.md:384-391).
DifferencesArePending ==
  refreshed /\ Rebuild \notin Pending =>
    LET full == Recomputed
        dirty == DirtyItems(Pending)
        editions == DirtyEditions(dirty)
        Differ(a, b) == Owners((a \ b) \cup (b \ a))
    IN /\ Differ(ledger.items, full.items) \subseteq dirty
       /\ Differ(ledger.events, full.events) \subseteq editions
       /\ Differ(ledger.parents, full.parents) \subseteq ParentEditions(editions, DirtyMasters(Pending, dirty))

\* Density counts every base event exactly once: what is folded in and what waits in the log
\* always add up, through drains, rebuilds and failures (postgres.py:5834-5839).
DensityAddsUp ==
  refreshed /\ Rebuild \notin Pending =>
    /\ \A c \in Counted : ledger.density[c] + PendingDelta(c) = Cardinality(base[c])
    /\ ledger.density["alias"] = Cardinality(ledger.items)

\* No insert of a refresh meets a row of another edition in the unique index on
\* (edition_id, at, type), even if a supersession committed meanwhile (postgres.py:6415-6423).
NoUniqueViolation ==
  run.step = "events" =>
    \A e \in Kept(run.editions), f \in Written : ~(e[1] = f[1] /\ e[3] = f[3])

\* The four tables always agree with each other, also when a refresh saw a change in part:
\* a work's summary is that of its editions' rows, and only an evented edition has parents
\* (postgres.py:5859-5861, docs/architecture.md:384).
Agree(tables) ==
  /\ \A w \in Works : tables.summary[w] = Summary(w, tables.events, tables.parents)
  /\ Owners(tables.parents) \subseteq Owners(tables.events)
TablesAgree == Agree(ledger)

\* When writers stop, some refresh makes the tables exact and they stay so.
CatchesUp == <>[](refreshed /\ ledger = Recomputed)

\* A refresh that succeeds and leaves nothing pending answers no stale row
\* (postgres.py:6710-6712, docs/architecture.md:392-394).
NeverAnswersStale ==
  [][Commit /\ log = {} /\ delta = NoDelta => ledger' = Recomputed]_vars
=============================================================================
