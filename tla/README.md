# TLA+ models of database-schema

The repository prepares a PostgreSQL and a Neo4j server for the groovemap services. Most of it is
declarative DDL, but the DDL carries programs: trigger functions, operator procedures, a refresh that
maintains precomputed tables, a fill of the graph tables, guarded migrations of relations of older releases,
and graph searches written in PL/pgSQL. Around them, a one-shot
initializer applies it all to databases that are live, half migrated, or being prepared by another
process. The modules here model those programs, TLC checks them on small instances, and TLAPS proves the
most important invariants for every value of the constants.

Line numbers are those of `src/src/groovemap_schema/postgres.py` unless another file is named.

## The system

| Component | State | Operations | Module |
| --- | --- | --- | --- |
| Activity event idempotency | `activity.events` (partitioned), `activity.event_idempotency`, `activity.user_subjects`, the claim trigger | insert an event (claim, move or find its key), month retention, `purge_idempotency_keys`, catalog-api's erasure, the trigger's creation | `ActivityKeys`, abstractly `EventDedup` |
| Similar-artist releases | `artist_embedding_releases`, `artist_similar_artists`, the pointer to the current release | create, publish and retire a release, change `k`, write a list | `EmbeddingRelease` |
| PostgreSQL schema executor and vector gates | the catalog, `lock_timeout`, counts of a run | `create_postgres_schema`: probe, send, wait, retry, stop; guarded vector objects and grants | `SchemaApply` |
| One-shot initializer | the database, both schemas, pools, metrics, exit status | ensure or verify the database, two concurrent store tasks, finish | `Initializer` |
| Artist embedding indexes | one HNSW index per model version and one over all, `maintenance_work_mem` | build and retire a version's index, build the whole-table index | `VersionIndex` |
| Identity ledger | six sources and their capture triggers, two logs, four published tables and the per-item rows | every write of a source, refresh (maintain or rebuild), request a rebuild, create and drop the triggers | `IdentityLedger` |
| Pathfinder and Explore | ten edge relations, the session's `graph_path_seen` | `graph.find_shortest_path`, `graph.explore_traversal` | `Pathfinder` |
| Derived relations | the catalog's documents, 31 graph tables, the locks of each session | `graph.bootstrap_fill`, `refresh_artist_member_of`, `refresh_vertex_degree`, a loader's revision of a document with its rows | `GraphProjection`, `GraphTables`, `GraphFill` |
| Guarded migrations | one relation: its kind, keys, indexes, functions and the view over it; the rows of one natural key | the statements of the list that touch it, runs that fail or stop anywhere, loaders, an operator, an older initializer | `GraphUpgrade` |
| Neo4j schema | constraints and indexes | the statement executor | the Neo4j task of `Initializer` |

The parts meet in the databases, not in calls. The initializer runs the schema executor, which creates
the triggers and functions of all the others, so `Arm` of `ActivityKeys` and `CreateTriggers` of
`IdentityLedger` are statements of the executor as the components see them. Then catalog-api (events,
erasures, ledger refreshes, searches), the loaders (sources, edges), analytics-engine and the operators
call the functions (operators the fill, the loaders' batch jobs its refreshes), each in transactions of their own under READ COMMITTED. That isolation level is the
common difficulty: a function is a series of statements with a snapshot each, and anybody may commit
between two of them. Every module that models a function has one action per statement that reads or writes
shared rows, and a lock wait is the guard of the action that needs the lock.

What is hard, and what makes each component correct:

- *Activity keys.* Two rows with one key and different instants land in different partitions, so no unique
  key sees both; the key table has to. Writers queue behind each other's uncommitted key rows, find
  orphaned keys, and race retention and erasure. No event may be skipped for one that was never
  committed, no live key may be taken, and an erasure releases its own keys and nobody else's.
- *Releases.* The flip of the pointer, the check of `k` and the retirement each span several statements.
  There is always exactly one current release once there was one, no list exceeds `k`, publishers do
  not fail on each other, and nobody deadlocks.
- *Schema executor.* A statement that waits for a long transaction stalls every reader behind it, so waits are
  bounded, retries are counted, and the run stops; a skipped statement must be one that would have done nothing.
  Success must mean applied, and repetition must repair whatever failed or was killed.
- *Initializer.* Two deployments race on an empty server; either store may fail, raise, or fail to close, and an
  exception ends `main` wherever it catches none.
  Exit 0 means ready, and the metrics agree with the exit status.
- *Indexes.* CONCURRENTLY statements run outside a transaction, so a failed step leaves an INVALID index or a
  raised session setting behind, and cleanup may fail too.
- *Ledger.* The refresh reads live sources statement by statement while writers commit. A change may be
  seen by some of its statements only; it must then still be in the log, deltas must count once, and the
  tables must agree with each other.
- *Searches.* Stopping at the first touch, or in the middle of a level, is right only if levels are complete,
  the opposite side is frozen, and the seen set starts empty.
- *Fill.* A fill takes its locks table by table while loaders commit documents; an edge table may be built from
  documents whose vertices were not there when the vertex table was. Its INSERTs name no conflict target, so every
  body must be unique on its key for malformed documents too, and its counters sum tables the same
  transaction has just filled. Fill, refresh and loaders lock the same tables in different orders.
- *Upgrade.* A relation changes its key, its column types or its kind under running loaders, by statements that may
  each fail. No table in service may lose its key on the way, and what is finished must not be made again at every start.

## Modules

**EventDedup** is what event idempotency promises: an event is recorded unless one with its subject and key
is recorded, whatever its instant; duplicates older than the rule are tolerated; recorded events may be
forgotten. **ActivityKeys** is the code: `Submit`, `ClaimKey`, `ReadKey`, `CheckHolder` and `MoveKey` are the
statements of `activity.claim_idempotency_key` (its retry loop is the way back to `ClaimKey`), `InsertRow` the
INSERT that fired it, `CommitWriter`/`AbortWriter` its end. `PurgeScan`/`PurgeKey`/`PurgeCommit` and
`EraseEvents`/`EraseLink`/`EraseKey`/`EraseCommit` are the purge and the erasure with their row locks; the
purge picks its keys on one snapshot and rechecks each row it reaches, as a DELETE does. `DropPartition` is retention and
`Arm` the creation of the trigger with its backfill. `Dedup` maps the stored rows to the abstract log, the
trigger to the rule being in force, and the duplicates the backfill met to the tolerated ones.

**EmbeddingRelease** has one action per statement of the calls; a table lock is the set of callers past
`LockTable`, a row lock lasts from the statement that took it to the end, and the writes of a call are applied when it commits.
`published_at` is a bit that changes whenever the column is renewed.

**SchemaApply** abstracts the list of statements to one of every shape the code tells apart: plain, probed
by the executor, taking a table's lock, a guarded migration that drops what an earlier statement made, cluster
objects, and those behind the vector and role gates. A long transaction takes and frees tables, and a
reader queues behind the waiting statement. The runs start from databases of several vintages.

**Initializer** runs `main` in several processes: `CheckDatabase`, `CreateDatabase` and `Verify` first, then for each
store `Open`, `Look` (what IF NOT EXISTS finds), `Make`, `Close`, and `Finish` for the way out. `main` catches little: an
unreadable port (`Misconfigured`), a verification query that raises (in `Verify`) and a close that raises (`Propagate`) all leave it
by the exception (`Escape`), which `thrown` remembers. Such a run exits 1 and has no measurement of the whole.

**VersionIndex** has one action per statement of the operator procedures; a CONCURRENTLY build is open
between `Create` and `Built` or `CreateFails`, and `Cancel` cuts a call short at any point.

**IdentityLedger** models a writer's transaction (`OpenAlias`, `CloseAlias`, `Supersede`, `Revert`, `Link`, `Unlink`,
`SetParent`, `TruncateLinks`, `RequestRebuild`) together with what the statement triggers log for it,
and a refresh as its statements: `Begin` (lock, triggers present), `Drain`, `Choose` (maintain or rebuild), then
the maintenance statements or the rebuild, then `Commit`. `Fail` rolls back at any statement. A refresh
keeps its temporary tables and uncommitted rows in `run`. The published tables are sets of rows, an
event is named by what caused it, and `Recomputed` is the full recompute that `identity_ledger_verify`
compares with.

**Pathfinder** models both searches of one session: `StartLevel`, `Probe` and `Expand` for the shortest path,
`StartDepth` and `Walk` for Explore, over the shared seen table. The degree relation is refreshed at other
times than the edges, so any side and any vertex of the frontier may come next. `ever` and `always` record which edges
were there at some time and at every time of the call; the reference definition is `Within`, the ball of radius n.

**GraphProjection** says what the SQL bodies project from a catalog: JSON access that answers NULL where
`->` does, trimmed texts, person names, roles and companies, raw tracklists with one child or several, and the vertex and edge
views that counters and properties read. **GraphTables** has the keys of the 31 tables, the body of each and the order of
`bootstrap_fill`. Both are functions of the catalog and of the tables filled so far. `Json` is
the set of values a document may hold (`JsonAssumption`), and `DocumentAssumption` says what the proofs use of a catalog. **GraphFill** lets three sessions run over
them: `Fill` and `Refresh` start a call, `Statement` is its next TRUNCATE or INSERT, `Commit` its end; `Revise`,
`WriteRows` and `CommitRows` are a loader that turns one catalog into another. A lock is held until `End`, and an INSERT that
raises notes why in `raised`.
The loader belongs to another repository; its rows are what `src/docs/architecture.md` says of it.

**GraphUpgrade** follows one relation of each class the statement list tells apart. `StatementList` gives the
statements that touch it, in their order, each an action of its own (`FreeTextKey`, `TwoHashKey`, `Widen`,
`RetireNaturalKey` and so on). `Fault` and `Interrupt` fail a statement or stop the run,
`Load` is a loader's insert, `BuildAhead` the operator's CREATE INDEX CONCURRENTLY, and `OlderInitializer` a release that
still makes the retired hash index.

`MC…` modules hold the finite values for TLC, `…Proofs` modules the theorems.

## Runs

| Run | Shows | Bounds | Distinct states |
| --- | --- | --- | --- |
| `activity_core` | No write is skipped for one that rolled back and no live key is taken (`NothingLost`); the key table implements `EventDedup` (`DedupSpec`) | 3 writers, 2 subjects, 1 key, 2 instants in 2 partitions | 186,188 |
| `activity_erasure` | Keys name stored events, an erasure releases its own keys and nobody else's, everybody ends | 2 writers, one subject erased | 13,352 |
| `activity_key_taken` | *violation* of `HeldKeyStays` | 3 writers, one subject erased | |
| `releases` | Lists within `k`; the flip leaves exactly one current release, collides with nobody and renews `published_at` (`FlipIsAtomic`); calls end | 2 callers, 2 releases, 2 versions, limits 1 and 2, a list of 2 | 424,754 |
| `schema_rerun` | Counts add up and zero failures mean applied (`CountsTellTheTruth`), runs and the readers behind them stop waiting (`WaitsEnd`), repetition converges | 5 starting databases, both modes, 2 lockable tables, 2 attempts, every fault | 829,591 |
| `deployments` | Exit 0 means ready; outcomes, measurements and open pools tell one story (`EndsInOrder`); deployments converge | 2 processes, 2 PostgreSQL and 1 Neo4j statements | 529,874 |
| `index_procedures` | Zero failures mean a usable index or a gone version and no call leaves memory raised (`ReportsHold`) | 1 operator, 2 versions, every fault | 28,572 |
| `ledger_refresh` | Differences are pending, density adds up, the unique index is never met, the tables agree, the ledger catches up | 2 releases, 2 works, 1 release key, 1 master key, 2 writes, 1 failed refresh | 209,537 |
| `ledger_outage` | *violation* of `NeverAnswersStale` | 1 write, one source without triggers | |
| `paths` | Answers are exact and Explore returns the nearest (`AnswerExact`), calls end | 5 vertices, every graph over 6 edges, 2 endpoints, 1 edge committed meanwhile | 489,810 |
| `graph_fill` | From the first committed fill on the tables are the projection (`GraphIsProjection`); the counters a fill commits agree with its edges (`CountersExact`); edges resolve, no INSERT conflicts, calls end | 7 catalogs, 4 revisions, 5 starts, 1 call of each session | 27,949 |
| `graph_upgrade` | No natural key is stored twice, no key is handed over early, what is settled stays, repetition converges | 8 classes, every vintage | 5,126 |

Why the bounds are enough. A claim involves at most a writer, one that holds the key and one that
has moved it, which three writers of one key cover; a second key would only be a second copy of the
same table row. Two subjects are needed because the occurrence key ignores the subject. Releases need two callers for every
conflict of two locks and two rows for a flip; of two lists, one that fits both limits could not tell the guards apart, so the
only list fits one limit and exceeds the other. Two attempts are the least for which a retry differs from the last try. In the
ledger, two writes are one before and one inside a refresh, and two releases and two works let an edition move
between owners; the same configuration with three writes has also passed (11.4 million states), but takes too long to
repeat at each change. Five vertices allow a shortest path of four edges, so both sides of the search complete levels;
one change falls before, between or after any two statements.

The catalogs of `graph_fill` have one document for each shape the projection tells apart: a base; one revised, one
recredited and one reunited with what it lost; one that lacks a label; one whose year overflows (the bound `MaxInteger` is 20 instead of
the 2,147,483,647 of an int4); one malformed. A fill, a refresh and a revision, one of each, make every conflict of locks; a
loader writes its tables in the order of the fill or in the reverse one, so both outcomes of a race for two
locks, and a deadlock, occur. The tables start empty or as an earlier catalog left them. `graph_upgrade` has one class of relation for
each behaviour of the list, and starts it from every released shape, half-done upgrades included; copies of a
row are counted up to two, since a second is already a violation.

`MaxChanges`, `MaxFails` and `Attempts` are the bounds on counters. The identity column of a release is bounded by
`Id`; a create that finds it used up fails.

### Fairness

- `ActivityKeys`: strong fairness of every started writer's next statement, of the purge and of the erasure. A
  statement that waits for a row gets it when it is freed again and again, since PostgreSQL wakes
  the waiters of a transaction that ends. Nobody has to start, to roll back or to abort.
- `EmbeddingRelease`: strong fairness of each caller's statements, because lock queues serve their waiters.
- `SchemaApply`: weak fairness of the executor's steps, and of `Rerun`, because every deployment runs the initializer. The long
  transaction need not end: `WaitsEnd` holds although it may not.
  `Converges` starts when faults and long transactions are over (`calm`).
- `Initializer`: weak fairness of `main`, of each task and of `Rerun`.
- `IdentityLedger`: weak fairness of the refresh, which catalog-api polls, and of creating missing triggers, since a
  failed apply is run again. Writers may stop, and failures are bounded.
- `Pathfinder`: weak fairness of the running call's statements.
- `GraphFill`: weak fairness of each session's next step, stated with its enabling condition written out (`Ready`) because
  computing every body again to find whether a step is enabled is too slow. A session that waits in a deadlock counts as ready:
  PostgreSQL rolls one of the two back. Calls are bounded, so the run ends and deadlock is not checked there.
- `GraphUpgrade`: weak fairness of the run's statements, of its end and of the next run, since every deployment runs
  the list. `UpgradeConverges` starts when faults are over (`calm`).

### Where the code and its documentation disagree

Two runs violate what a comment or a docstring says, each with one property; `PROJECT.json` quotes the lines.

1. `activity_key_taken`: the link trigger's DELETE (1706) waits for a writer that is moving an orphaned key, rechecks the new
   row against its own old snapshot of the events, and deletes the key of an event that was just stored. The
   comment at 1697 says such a key stays.
2. `ledger_outage`: re-creating missing capture triggers (6324) logs no rebuild, so after the advice of the error at 6729 is
   followed, the next refresh answers rows that miss the writes made meanwhile.

Other things met while modelling, which the properties allow and a maintainer may want to know:

- After the bounded executor stops, the guarded vector statements (8396) may wait for the same transaction once more,
  so a run waits longer than the attempts and timeouts 8370 speaks of. The wait still ends (`WaitsEnd`).
- The cleanup of a failed build (7929) drops the index by name, also when a repeated build failed before it touched a
  valid index. `ReportsHold` says exactly when an index may be lost, and that the report then counts a failure.
- A role that may not create `pg_trgm` never has a run with zero failures.
- The five-column key of `relationships` goes before its successor is built and without a look at it (2039-2069), the one
  exception in `KeysHandedOver`. With an INVALID index of the successor's name the table ends without a key, and the
  loader, which names its conflict target, raises until an operator drops the index.
- One document whose year has too many digits makes every fill fail (4696), so `GraphIsProjection` and `CountersExact` speak of fills that commit.
- A label document committed after a fill has computed `label_stats` (4754) and before the fill commits takes no lock the fill
  holds, so `label_vertex` reads 0 for it (3350) beside the `label_genre` pairs of its releases until the next fill.
  `CountersExact` says so of such a label and of no other.
- A loader that writes documents but not their rows while a fill runs would leave edges without vertices until the next
  fill; `EdgesResolve` relies on the loaders writing both in one transaction, as the architecture document says.
- The btree `_reverse` indexes that an initializer of an older release would make again are not dropped a second time.

## Proofs

Eight modules are checked to the last leaf and state their theorems for any constants that satisfy the named
assumptions of the modules they extend.

**ActivityKeysProofs** (`InstantAssumption`, `BoundAssumption`, `NoEventAssumption`).

- `TypeCorrect`: `Spec => []TypeOK`.
- `KeysNameStoredEvents`: `Spec => []KeyNamesStored`, the heart of deduplication: while the trigger is there
  and no erasure has committed, every stored event is the one its key names. The property is not inductive. A commit
  keeps it only if the key was really claimed by the committing writer, so `KeyInv` adds where uncommitted rows and claims
  may be (`Places`), that a key row has one uncommitted writer (`Exclusive`), that keys name settled events
  (`KeysSettled`), that what is being claimed or purged names no stored event (`NothingHeldIsTaken`), and that
  an insert under the trigger has its claim first or meets the event in its way (`ClaimsComeFirst`).
- `NothingIsLost`: `Spec => NothingLost`, when no subject is erased (`Erasable = {}`; with an erasure it is false, as
  `activity_key_taken` shows). `FoundInv` adds what a writer knows: a key it moved names its own slot, the holder it read is the
  one it compares with, and whoever skips does so for an event that was stored (`SkipJustified`).
- `KeysImplementDedup`: `Spec => DedupSpec`, the refinement, under the same condition. `DedupInv` adds that stored
  occurrences are apart and that an event without a key was stored before the trigger. Each action maps to recording one
  event, forgetting some, enforcing the rule, or a stutter; for the backfill, the earliest event of a key exists by well-founded
  induction on instants.
- `ErasuresAreExact`: `Spec => ErasureExact`, with any subjects erased, from what an erasure has locked and found (`EraseInv`).

**IdentityLedgerProofs** (`ConstantsDistinct`).

- `TypeCorrect`: `Spec => []TypeOK`, with the finiteness of the base tables (`TInv`) that counting needs.
- `DensityCorrect`: `Spec => []DensityAddsUp`. `RunInv` says what a refresh has at each step (logs drained
  once, a copy of the tables, everything captured); `CountInv` follows the sum of what was folded
  in, drained and still logged through every step, for the committed tables and for the copy.
- `InsertsAreUnique`: `Spec => []NoUniqueViolation`: the members of the dirty editions are chosen once, so every written row
  belongs to an edition whose rows were deleted, whatever supersessions commit between the two statements.
- `TablesCorrect`: `Spec => []TablesAgree`, from `TableInv`, which says at which step of a refresh which of
  the tables of the copy already agree.
- `StaleRowsAreNamed`: `Spec => []DifferencesArePending`. With every trigger in place a write logs what it changes
  (`WritersLog`), so what log rows named before it, and every row of a recompute that it moves, the log names after it
  (`NamesKept`, `RowsStay`). `PendInv` says of each step of a refresh which tables of its copy are right but for the log
  (`NextFresh`) and that each choice covers what the drained rows name, unless the log names it again (`Chosen`): a row
  written from a stale choice is one that the next refresh will find dirty.

**GraphProofs**, `GraphFill` (`TextAssumption`, `JsonAssumption`, `VocabularyAssumption`, `CatalogAssumption`,
`DocumentAssumption`).

- `FillTyped`: `Spec => []TypeOK`; `NeverConflicts`: `Spec => []InsertsNeverConflict`; `AlwaysResolve`: `Spec => []EdgesResolve`;
  `AlwaysProjection`: `Spec => []GraphIsProjection`, for any documents, texts and vocabularies, any revisions of them and any
  number of calls. The first half is about the thirty-one bodies. `NoDuplicates` shows each unique on its table's key, which is
  what "nothing can conflict" claims: a track is its place in a raw tracklist (`TrackAt`), a company credit its place in a list
  (`CompanyRow`), DISTINCT ON chooses by an order without ties that differ (`ChosenBodies`), a label has one open
  alias (`LabelRows`). `BodyJoins` shows that each edge has its vertex within one catalog. `StatedCovered` is about two: the
  changed documents and the earlier catalog state, between them, whatever the later catalog states.
- The invariant is `FillInv`. That the fill commits the projection is not inductive, because the documents change while
  it runs. `FillerInv` says that what it has rebuilt is what the documents committed *now* state. It is kept because a
  loader writes each table its documents touch before it commits (`CallInv`), and a rebuilt table is locked until the end
  (`ProgressInv`, `LockInv`): the tables of a revision that commits meanwhile are all still ahead of the fill, and the others it
  does not change (`AppliedParts`). `FilledInv` carries the same through later revisions (`AppliedExact`), `JoinInv` the edges to their
  vertices (`AppliedJoins`), and `RowInv` the uniqueness of every table, committed or not. TLC checked each part of `FillInv`
  on the instance of `graph_fill` before it was proved.

**GraphProofs**, `GraphUpgrade` (`StartAssumption`: how databases to start from may look).

- `UpgradeTyped`: `UpgradeSpec => []UpgradeTypeOK`; `RowsStayUnique`: `UpgradeSpec => []RowsUnique`; `LastKeyStays`:
  `UpgradeSpec => KeysHandedOver`. `Healthy` is what every
  statement keeps of a relation (keys only on tables, a primary key where it stays), and `KeyInv` adds when a free-text
  relation is keyed: once it serves, and once a run has passed its key index without a failure.
- `StaysSettled`: `UpgradeSpec => Settled`. `Done` says what a statement finds of its own work, `Undone` whose work a statement
  can undo. The lemma `Order` reads off the eight lists that such statements come first, so what a run has passed without
  a failure stays done (`SettleInv`), and a statement whose work is done changes nothing.

**EmbeddingReleaseProofs** (`NumbersAssumption`, `NoneAssumption`, `ReferenceAssumption`).

- `TypeCorrect`; `ListsCorrect`: `Spec => []ListsWithinK`; `FlipsAtomic`: `Spec => FlipIsAtomic`. The argument is about
  locks: what a caller holds says which of its reads are still true when it commits (`Alone`), and what two callers hold
  at once says that their writes do not meet (`Apart`).

**InitializerProofs** (`StatementsAssumption`, `ProvisionedAssumption`).

- `TypeCorrect`; `ExitZeroIsTrue`: `Spec => []ExitZeroMeansReady`; `RunsEndInOrder`: `Spec => []EndsInOrder`, for any number of
  processes and every way out of `main`, by return or by exception. Databases and objects only grow, so what one process has made
  or found (`Sound`) no other takes away; `Measures` says which measurements a run inside the gather has made, so that an exception
  finds none of the whole run.

**SchemaApplyProofs** (`AttemptsAssumption`, `BeginningAssumption`, and `ListAssumption`: what the statement lists are like).

- `TypeCorrect`: `Spec => []TypeOK`, with `Where`, which says what each place of a run knows of its list and its attempts.
- `ReportsTrue`: `Spec => []CountsTellTheTruth`, for any lists, any number of attempts and any faults. `CountInv` strengthens
  the bound on waits: what failed pays for the timeouts of earlier statements, the attempts for those of the present one.
  `MadeInv` says that as long as nothing failed, what is left is the end of the list, and the catalog and what is left hold
  all it makes; once the gates are answered it remembers their answers (`Promise`) until the report.

**VersionIndexProofs** (`WholeAssumption`, `OperatorAssumption`, `FaultsAssumption`).

- `TypeCorrect`; `MemoryIsReset`: `Spec => []MemoryNeverStanding`, for any number of operators, since the setting is the
  session's own.
- `ReportsAreTrue`: `Spec => ReportsHold`, for one operator, of which `MemoryNeverStanding` is a part. Two that build one index at once race:
  the IF NOT EXISTS of one takes the INVALID leftover of the other for a built index.

**PathfinderProofs** (`GraphAssumption`, `ArgumentAssumption`).

- `SearchesAreTyped`: `Spec => []TypeOK`; `SearchesAreExact`: `Spec => []AnswerExact`, for every finite graph, any depths, hops and limits,
  and any edges that loaders add and take while a call runs. `SearchInv` says of a running call at which level it is
  (`Stage`), that its seen rows hang together by edges that were there at some time (`Trees`), that the neighbours of a row of a
  complete level, along edges that were there all the time, are seen one deeper (`Closed`), and that the two sides have not
  met (`Apart`). Disjoint sides would not be inductive: an edge committed between the probe of a level and its expansion
  lets them overlap unnoticed. So `Apart` speaks of what the edges that were always there join, and the balls the answer is
  compared with are those of the same edges. Balls and traces are
  recursive functions of a number; what they contain at every number is proved by the first-order lemma `Counting`, from the
  well-foundedness of the naturals, since the library's induction rule takes an operator.

Only model-checked: all liveness properties (fairness is beyond the prover), and `CountersExact`, which equates sums over sets
counted two ways: that needs induction over the sets, which the prover cannot instantiate.
With erasures, `NothingLost` and `DedupSpec` are not claimed, and `KeyNamesStored` is claimed up to the first erasure that commits.

## Not modelled

- *Loader coordination tables* (extraction latch, refresh cursor and jobs): declared here, driven by loaders
  whose code is elsewhere.
- *Static tables* of users, insights, catalog and consent, and the Neo4j constraint statements: plain declarations;
  nothing changes state after they are applied.
- *Telemetry, logging, contracts, scripts, CI, documents and spikes.*
- Inside modelled components: impressions and consent grants; several events in one transaction (opposite orders
  deadlock and PostgreSQL aborts one); several release calls in one transaction (their lock upgrade can deadlock
  likewise); two operators on one version's index; months and reclassification of ledger events; relationship types and
  names in paths; columns of the graph tables that are copied and never read again (dates, ratings, titles, formats), and the views neither counters nor properties read; the hashes of text keys,
  which are taken to be injective; the lock waits of an upgrade, which are `SchemaApply`'s subject. Explore cuts ties among the
  vertices it has discovered when it stops, so which of two equally near vertices it returns depends on the order of keys; the
  model leaves that order open.
- An event that another subject's event lets pass without a key, when that subject is erased in between (1622): it is stored and may be
  stored again. `KeyNamesStored` therefore ends at the first committed erasure, and no property covers it.

## Plan

The modules were written in this order: activity keys and their abstraction, releases, executor, initializer,
indexes, ledger, searches, then the derived relations and their upgrade; the proofs follow the order of importance. What is left:

1. Compose `SchemaApply` with the components whose triggers it creates, so that a partial apply is one of their states.
2. Two operators in `VersionIndex`, with the weaker promise that still holds of their reports.
3. The conjuncts of `CountersAgree` that add no sums (a vertex view against the edges of its own key) follow from the bodies and
   could be proved apart from the others.
