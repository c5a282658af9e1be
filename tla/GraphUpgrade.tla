----------------------------- MODULE GraphUpgrade -----------------------------
(***************************************************************************)
(* How the schema statements bring a relation of an older release to the   *)
(* present one: the guarded migrations of postgres.py and the CREATE ... IF *)
(* NOT EXISTS that follow them, run again and again by initializers that    *)
(* fail, time out or are killed at any statement, beside loaders that write *)
(* the relation and an operator who builds an index ahead.                  *)
(*                                                                         *)
(* A behaviour follows one relation, of one of the classes the statement    *)
(* list tells apart; StatementList is the part that touches it.  Each       *)
(* statement is a transaction of its own.  What SchemaApply says of locks,  *)
(* retries and probes is not repeated: a statement succeeds, raises and is  *)
(* counted, or ends the run.                                               *)
(* Its names are apart from those of GraphFill, so that one module can      *)
(* prove about both.                                                       *)
(***************************************************************************)
EXTENDS Naturals, Sequences

CONSTANTS
  Vintages        \* the databases a behaviour begins with

VARIABLES
  class,      \* which relation this is
  rel,        \* its objects in the database
  copies,     \* rows with one natural key
  at,         \* the statement a run has reached, 0 outside runs
  failed,     \* did a statement of this run fail?
  serving,    \* do loaders write the relation?
  settled,    \* has a run ended with zero failures that nobody else disturbed, and since?
  calm        \* no more faults and no more operators

upgradeVars == <<class, rel, copies, at, failed, serving, settled, calm>>

Classes == {"genre", "by_artist", "person", "credited_on", "artist", "relationships", "mb_artists", "artists"}
Indexes == {"trgm", "reverse", "lookup", "role", "old_role", "person_hash", "btree", "hash", "mb_rels_source"}
Relation ==
  [is : {"none", "view", "table"},
   current : BOOLEAN,          \* the key or provider column has its present type
   constraints : SUBSET {"primary", "five", "natural"},
   key : {"none", "hash", "two_hash", "invalid"},     \* the unique index named <relation>_key
   indexes : SUBSET Indexes,
   function : BOOLEAN,         \* the function the "hash" key calls: a "two_hash" key calls another
   extension : BOOLEAN,        \* pg_trgm
   over : BOOLEAN]             \* a view that reads it

StatementList ==
  [genre |-> <<"extension", "view_to_table", "table", "trigram", "view_over">>,
   by_artist |-> <<"view_to_table", "table", "reverse">>,
   person |-> <<"extension", "function", "view_to_table", "free_text_key", "table", "key_index",
                "lookup", "trigram">>,
   credited_on |-> <<"function", "view_to_table", "free_text_key", "two_hash_key", "table",
                     "key_index", "role">>,
   artist |-> <<"key_retype", "view", "view_over">>,
   relationships |-> <<"table", "retire_five", "function", "key_index", "retire_natural", "retire_source">>,
   mb_artists |-> <<"table", "widen", "view_over">>,
   artists |-> <<"table", "retire_btree", "hash_index">>]

\* A unique rule on the natural key is in force.  An INVALID index enforces nothing.
Keyed(r) == r.constraints # {} \/ r.key \in {"hash", "two_hash"}
\* The classes whose loaders insert under a target-less ON CONFLICT DO NOTHING.
FreeText == {"person", "credited_on"}
Start == [class : Classes, rel : Relation, copies : {0, 1}, serving : BOOLEAN]

ASSUME StartAssumption ==
  /\ Vintages \subseteq Start
  /\ \A s \in Vintages :
       /\ s.rel.key # "none" => s.rel.is = "table"
       /\ s.rel.key \in {"hash", "invalid"} => s.rel.function
       /\ s.rel.constraints # {} => s.rel.is = "table"
       /\ s.rel.key = "invalid" => s.class = "relationships"
       /\ s.serving => s.rel.is = "table"
       /\ s.rel.is = "table" /\ (s.serving \/ s.class \notin FreeText \cup {"relationships"}) => Keyed(s.rel)

InitUpgrade ==
  /\ \E s \in Vintages : class = s.class /\ rel = s.rel /\ copies = s.copies /\ serving = s.serving
  /\ at = 0 /\ failed = FALSE /\ settled = "no" /\ calm = FALSE

(* ---- one statement ---- *)
Running(statement) == at \in DOMAIN StatementList[class] /\ StatementList[class][at] = statement
\* The statement either raises, and changes nothing, or leaves the relation as new.
Do(statement, raises, new) ==
  /\ Running(statement)
  /\ rel' = (IF raises THEN rel ELSE new)
  /\ failed' = (failed \/ raises)
  /\ at' = at + 1
  /\ UNCHANGED <<class, copies, serving, settled, calm>>
With(r, index) == [r EXCEPT !.indexes = @ \cup {index}]
Without(r, indexes) == [r EXCEPT !.indexes = @ \ indexes]
NoTable == rel.is # "table"

CreateExtension == Do("extension", FALSE, [rel EXCEPT !.extension = TRUE])
CreateFunction == Do("function", FALSE, [rel EXCEPT !.function = TRUE])

\* Mutant: the guard finds the name and not its kind.
ViewToTableAnyKind ==
  Do("view_to_table", FALSE, IF rel.is # "none" THEN [rel EXCEPT !.is = "none", !.over = FALSE] ELSE rel)
ViewToTable ==
  Do("view_to_table", FALSE, IF rel.is = "view" THEN [rel EXCEPT !.is = "none", !.over = FALSE] ELSE rel)
KeyRetype ==
  Do("key_retype", FALSE,
     IF rel.is = "view" /\ ~rel.current THEN [rel EXCEPT !.is = "none", !.over = FALSE] ELSE rel)

\* The indexes of the old shape that go with the primary key.
Stale == {"reverse", "old_role"}
Lookup == IF class = "person" THEN {"lookup"} ELSE {}
\* Mutant: the primary key goes first, and the index is left to the statements that follow.
FreeTextKeyDropFirst ==
  Do("free_text_key", FALSE, [Without(rel, Stale) EXCEPT !.constraints = @ \ {"primary"}])
FreeTextKey ==
  LET keyed == [rel EXCEPT !.key = IF @ = "none" THEN "hash" ELSE @,
                           !.indexes = (@ \ Stale) \cup Lookup,
                           !.constraints = @ \ {"primary"}]
      found == "primary" \in rel.constraints
  IN Do("free_text_key", found /\ rel.key = "none" /\ ~rel.function, IF found THEN keyed ELSE rel)
\* The hash index on the person is dropped whatever the key is.
TwoHashKey ==
  LET found == rel.key = "two_hash"
  IN Do("two_hash_key", found /\ ~rel.function,
        Without([rel EXCEPT !.key = IF found THEN "hash" ELSE @], {"person_hash"}))

\* IF NOT EXISTS is satisfied by a view of the name as well.
CreateTable ==
  Do("table", FALSE,
     IF rel.is # "none" THEN rel
     ELSE [rel EXCEPT !.is = "table", !.current = TRUE,
                      !.constraints = IF class \in FreeText \cup {"relationships"} THEN {} ELSE {"primary"}])

\* An index of the name is kept, whatever it is.
KeyIndex ==
  Do("key_index", rel.key = "none" /\ (NoTable \/ ~rel.function \/ copies > 1),
     [rel EXCEPT !.key = IF @ = "none" THEN "hash" ELSE @])
LookupIndex == Do("lookup", NoTable, With(rel, "lookup"))
ReverseIndex == Do("reverse", NoTable, With(rel, "reverse"))
RoleIndex == Do("role", NoTable, IF "old_role" \in rel.indexes THEN rel ELSE With(rel, "role"))
TrigramIndex == Do("trigram", rel.extension /\ NoTable, IF rel.extension THEN With(rel, "trgm") ELSE rel)

\* CREATE OR REPLACE VIEW refuses to retype a column.
CreateView ==
  Do("view", rel.is = "table" \/ (rel.is = "view" /\ ~rel.current),
     [rel EXCEPT !.is = "view", !.current = TRUE])
CreateViewOver == Do("view_over", rel.is = "none", [rel EXCEPT !.over = TRUE])

\* Mutant: the column is retyped whatever reads it.
WidenUnderView ==
  Do("widen", rel.is = "table" /\ ~rel.current /\ rel.over, [rel EXCEPT !.current = TRUE])
\* A narrow column that a view reads is left narrow, with a notice.
Widen ==
  Do("widen", FALSE, IF rel.is = "table" /\ ~rel.over THEN [rel EXCEPT !.current = TRUE] ELSE rel)

RetireFiveColumnKey == Do("retire_five", FALSE, [rel EXCEPT !.constraints = @ \ {"five"}])
\* Mutant: retired without a look at the index that replaces it.
RetireNaturalKeyUnguarded == Do("retire_natural", NoTable, [rel EXCEPT !.constraints = @ \ {"natural"}])
\* The constraint stays until the index is there, unique, valid and ready.
RetireNaturalKey ==
  Do("retire_natural", NoTable,
     IF rel.key = "hash" THEN [rel EXCEPT !.constraints = @ \ {"natural"}] ELSE rel)
RetireSourceIndex == Do("retire_source", FALSE, Without(rel, {"mb_rels_source"}))

\* Mutant: the index is dropped whatever its method.
RetireAnyIndex == Do("retire_btree", FALSE, Without(rel, {"btree", "hash"}))
RetireBtreeIndex == Do("retire_btree", FALSE, Without(rel, {"btree"}))
HashIndex == Do("hash_index", NoTable, IF "btree" \in rel.indexes THEN rel ELSE With(rel, "hash"))

RunStatement ==
  \/ CreateExtension \/ CreateFunction \/ ViewToTable \/ KeyRetype \/ FreeTextKey \/ TwoHashKey
  \/ CreateTable \/ KeyIndex \/ LookupIndex \/ ReverseIndex \/ RoleIndex \/ TrigramIndex
  \/ CreateView \/ CreateViewOver \/ Widen \/ RetireFiveColumnKey \/ RetireNaturalKey
  \/ RetireSourceIndex \/ RetireBtreeIndex \/ HashIndex

(* ---- runs ---- *)
BeginRun ==
  /\ at = 0
  /\ at' = 1 /\ failed' = FALSE
  /\ settled' = (IF settled = "yes" THEN "yes" ELSE "trying")
  /\ UNCHANGED <<class, rel, copies, serving, calm>>
\* A statement fails for a reason of its own; the run goes on.
Fault ==
  /\ ~calm /\ at \in DOMAIN StatementList[class]
  /\ at' = at + 1 /\ failed' = TRUE
  /\ UNCHANGED <<class, rel, copies, serving, settled, calm>>
\* The run waits too long for a lock and stops, or its process is killed.
Interrupt ==
  /\ ~calm /\ at # 0
  /\ at' = 0 /\ failed' = FALSE
  /\ UNCHANGED <<class, rel, copies, serving, settled, calm>>
After == IF settled = "trying" /\ ~failed THEN "yes" ELSE settled
\* The loaders start after an initializer that exited 0, and are not stopped again.
EndRun ==
  /\ at = Len(StatementList[class]) + 1
  /\ at' = 0 /\ failed' = FALSE
  /\ serving' = (serving \/ ~failed) /\ settled' = After
  /\ UNCHANGED <<class, rel, copies, calm>>

(* ---- everybody else ---- *)
\* A loader writes a row it wrote before.  In relationships it names its conflict target, and
\* its statement raises when there is no such key.
Load ==
  /\ serving /\ rel.is = "table"
  /\ class = "relationships" => Keyed(rel)
  /\ copies' = (IF copies = 0 THEN 1 ELSE IF Keyed(rel) THEN copies ELSE 2)
  /\ UNCHANGED <<class, rel, at, failed, serving, settled, calm>>
\* An operator builds the key of relationships ahead, CONCURRENTLY, which may leave an INVALID
\* index, and drops one.
BuildAhead ==
  /\ ~calm /\ class = "relationships" /\ rel.is = "table" /\ rel.function
  /\ rel' \in IF rel.key = "none" THEN {[rel EXCEPT !.key = "invalid"]} \cup
                                        (IF copies > 1 THEN {} ELSE {[rel EXCEPT !.key = "hash"]})
              ELSE IF rel.key = "invalid" THEN {[rel EXCEPT !.key = "none"]} ELSE {}
  /\ settled' = "no"
  /\ UNCHANGED <<class, copies, at, failed, serving, calm>>
\* The initializer of v0.6.1 or v0.6.2, run by mistake: it makes its hash index again.
OlderInitializer ==
  /\ ~calm /\ at = 0 /\ class = "credited_on" /\ rel.is = "table"
  /\ rel' = With(rel, "person_hash") /\ settled' = "no"
  /\ UNCHANGED <<class, copies, at, failed, serving, calm>>
CalmDown == ~calm /\ calm' = TRUE /\ UNCHANGED <<class, rel, copies, at, failed, serving, settled>>

NextUpgrade ==
  \/ BeginRun \/ RunStatement \/ Fault \/ Interrupt \/ EndRun
  \/ Load \/ BuildAhead \/ OlderInitializer \/ CalmDown

UpgradeSpec == InitUpgrade /\ [][NextUpgrade]_upgradeVars
\* The executor goes on, and a deployment runs it again.
FairUpgradeSpec == UpgradeSpec /\ WF_upgradeVars(BeginRun) /\ WF_upgradeVars(RunStatement) /\ WF_upgradeVars(EndRun)

(* ---- properties ---- *)
UpgradeTypeOK ==
  /\ class \in Classes /\ rel \in Relation /\ copies \in 0..2
  /\ at \in 0..(Len(StatementList[class]) + 1)
  /\ failed \in BOOLEAN /\ serving \in BOOLEAN /\ calm \in BOOLEAN
  /\ settled \in {"no", "trying", "yes"}
  /\ rel.constraints # {} \/ rel.key # "none" => rel.is = "table"

\* No loader stores a natural key twice, although three relations lose the constraint that
\* forbids it and their loaders name no conflict target or fail without one: whatever statement
\* a run fails or stops at, a table in service has a key.  (The comment of _FREE_TEXT_KEY_MIGRATION:
\* "the relation is never without a uniqueness rule".)
RowsUnique ==
  /\ copies <= 1
  /\ serving /\ rel.is = "table" /\ class # "relationships" => Keyed(rel)

\* No step takes the last key of a table, with one exception: the five-column key of
\* relationships goes before its successor is built.
KeysHandedOver ==
  [][Keyed(rel) /\ ~Keyed(rel)' => "five" \in rel.constraints /\ Running("retire_five")]_upgradeVars

\* Once a run has ended with zero failures, no statement of a later run changes a thing, however
\* that run fares: nothing a reader uses is dropped and made again at every start.
Settled == [][settled = "yes" /\ settled' = "yes" => rel' = rel]_upgradeVars

\* From every vintage, and after whatever failures, repeating the run ends with the relation a
\* fresh install has.  Two things are left as they are and reported only by a notice: a narrow
\* column under a view, and an INVALID index that has the key's name.
FreshInstall ==
  [is |-> IF class = "artist" THEN "view" ELSE "table",
   current |-> TRUE,
   constraints |-> IF class \in FreeText \cup {"relationships", "artist"} THEN {} ELSE {"primary"},
   key |-> IF class \in FreeText \cup {"relationships"} THEN "hash" ELSE "none",
   indexes |-> CASE class = "genre" -> {"trgm"}
                 [] class = "by_artist" -> {"reverse"}
                 [] class = "person" -> {"lookup", "trgm"}
                 [] class = "credited_on" -> {"role"}
                 [] class = "artists" -> {"hash"}
                 [] OTHER -> {},
   function |-> class \in FreeText \cup {"relationships"},
   extension |-> class \in {"genre", "person"},
   over |-> class \in {"genre", "artist", "mb_artists"}]
UpToDate ==
  \/ rel = FreshInstall
  \/ class = "mb_artists" /\ rel = [FreshInstall EXCEPT !.current = FALSE]
  \/ rel.key = "invalid" /\ [rel EXCEPT !.key = "hash", !.constraints = {}] = FreshInstall
UpgradeConverges == (<>calm) => <>[](settled = "yes" /\ UpToDate)
=============================================================================
