----------------------------- MODULE Initializer -----------------------------
(***************************************************************************)
(* initializer.main as a deployment runs it, several at a time: make sure  *)
(* the PostgreSQL database is there (or verify the one an operator made),  *)
(* apply the PostgreSQL and the Neo4j schema in two concurrent tasks, turn *)
(* what they report into metrics and an exit status.                       *)
(*                                                                         *)
(* The statements of a store are applied in order; SchemaApply has the     *)
(* PostgreSQL executor in detail.  What matters here is that CREATE ... IF *)
(* NOT EXISTS looks before it makes: of two PostgreSQL sessions that both  *)
(* found nothing, the second to make the object fails.  Neo4j's takes a    *)
(* schema lock first.                                                      *)
(***************************************************************************)
EXTENDS Naturals, FiniteSets

CONSTANTS
  Process,
  Statements,     \* how many statements each store's schema has
  Provisioned,    \* what an operator may have left ready, for the verify mode
  Faulty          \* connections, statements and closes may fail, processes die

Store == {"postgresql", "neo4j"}
ASSUME StatementsAssumption == Statements \in [Store -> Nat \ {0}]
ASSUME ProvisionedAssumption == Provisioned \subseteq BOOLEAN /\ Faulty \in BOOLEAN

VARIABLES
  database,    \* the PostgreSQL database exists
  made,        \* the statements of each store whose objects exist
  mode,        \* POSTGRES_PREPROVISIONED
  ready,       \* the provisioned database passes every check
  pc,          \* where main is, in each process
  task,        \* where each of its store tasks is
  next,        \* the statement a task is at
  found,       \* what IF NOT EXISTS found
  failures,    \* failed statements of each task
  result,      \* what each task returned or raised
  opened,      \* pools and drivers open
  metrics,     \* (store, outcome) measurements made by the run
  exit,        \* its exit status
  thrown,      \* did main end by an exception?  Read by the properties only
  calm         \* the faults are over

vars == <<database, made, mode, ready, pc, task, next, found, failures,
          result, opened, metrics, exit, thrown, calm>>

Outcome == {"success", "failure"}
Unset == "unset"
Running == 255     \* no exit status yet, or none because it was killed
Raised == "raised"

TypeOK ==
  /\ database \in BOOLEAN /\ mode \in BOOLEAN /\ ready \in BOOLEAN
  /\ made \in [Store -> SUBSET Nat]
  /\ pc \in [Process -> {"ensure", "create", "verify", "gather", "exited"}]
  /\ task \in [Process -> [Store -> {"idle", "open", "look", "make", "close",
                                     "ended"}]]
  /\ next \in [Process -> [Store -> Nat]]
  /\ found \in [Process -> [Store -> BOOLEAN]]
  /\ failures \in [Process -> [Store -> Nat]]
  /\ result \in [Process -> [Store -> Outcome \union {Unset, Raised}]]
  /\ opened \in [Process -> SUBSET Store]
  /\ metrics \in [Process -> SUBSET ((Store \union {"all"}) \X Outcome)]
  /\ exit \in [Process -> {0, 1, Running}]
  /\ thrown \in [Process -> BOOLEAN]
  /\ calm \in BOOLEAN

Fresh(x) == [p \in Process |-> [s \in Store |-> x]]

Init ==
  /\ mode \in BOOLEAN
  /\ ready \in (IF mode THEN Provisioned ELSE {FALSE})
  /\ database \in (IF mode THEN {TRUE} ELSE BOOLEAN)
  /\ made = [s \in Store |-> {}]
  /\ pc = [p \in Process |-> IF mode THEN "verify" ELSE "ensure"]
  /\ task = Fresh("idle") /\ next = Fresh(1) /\ found = Fresh(FALSE)
  /\ failures = Fresh(0) /\ result = Fresh(Unset)
  /\ opened = [p \in Process |-> {}]
  /\ metrics = [p \in Process |-> {}]
  /\ exit = [p \in Process |-> Running]
  /\ thrown = [p \in Process |-> FALSE]
  /\ calm = FALSE

faults == Faulty /\ ~calm
world == <<mode, ready, calm>>
tasks == <<task, next, found, failures, result, opened>>

-----------------------------------------------------------------------------
(* main, up to the gather.                                                 *)

Exit(p, status) ==
  /\ exit' = [exit EXCEPT ![p] = status]
  /\ pc' = [pc EXCEPT ![p] = "exited"]

\* Mutant: the close is forgotten.
KeepOpen(p, stores) == UNCHANGED opened
Shut(p, stores) == opened' = [opened EXCEPT ![p] = @ \ stores]

\* return 1, after recording the failure of the whole run.
\* Mutants: another exit status; no measurement.
GiveUpWithTwo(p) ==
  /\ metrics' = [metrics EXCEPT ![p] = @ \union {<<"all", "failure">>}]
  /\ Exit(p, 2)
  /\ UNCHANGED <<tasks, thrown>>
GiveUpSilently(p) == Exit(p, 1) /\ UNCHANGED <<metrics, tasks, thrown>>
GiveUp(p) ==
  /\ metrics' = [metrics EXCEPT ![p] = @ \union {<<"all", "failure">>}]
  /\ Exit(p, 1)
  /\ UNCHANGED <<tasks, thrown>>

\* An exception leaves main, which has only a finally around it: nothing is
\* measured any more, and asyncio.run ends what is left of the tasks.
\* Mutant: the run is measured on this way out as well.
EscapeMeasured(p) ==
  /\ Exit(p, 1)
  /\ thrown' = [thrown EXCEPT ![p] = TRUE]
  /\ Shut(p, Store)
  /\ metrics' = [metrics EXCEPT ![p] = @ \union {<<"all", "failure">>}]
  /\ UNCHANGED <<task, next, found, failures, result>>
Escape(p) ==
  /\ Exit(p, 1)
  /\ thrown' = [thrown EXCEPT ![p] = TRUE]
  /\ Shut(p, Store)
  /\ UNCHANGED <<task, next, found, failures, result, metrics>>

Gather(p) ==
  /\ pc' = [pc EXCEPT ![p] = "gather"]
  /\ task' = [task EXCEPT ![p] = [s \in Store |-> "open"]]
  /\ UNCHANGED <<next, found, failures, result, opened, metrics, exit, thrown>>

\* POSTGRES_PORT is no number: main reads its environment outside any try.
Misconfigured(p) ==
  /\ pc[p] \in {"ensure", "verify"}
  /\ faults /\ Escape(p)
  /\ UNCHANGED <<database, made, world>>

\* Mutant: CREATE DATABASE without a look whether it exists.
CheckNothing(p) ==
  /\ pc[p] = "ensure"
  /\ pc' = [pc EXCEPT ![p] = "create"]
  /\ UNCHANGED <<metrics, exit, thrown, tasks, database, made, world>>
\* _ensure_postgres_database: SELECT from pg_database ...
CheckDatabase(p) ==
  /\ pc[p] = "ensure"
  /\ \/ database /\ Gather(p)
     \/ /\ ~database
        /\ pc' = [pc EXCEPT ![p] = "create"]
        /\ UNCHANGED <<metrics, exit, thrown, tasks>>
     \/ faults /\ GiveUp(p)
  /\ UNCHANGED <<database, made, world>>

\* ... and CREATE DATABASE, which fails if another initializer was faster.
CreateDatabase(p) ==
  /\ pc[p] = "create"
  /\ \/ ~database /\ database' = TRUE /\ Gather(p)
     \/ (database \/ faults) /\ GiveUp(p) /\ UNCHANGED database
  /\ UNCHANGED <<made, world>>

\* _verify_preprovisioned_database creates nothing.  A connection refused is a
\* problem to report; a query that raises is caught by nobody.
Verify(p) ==
  /\ pc[p] = "verify"
  /\ \/ ready /\ Gather(p)
     \/ (~ready \/ faults) /\ GiveUp(p)
     \/ faults /\ Escape(p)
  /\ UNCHANGED <<database, made, world>>

-----------------------------------------------------------------------------
(* One store's task: _initialize_store around _apply_..._schema.           *)

At(p, s, where) == pc[p] = "gather" /\ task[p][s] = where
Goto(p, s, where) == task' = [task EXCEPT ![p][s] = where]
main == <<pc, metrics, exit, thrown>>

\* The pool or driver is built and connects, or an exception is turned into
\* False; either way it is closed if it was built.
Open(p, s) ==
  /\ At(p, s, "open")
  /\ opened' = [opened EXCEPT ![p] = @ \union {s}]
  /\ \/ Goto(p, s, "look") /\ UNCHANGED result
     \/ /\ faults
        /\ result' = [result EXCEPT ![p][s] = "failure"]
        /\ Goto(p, s, "close")
  /\ UNCHANGED <<database, made, next, found, failures, main, world>>

Step(p, s) ==
  IF next[p][s] < Statements[s]
  THEN /\ next' = [next EXCEPT ![p][s] = @ + 1]
       /\ Goto(p, s, "look")
       /\ UNCHANGED result
  ELSE /\ result' = [result EXCEPT ![p][s] =
                       IF failures'[p][s] = 0 THEN "success" ELSE "failure"]
       /\ Goto(p, s, "close")
       /\ UNCHANGED next

Look(p, s) ==
  /\ At(p, s, "look")
  /\ found' = [found EXCEPT ![p][s] = s = "postgresql" /\ next[p][s] \in made[s]]
  /\ Goto(p, s, "make")
  /\ UNCHANGED <<database, made, next, failures, result, opened, main, world>>

Make(p, s) ==
  /\ At(p, s, "make")
  /\ LET raced == s = "postgresql" /\ ~found[p][s] /\ next[p][s] \in made[s]
     IN \/ /\ ~raced
           /\ made' = [made EXCEPT ![s] = @ \union {next[p][s]}]
           /\ UNCHANGED failures
        \/ /\ raced \/ faults
           /\ failures' = [failures EXCEPT ![p][s] = @ + 1]
           /\ UNCHANGED made
  /\ found' = [found EXCEPT ![p][s] = FALSE]
  /\ Step(p, s)
  /\ UNCHANGED <<database, opened, main, world>>

\* finally: close; then the measurement of _initialize_store.  A close that
\* raises replaces what the task returned.
Close(p, s) ==
  /\ At(p, s, "close")
  /\ Shut(p, {s})
  /\ Goto(p, s, "ended")
  /\ next' = [next EXCEPT ![p][s] = 1]
  /\ failures' = [failures EXCEPT ![p][s] = 0]
  /\ \E raises \in (IF faults THEN BOOLEAN ELSE {FALSE}) :
       /\ result' = [result EXCEPT ![p][s] = IF raises THEN Raised ELSE @]
       /\ metrics' = [metrics EXCEPT ![p] = @ \union
            {<<s, IF raises THEN "failure" ELSE result[p][s]>>}]
  /\ UNCHANGED <<database, made, found, pc, exit, thrown, world>>

-----------------------------------------------------------------------------
(* main, from the gather on.                                               *)

\* Mutant: one store is enough.
SomeSucceeded(p) == \E s \in Store : result[p][s] = "success"
Succeeded(p) == \A s \in Store : result[p][s] = "success"

Finish(p) ==
  /\ pc[p] = "gather"
  /\ \A s \in Store : task[p][s] = "ended" /\ result[p][s] # Raised
  /\ metrics' = [metrics EXCEPT ![p] = @ \union
       {<<"all", IF Succeeded(p) THEN "success" ELSE "failure">>}]
  /\ Exit(p, IF Succeeded(p) THEN 0 ELSE 1)
  /\ UNCHANGED <<database, made, tasks, thrown, world>>

\* gather raises what the first failing task raised, and main with it; the
\* other task is cancelled, its pool closed, its measurement too late.
Propagate(p) ==
  /\ pc[p] = "gather"
  /\ \E s \in Store : result[p][s] = Raised
  /\ Escape(p)
  /\ UNCHANGED <<database, made, world>>

\* A process starts, or loses, all it has.
Forget(p) ==
  /\ task' = [task EXCEPT ![p] = [s \in Store |-> "idle"]]
  /\ next' = [next EXCEPT ![p] = [s \in Store |-> 1]]
  /\ found' = [found EXCEPT ![p] = [s \in Store |-> FALSE]]
  /\ failures' = [failures EXCEPT ![p] = [s \in Store |-> 0]]
  /\ result' = [result EXCEPT ![p] = [s \in Store |-> Unset]]
  /\ metrics' = [metrics EXCEPT ![p] = {}]
  /\ exit' = [exit EXCEPT ![p] = Running]
  /\ thrown' = [thrown EXCEPT ![p] = FALSE]

\* The process is killed: its connections go with it.
Die(p) ==
  /\ faults
  /\ pc[p] # "exited"
  /\ pc' = [pc EXCEPT ![p] = "exited"]
  /\ opened' = [opened EXCEPT ![p] = {}]
  /\ Forget(p)
  /\ UNCHANGED <<database, made, world>>

\* The deployment runs the command again until it succeeds.
Rerun(p) ==
  /\ pc[p] = "exited" /\ exit[p] # 0
  /\ pc' = [pc EXCEPT ![p] = IF mode THEN "verify" ELSE "ensure"]
  /\ Forget(p)
  /\ UNCHANGED <<database, made, opened, world>>

CalmDown ==
  /\ ~calm
  /\ calm' = TRUE
  /\ ready' = mode     \* the operator has run the SQL the log asked for
  /\ UNCHANGED <<database, made, mode, pc, tasks, metrics, exit, thrown>>

Task(p, s) == Open(p, s) \/ Look(p, s) \/ Make(p, s) \/ Close(p, s)
Main(p) == Misconfigured(p) \/ CheckDatabase(p) \/ CreateDatabase(p)
             \/ Verify(p) \/ Finish(p) \/ Propagate(p)

Done == (\A p \in Process : exit[p] = 0) /\ UNCHANGED vars

Next == \/ \E p \in Process : \/ Main(p) \/ Die(p) \/ Rerun(p)
                              \/ \E s \in Store : Task(p, s)
        \/ CalmDown \/ Done

Spec == Init /\ [][Next]_vars

\* The event loop runs both tasks; a failed deployment is repeated.
Fairness == \A p \in Process :
  /\ WF_vars(Main(p)) /\ WF_vars(Rerun(p))
  /\ \A s \in Store : WF_vars(Task(p, s))
FairSpec == Spec /\ Fairness

-----------------------------------------------------------------------------
(* Properties.                                                             *)

\* Exit status 0 is a promise to the services that start next: the database
\* and every object of both stores exist, however many initializers ran at
\* the same time and failed before (initializer.py:378-388).
ExitZeroMeansReady ==
  \A p \in Process : exit[p] = 0 =>
    database /\ \A s \in Store : made[s] = 1..Statements[s]

\* The measurements of a run agree with its exit status.  A run that returned
\* is measured once as a whole, and either measures every store or was refused
\* before it touched one (initializer.py:144-171, 357-388).  A run that an
\* exception ended is not measured as a whole and exits 1: it ended before it
\* touched a store, or by a close that raised (237-277, 361, 309, 338).  No pool
\* or driver outlives the run that opened it (307-309, 336-338).
Untouched(p) == \A s \in Store : task[p][s] = "idle"
OutcomesAgree ==
  \A p \in Process : pc[p] = "exited" /\ exit[p] # Running =>
    /\ exit[p] = 0 =>
         ~thrown[p] /\ metrics[p] = (Store \union {"all"}) \X {"success"}
    /\ exit[p] = 1 /\ ~thrown[p] =>
         /\ <<"all", "failure">> \in metrics[p]
         /\ \/ metrics[p] = {<<"all", "failure">>} /\ Untouched(p)
            \/ \A s \in Store : <<s, result[p][s]>> \in metrics[p]
    /\ thrown[p] =>
         /\ \A m \in metrics[p] : m[1] # "all"
         /\ \/ metrics[p] = {} /\ Untouched(p)
            \/ \E s \in Store : result[p][s] = Raised /\ <<s, "failure">> \in metrics[p]
    /\ Cardinality({m \in metrics[p] : m[1] = "all"}) <= 1
NothingLeftOpen == \A p \in Process : pc[p] = "exited" => opened[p] = {}
EndsInOrder == OutcomesAgree /\ NothingLeftOpen

\* Initializers that race on an empty server may make each other fail, but
\* the deployments converge: once the faults are over every one succeeds.
DeploymentsConverge == calm ~> \A p \in Process : exit[p] = 0
=============================================================================
