----------------------------- MODULE SchemaApply -----------------------------
(***************************************************************************)
(* create_postgres_schema on one connection: the bounded executor (no-op   *)
(* probe, lock timeout, retries, stop), the guarded vector objects and the *)
(* pipeline grants, run again and again against a database in which one    *)
(* long transaction (the rarity job) holds tables and a reader comes by.   *)
(*                                                                         *)
(* A statement is a record:                                                *)
(*   makes  - objects that exist once it has run                           *)
(*   drops  - objects it drops if all of "when" exist (a guarded migration)*)
(*   needs  - objects without which it fails                               *)
(*   table  - the table it locks, or NoTable                               *)
(*   probed - an index or column the executor can look up first            *)
(*   cluster - it is CREATE EXTENSION or CREATE ROLE                       *)
(***************************************************************************)
EXTENDS Naturals, Sequences

CONSTANTS
  Object,
  Table, NoTable,
  Main,             \* _schema_statements()
  VectorStatements, RoleStatements, EmbeddingGrant, SimilarityGrants,
  VectorExtension, PipelineRole,    \* objects the gates look for
  Lockable,         \* the tables the long transaction may hold
  Attempts,         \* SCHEMA_INIT_LOCK_ATTEMPTS
  Environment,      \* the modes and privileges to consider
  Faulty            \* statements, probes and gate queries may fail and runs
                    \* may crash for reasons of their own

ASSUME AttemptsAssumption == Attempts \in Nat \ {0}
ASSUME FaultAssumption == Faulty \in BOOLEAN
ASSUME LockableAssumption == Lockable \subseteq Table /\ NoTable \notin Table

VARIABLES
  objects,    \* what the catalog holds
  holds,      \* tables the long transaction has locked; {} when there is none
  stalled,    \* a reader waits behind the queued statement
  env,        \* mode of the run and the privileges of its role
  pc,         \* where the run is
  todo,       \* statements of the executor that is running, from the next on
  stage,      \* the executor: "main" or "gated"
  attempt,    \* attempts made at Head(todo)
  success, failure,
  bounded,    \* lock_timeout is set on the session
  blocked,    \* lock waits on the present long transaction that timed out
  misread,    \* a gate query failed and was taken for "no"
  calm        \* no more faults, crashes or long transactions

vars == <<objects, holds, stalled, env, pc, todo, stage, attempt, success,
          failure, bounded, blocked, misread, calm>>
run == <<env, stage, success, failure, bounded, misread, calm>>

Gates == [preprovisioned : BOOLEAN, available : BOOLEAN,
          superuser : BOOLEAN, createrole : BOOLEAN]

NotCluster(s) == ~s.cluster

\* The statements of the two executors; the pre-provisioned mode creates no
\* cluster object.
Allowed(pre, statements) ==
  IF pre THEN SelectSeq(statements, NotCluster) ELSE statements
MainFor(pre) == Allowed(pre, Main)
\* Mutant: the grant on the embeddings is gated on the role alone.
GatedOnRole(pre, vector, role) ==
  (IF vector THEN Allowed(pre, VectorStatements) ELSE <<>>)
    \o (IF role THEN Allowed(pre, RoleStatements) \o EmbeddingGrant
                       \o SimilarityGrants
        ELSE <<>>)
Gated(pre, vector, role) ==
  (IF vector THEN Allowed(pre, VectorStatements) ELSE <<>>)
    \o (IF role THEN Allowed(pre, RoleStatements) ELSE <<>>)
    \o (IF vector /\ role THEN EmbeddingGrant ELSE <<>>)
    \o (IF role THEN SimilarityGrants ELSE <<>>)

faults == Faulty /\ ~calm

MadeBy(statements) == UNION {statements[i].makes : i \in DOMAIN statements}

Statements == [makes : SUBSET Object, drops : SUBSET Object, when : SUBSET Object, needs : SUBSET Object,
               table : Table \union {NoTable}, probed : BOOLEAN, cluster : BOOLEAN]

\* The lists are lists of statements, and the first one is never empty.  What a
\* migration drops of what the list makes, it makes again or a later statement
\* does (7210-7215); the gated lists, which drop nothing, make the objects the
\* gates look for each in one place.
ASSUME ListAssumption ==
  \A pre \in BOOLEAN :
    /\ MainFor(pre) \in Seq(Statements) \ {<<>>}
    /\ \A list \in {Allowed(pre, VectorStatements), Allowed(pre, RoleStatements), EmbeddingGrant, SimilarityGrants} :
         list \in Seq({s \in Statements : s.drops = {}})
    /\ \A i \in DOMAIN MainFor(pre) :
         MainFor(pre)[i].drops \intersect MadeBy(MainFor(pre))
           \subseteq UNION {MainFor(pre)[j].makes : j \in i..Len(MainFor(pre))}
    /\ VectorExtension \notin MadeBy(Allowed(pre, RoleStatements)) \union MadeBy(EmbeddingGrant) \union MadeBy(SimilarityGrants)
    /\ PipelineRole \notin MadeBy(Allowed(pre, VectorStatements))

Running == {"begin", "probe", "send", "queued", "pause", "gates", "reset"}
Current == Head(todo)

TypeOK ==
  /\ objects \subseteq Object
  /\ holds \subseteq Lockable /\ stalled \in BOOLEAN
  /\ env \in Gates
  /\ pc \in Running \union {"done", "crashed"}
  /\ stage \in {"main", "gated"}
  /\ todo \in Seq(Statements)
  /\ attempt \in 0..Attempts
  /\ success \in Nat /\ failure \in Nat
  /\ bounded \in BOOLEAN /\ misread \in BOOLEAN /\ calm \in BOOLEAN
  /\ blocked \in Nat

\* Some earlier release of the schema has been applied, or none; in the
\* pre-provisioned mode an administrator may have made the cluster objects.
CONSTANT Before     \* the sets of objects found by the first run
ASSUME BeginningAssumption == Before \subseteq SUBSET Object /\ Environment \subseteq Gates
Init ==
  /\ objects \in Before
  /\ holds = {} /\ stalled = FALSE
  /\ env \in Environment
  /\ pc = "begin" /\ stage = "main" /\ todo = MainFor(env.preprovisioned)
  /\ attempt = 0 /\ success = 0 /\ failure = 0
  /\ bounded = FALSE /\ blocked = 0 /\ misread = FALSE
  /\ calm = FALSE

-----------------------------------------------------------------------------
(* One statement.                                                          *)

\* Mutant: a probe that fails means "already there".
NoopUnless(answered) ==
  Current.probed /\ (answered => Current.makes \subseteq objects)
Noop(answered) == Current.probed /\ answered /\ Current.makes \subseteq objects

\* Mutant: one attempt too many.
TriedBeyond == attempt > Attempts
TriedEnough == attempt >= Attempts

\* Mutant: the statement it stopped at is counted twice.
SkippedTooMany == Len(todo)
Skipped == Len(todo) - 1

\* A reader behind a queued statement is served when that leaves the queue,
\* whatever made it leave.
LeaveQueue == stalled' = FALSE

Applicable(s) == s.when \subseteq objects
\* A migration reads the catalog before it locks anything.
Blocked(s) == s.table \in holds /\ (s.drops # {} => Applicable(s))
Result(s) == (objects \ (IF Applicable(s) THEN s.drops ELSE {}))
               \union s.makes

\* The run goes on with the next statement, or with what follows the last.
Advance ==
  /\ todo' = Tail(todo)
  /\ attempt' = 0
  /\ pc' = IF Len(todo) > 1 THEN IF stage = "main" THEN "probe" ELSE "send"
           ELSE IF stage = "main" THEN "gates" ELSE "reset"

\* set_config('lock_timeout', ...): a failure is logged, nothing more.
SetLockTimeout ==
  /\ pc = "begin"
  /\ bounded' \in (IF faults THEN BOOLEAN ELSE {TRUE})
  /\ pc' = "probe"
  /\ UNCHANGED <<objects, holds, stalled, env, todo, stage, attempt, success,
                 failure, blocked, misread, calm>>

\* _is_noop_statement: the catalog is read right before the statement, and a
\* probe that fails means "send it".
Probe ==
  /\ pc = "probe"
  /\ \E answered \in (IF faults THEN BOOLEAN ELSE {TRUE}) :
       IF Noop(answered)
       THEN success' = success + 1 /\ Advance
       ELSE pc' = "send" /\ UNCHANGED <<success, todo, attempt>>
  /\ UNCHANGED <<objects, holds, stalled, env, stage, failure, bounded,
                 blocked, misread, calm>>

Succeed ==
  /\ objects' = Result(Current)
  /\ success' = success + 1
  /\ LeaveQueue
  /\ Advance
  /\ UNCHANGED <<holds, env, stage, failure, bounded, blocked,
                 misread, calm>>

\* Any error but a lock timeout is counted and the executor carries on.
Error ==
  /\ failure' = failure + 1
  /\ LeaveQueue
  /\ Advance
  /\ UNCHANGED <<objects, holds, env, stage, success, bounded,
                 blocked, misread, calm>>

Send ==
  /\ pc = "send"
  /\ IF Blocked(Current)
     THEN /\ pc' = "queued"
          /\ attempt' = attempt + 1
          /\ UNCHANGED <<objects, holds, stalled, todo, blocked, run>>
     ELSE IF Current.needs \subseteq objects THEN Succeed ELSE Error

\* The statement gets the lock it was queued for.
Granted ==
  /\ pc = "queued"
  /\ ~Blocked(Current)
  /\ IF Current.needs \subseteq objects THEN Succeed ELSE Error

\* A lock timeout (sqlstate 55P03).  The bounded executor tries again after a
\* pause and in the end stops, counting what it did not apply; the gated one
\* counts it like any other error.
TimeOut ==
  /\ pc = "queued" /\ bounded
  /\ Blocked(Current)
  /\ blocked' = blocked + 1
  /\ LeaveQueue
  /\ IF stage = "gated"
     THEN failure' = failure + 1 /\ Advance
     ELSE IF ~TriedEnough
     THEN pc' = "pause" /\ UNCHANGED <<failure, todo, attempt>>
     ELSE /\ failure' = failure + 1 + Skipped
          /\ todo' = <<>> /\ attempt' = 0 /\ pc' = "gates"
  /\ UNCHANGED <<objects, holds, env, stage, success, bounded, misread, calm>>

\* Mutant: every retry starts the count of attempts again.
RetryAfresh ==
  /\ pc = "pause"
  /\ pc' = "send" /\ attempt' = 0
  /\ UNCHANGED <<objects, holds, stalled, todo, blocked, run>>
Retry ==
  /\ pc = "pause"
  /\ pc' = "send"
  /\ UNCHANGED <<objects, holds, stalled, todo, attempt, blocked, run>>

Fault ==
  /\ faults
  /\ pc \in {"send", "queued"}
  /\ Error

-----------------------------------------------------------------------------
(* _apply_vector_schema and _apply_preprovisioned_vector_schema: four      *)
(* queries, each of which is taken for "no" when it fails.                 *)
Queries == {"installed", "available", "superuser", "role"}

\* _vector_schema_skip_reasons: an installed extension settles its gate.
VectorGate(answered) ==
  \/ "installed" \in answered /\ VectorExtension \in objects
  \/ /\ ~env.preprovisioned
     /\ "available" \in answered /\ env.available
     /\ "superuser" \in answered /\ env.superuser
RoleGate(answered) ==
  /\ "role" \in answered
  /\ IF env.preprovisioned THEN PipelineRole \in objects ELSE env.createrole

OpenGates ==
  /\ pc = "gates"
  /\ \E answered \in (IF faults THEN SUBSET Queries ELSE {Queries}) :
       LET statements == Gated(env.preprovisioned, VectorGate(answered),
                               RoleGate(answered))
       IN /\ misread' = (answered # Queries)
          /\ todo' = statements
          /\ pc' = IF statements = <<>> THEN "reset" ELSE "send"
  /\ stage' = "gated" /\ attempt' = 0
  /\ UNCHANGED <<objects, holds, stalled, env, success, failure, bounded,
                 blocked, calm>>

\* RESET lock_timeout; a failure is logged, and the pool closes anyway.
Reset ==
  /\ pc = "reset"
  /\ bounded' \in (IF faults THEN {FALSE, bounded} ELSE {FALSE})
  /\ pc' = "done"
  /\ UNCHANGED <<objects, holds, stalled, env, todo, stage, attempt, success,
                 failure, blocked, misread, calm>>

Crash ==
  /\ faults
  /\ pc \in Running
  /\ pc' = "crashed" /\ stalled' = FALSE
  /\ UNCHANGED <<objects, holds, todo, attempt, blocked, run>>

\* The next deployment runs the initializer again, on a new connection.
Rerun ==
  /\ pc \in {"done", "crashed"}
  /\ ~(calm /\ pc = "done" /\ failure = 0)
  /\ pc' = "begin" /\ stage' = "main" /\ todo' = MainFor(env.preprovisioned)
  /\ attempt' = 0 /\ success' = 0 /\ failure' = 0
  /\ bounded' = FALSE /\ misread' = FALSE
  /\ blocked' = 0
  /\ UNCHANGED <<objects, holds, stalled, env, calm>>

-----------------------------------------------------------------------------
(* Everybody else.                                                         *)
BeginLong ==
  /\ ~calm /\ holds = {}
  /\ holds' \in SUBSET Lockable \ {{}}
  /\ pc = "queued" => Current.table \notin holds'
  /\ blocked' = 0
  /\ UNCHANGED <<objects, stalled, pc, todo, attempt, run>>

EndLong ==
  /\ holds # {}
  /\ holds' = {}
  /\ UNCHANGED <<objects, stalled, pc, todo, attempt, blocked, run>>

ReaderArrives ==
  /\ pc = "queued" /\ Blocked(Current)
  /\ stalled' = TRUE
  /\ UNCHANGED <<objects, holds, pc, todo, attempt, blocked, run>>

CalmDown ==
  /\ ~calm /\ holds = {}
  /\ calm' = TRUE
  /\ UNCHANGED <<objects, holds, stalled, env, pc, todo, stage, attempt,
                 success, failure, bounded, blocked, misread>>

Stopped ==
  /\ calm /\ pc = "done" /\ failure = 0
  /\ UNCHANGED vars

Step == SetLockTimeout \/ Probe \/ Send \/ Granted \/ TimeOut \/ Retry
          \/ OpenGates \/ Reset

Next == \/ Step \/ Fault \/ Crash \/ Rerun
        \/ BeginLong \/ EndLong \/ ReaderArrives
        \/ CalmDown \/ Stopped

Spec == Init /\ [][Next]_vars

\* The event loop runs the initializer and a deployment that failed is run
\* again.  The long transaction need not end.
Fairness == WF_vars(Step) /\ WF_vars(Rerun)
FairSpec == Spec /\ Fairness

-----------------------------------------------------------------------------
(* Properties.                                                             *)

\* The counts a run reports account for every statement of its list, however
\* it was skipped, failed, retried or given up (postgres.py:7234-7241, 7275).
CountsAddUp ==
  stage = "main" =>
    success + failure + Len(todo) = Len(MainFor(env.preprovisioned))

\* A run that reports no failure leaves everything its mode and gates promise
\* in the catalog, objects an earlier statement dropped included
\* (postgres.py:7210-7215, 8341-8369).
ZeroFailuresMeansApplied ==
  pc = "done" /\ failure = 0 /\ ~misread =>
    /\ MadeBy(MainFor(env.preprovisioned)) \subseteq objects
    /\ VectorExtension \in objects =>
         MadeBy(Allowed(env.preprovisioned, VectorStatements)) \subseteq objects
    /\ PipelineRole \in objects /\ VectorExtension \in objects
         /\ (env.createrole \/ env.preprovisioned)
       => MadeBy(EmbeddingGrant) \subseteq objects

\* Each failure a run reports stands for at most "attempts" timeouts on one
\* transaction.  (postgres.py:8370-8371 promises "attempts" for the whole run,
\* but a gated statement waits after the main list has given up, and so does
\* the next statement when a retried one fails for another reason.)
WaitBounded == holds # {} => blocked <= Attempts * failure + attempt

\* What a run reports is what it did, in statements counted, objects made and
\* time waited.
CountsTellTheTruth ==
  CountsAddUp /\ ZeroFailuresMeansApplied /\ WaitBounded

\* Every run ends, and no reader waits for ever behind one of its statements,
\* even if the long transaction never does (postgres.py:7155-7158); without
\* lock_timeout the code only warns that statements may wait.
WaitsEnd == /\ bounded /\ pc \in Running ~> pc \in {"done", "crashed"}
            /\ bounded /\ stalled ~> ~stalled

\* Re-running converges: when the faults are over, some run reports success.
Converges == calm ~> (pc = "done" /\ failure = 0)
=============================================================================
