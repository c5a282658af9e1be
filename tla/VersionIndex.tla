---------------------------- MODULE VersionIndex ----------------------------
(***************************************************************************)
(* The operator's procedures on public.artist_embeddings: one partial HNSW *)
(* index per model version, built and retired CONCURRENTLY, and the older  *)
(* index over the whole table.  A CONCURRENTLY build works in several      *)
(* transactions, so a build that fails leaves an INVALID index under its   *)
(* name; all these statements take the same self-conflicting lock on the   *)
(* table.                                                                  *)
(***************************************************************************)
EXTENDS Naturals

CONSTANTS
  Operator,      \* sessions on direct connections
  Version,       \* model versions, each with an index of its own
  Whole,         \* the index over every version
  Faults         \* what may happen: a "statement" fails, so does the "cleanup", a
                 \* call is cancelled ("cancel")

ASSUME WholeAssumption == Whole \notin Version
ASSUME OperatorAssumption == Operator \intersect Version = {}   \* cutShort holds both
ASSUME FaultsAssumption == Faults \subseteq {"statement", "cleanup", "cancel"}

VARIABLES
  vector,     \* the extension is installed
  index,      \* state of each index
  rows,       \* versions that have rows in artist_embeddings
  pc,         \* where each operator's call is
  call,       \* what it is
  raised,     \* maintenance_work_mem is raised in the operator's session
  failures,   \* failed steps of the call
  cutShort    \* indexes and sessions whose cleanup failed or never ran

vars == <<vector, index, rows, pc, call, raised, failures, cutShort>>

Index == Version \union {Whole}
Calls == [kind : {"build", "retire"}, on : Version, valid : BOOLEAN]
           \union [kind : {"whole"}, on : {Whole}, valid : BOOLEAN,
                   rebuild : BOOLEAN]

TypeOK ==
  /\ vector \in BOOLEAN
  /\ index \in [Index -> {"none", "building", "invalid", "valid"}]
  /\ rows \subseteq Version
  /\ pc \in [Operator -> {"idle", "check", "set", "create", "building",
                          "drop", "delete", "reset", "returned"}]
  /\ call \in [Operator -> Calls]
  /\ raised \in [Operator -> BOOLEAN]
  /\ failures \in [Operator -> 0..1]
  /\ cutShort \subseteq Version \union Operator

Init ==
  /\ vector \in BOOLEAN
  /\ index = [i \in Index |-> "none"]
  /\ rows = {}
  /\ pc = [o \in Operator |-> "idle"]
  /\ call \in [Operator -> Calls]
  /\ raised = [o \in Operator |-> FALSE]
  /\ failures = [o \in Operator |-> 0]
  /\ cutShort = {}

On(o) == call[o].on
Fails(fault) == fault \in Faults
\* SHARE UPDATE EXCLUSIVE on the table: nobody else is building.
TableFree == \A o \in Operator : pc[o] # "building"

Goto(o, where) == pc' = [pc EXCEPT ![o] = where]
\* Mutant: the count is off by one.
ReturnOneMore(o, n) ==
  Goto(o, "returned") /\ failures' = [failures EXCEPT ![o] = n + 1]
Return(o, n) == Goto(o, "returned") /\ failures' = [failures EXCEPT ![o] = n]

\* Mutant: a failed step returns at once, past the finally.
FailReturns(o, where) == Return(o, 1)
Fail(o, where) == Goto(o, where) /\ failures' = [failures EXCEPT ![o] = 1]

\* analytics-engine loads a version; nothing here prevents loading it again.
Load(v) ==
  /\ vector
  /\ rows' = rows \union {v}
  /\ UNCHANGED <<vector, index, pc, call, raised, failures, cutShort>>

Begin(o) ==
  /\ pc[o] \in {"idle", "returned"}
  /\ \E request \in Calls : call' = [call EXCEPT ![o] = request]
  /\ failures' = [failures EXCEPT ![o] = 0]
  /\ Goto(o, "check")
  /\ UNCHANGED <<vector, index, rows, raised, cutShort>>

\* The refusals, before anything is changed: no extension (or a query that
\* cannot tell) is a skip, an unusable name, version, memory quantity or
\* connection a failure.
Check(o) ==
  /\ pc[o] = "check"
  /\ \/ /\ call[o].kind # "retire"
        /\ ~vector \/ Fails("statement")
        /\ Return(o, 0)
     \/ /\ call[o].kind # "retire" => vector
        /\ IF ~call[o].valid THEN Return(o, 1)
           ELSE /\ Goto(o, IF call[o].kind = "retire" THEN "drop" ELSE "set")
                /\ UNCHANGED failures
  /\ UNCHANGED <<vector, index, rows, call, raised, cutShort>>

\* SET maintenance_work_mem.
SetMemory(o) ==
  /\ pc[o] = "set"
  /\ \/ /\ raised' = [raised EXCEPT ![o] = TRUE]
        /\ Goto(o, "create")
        /\ UNCHANGED failures
     \/ Fails("statement") /\ Return(o, 1) /\ UNCHANGED raised
  /\ UNCHANGED <<vector, index, rows, call, cutShort>>

\* CREATE INDEX CONCURRENTLY IF NOT EXISTS: an index of that name, whatever
\* its state, makes it a no-op.
Create(o) ==
  /\ pc[o] = "create" /\ call[o].kind = "build"
  /\ TableFree
  /\ IF index[On(o)] # "none"
     THEN Goto(o, "reset") /\ UNCHANGED index
     ELSE /\ index' = [index EXCEPT ![On(o)] = "building"]
          /\ Goto(o, "building")
  /\ UNCHANGED <<vector, rows, call, raised, failures, cutShort>>

Built(o) ==
  /\ pc[o] = "building"
  /\ index' = [index EXCEPT ![On(o)] = "valid"]
  /\ Goto(o, "reset")
  /\ UNCHANGED <<vector, rows, call, raised, failures, cutShort>>

\* What a CONCURRENTLY statement leaves when it fails: before it has the lock
\* no trace, after that an INVALID index.
Interrupted(o) ==
  \/ pc[o] # "building" /\ UNCHANGED index
  \/ /\ \/ pc[o] = "building"
        \/ pc[o] = "drop" /\ index[On(o)] = "valid" /\ TableFree
     /\ index' = [index EXCEPT ![On(o)] = "invalid"]

\* Mutant: a failed build is not cleaned up after.
CreateFailsUncleaned(o) ==
  /\ pc[o] \in {"create", "building"} /\ call[o].kind = "build"
  /\ Fails("statement")
  /\ Interrupted(o)
  /\ Fail(o, "reset")
  /\ UNCHANGED <<vector, rows, call, raised, cutShort>>

CreateFails(o) ==
  /\ pc[o] \in {"create", "building"} /\ call[o].kind = "build"
  /\ Fails("statement")
  /\ Interrupted(o)
  /\ Fail(o, "drop")
  /\ UNCHANGED <<vector, rows, call, raised, cutShort>>

\* CREATE INDEX or REINDEX of the whole-table index: one transaction.
CreateWhole(o) ==
  /\ pc[o] = "create" /\ call[o].kind = "whole"
  /\ \/ /\ TableFree
        /\ IF call[o].rebuild /\ index[Whole] = "none"
           THEN Fail(o, "reset") /\ UNCHANGED index
           ELSE /\ index' = [index EXCEPT ![Whole] = "valid"]
                /\ Goto(o, "reset")
                /\ UNCHANGED failures
     \/ Fails("statement") /\ Fail(o, "reset") /\ UNCHANGED index
  /\ UNCHANGED <<vector, rows, call, raised, cutShort>>

\* DROP INDEX CONCURRENTLY IF EXISTS: the cleanup of a failed build, or the
\* first half of a retirement.  The cleanup's own failure is only logged.
Drop(o) ==
  /\ pc[o] = "drop"
  /\ TableFree
  /\ index' = [index EXCEPT ![On(o)] = "none"]
  /\ cutShort' = cutShort \ {On(o)}
  /\ Goto(o, IF call[o].kind = "retire" THEN "delete" ELSE "reset")
  /\ UNCHANGED <<vector, rows, call, raised, failures>>

DropFails(o) ==
  /\ pc[o] = "drop"
  /\ IF call[o].kind = "retire"
     THEN Fails("statement") /\ Return(o, 1)
     ELSE Fails("cleanup") /\ Goto(o, "reset") /\ UNCHANGED failures
  /\ Interrupted(o)
  /\ cutShort' = cutShort \union {On(o)}
  /\ UNCHANGED <<vector, rows, call, raised>>

\* DELETE FROM public.artist_embeddings: the second half.
\* Mutant: a failed DELETE is logged only.
DeleteOrNot(o) ==
  /\ pc[o] = "delete"
  /\ \/ rows' = rows \ {On(o)}
     \/ Fails("statement") /\ UNCHANGED rows
  /\ Return(o, 0)
  /\ UNCHANGED <<vector, index, call, raised, cutShort>>
Delete(o) ==
  /\ pc[o] = "delete"
  /\ \/ rows' = rows \ {On(o)} /\ Return(o, 0)
     \/ Fails("statement") /\ Return(o, 1) /\ UNCHANGED rows
  /\ UNCHANGED <<vector, index, call, raised, cutShort>>

\* RESET maintenance_work_mem, in a finally.
ResetMemory(o) ==
  /\ pc[o] = "reset"
  /\ \/ /\ raised' = [raised EXCEPT ![o] = FALSE]
        /\ cutShort' = cutShort \ {o}
     \/ /\ Fails("cleanup")
        /\ cutShort' = cutShort \union {o}
        /\ UNCHANGED raised
  /\ Goto(o, "returned")
  /\ UNCHANGED <<vector, index, rows, call, failures>>

\* The task is cancelled: CancelledError is no Exception, so only the finally
\* runs, and not even that while SET is being sent.
Cancel(o) ==
  /\ Fails("cancel")
  /\ pc[o] \in {"create", "building", "drop", "delete"}
  /\ Interrupted(o)
  /\ cutShort' = IF pc[o] \in {"building", "drop"}
                 THEN cutShort \union {On(o)} ELSE cutShort
  /\ Fail(o, IF call[o].kind = "retire" THEN "returned" ELSE "reset")
  /\ UNCHANGED <<vector, rows, call, raised>>

CancelSet(o) ==
  /\ Fails("cancel")
  /\ pc[o] = "set"
  /\ raised' \in {raised, [raised EXCEPT ![o] = TRUE]}
  /\ cutShort' = cutShort \union {o}
  /\ Return(o, 1)
  /\ UNCHANGED <<vector, index, rows, call>>

Next ==
  \/ \E v \in Version : Load(v)
  \/ \E o \in Operator :
       \/ Begin(o) \/ Check(o) \/ SetMemory(o)
       \/ Create(o) \/ Built(o) \/ CreateFails(o) \/ CreateWhole(o)
       \/ Drop(o) \/ DropFails(o) \/ Delete(o) \/ ResetMemory(o)
       \/ Cancel(o) \/ CancelSet(o)

Spec == Init /\ [][Next]_vars

-----------------------------------------------------------------------------
(* Properties.                                                             *)

Building(o) == pc[o] \in {"create", "building"} /\ call[o].kind = "build"

\* A raised maintenance_work_mem outlives a call only if its RESET failed or
\* never ran, whichever step of the call failed or was cancelled
\* (postgres.py:7864-7866).
MemoryNeverStanding ==
  \A o \in Operator : pc[o] \in {"idle", "returned", "check"} /\ raised[o]
                         => o \in cutShort

\* A build that reports no failure leaves a usable index: IF NOT EXISTS takes
\* the leftover of an earlier build for one only if that build's cleanup was
\* itself cut short (postgres.py:7853-7863).
Usable(o) ==
  Building(o) /\ pc'[o] = "reset" /\ failures'[o] = 0
    => index'[On(o)] = "valid" \/ On(o) \in cutShort

\* Retiring is repeatable after any half of it failed: when it reports success
\* both the index and the rows are gone (postgres.py:7971-7972).
Gone(o) ==
  pc[o] = "delete" /\ pc'[o] = "returned" /\ failures'[o] = 0
    => index'[On(o)] = "none" /\ On(o) \notin rows'

\* A usable index is lost to a retirement of its version, or to the cleanup of
\* a build repeated in vain, which drops what has the name
\* (postgres.py:7857-7861, 7929, 7995); nothing makes it INVALID again.
Lost(i) ==
  index[i] = "valid" /\ index'[i] # "valid"
    => \E o \in Operator :
         pc[o] = "drop" /\ On(o) = i
           /\ (call[o].kind = "build" => failures'[o] > 0)

\* A call's report is true of the index, no other call undoes it, and no step
\* leaves the session's memory raised behind a call that ran its RESET.
ReportsHold ==
  [][/\ \A o \in Operator : Usable(o) /\ Gone(o)
     /\ \A i \in Index : Lost(i)
     /\ MemoryNeverStanding']_vars
=============================================================================
