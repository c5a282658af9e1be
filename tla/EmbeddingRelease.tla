-------------------------- MODULE EmbeddingRelease --------------------------
(***************************************************************************)
(* Publishing and retiring releases of the precomputed similar-artist      *)
(* lists: create_artist_embedding_release, publish_..., retire_... and the *)
(* K guard triggers, as transactions under READ COMMITTED.                 *)
(*                                                                         *)
(* A caller runs one call at a time, each in a transaction of its own.  A  *)
(* statement that needs a lock is a step whose guard says who it waits     *)
(* for; what the transaction wrote is applied to the tables when it        *)
(* commits.  Table locks: the three calls that write releases take ROW     *)
(* EXCLUSIVE, publish and retire SHARE ROW EXCLUSIVE before anything else. *)
(* Row locks: FOR SHARE by a list writer (the K guard), exclusive by the   *)
(* others.                                                                 *)
(***************************************************************************)
EXTENDS Naturals

CONSTANTS
  Caller,
  Id,         \* values of the identity column release_id
  Version,    \* model versions
  Lineage,    \* (source_dump_id, source_dump_date)
  K,          \* list limits
  Artist,
  Length,     \* lengths of similar_artist_ids
  None        \* no row, no call, no list

ASSUME NumbersAssumption == K \subseteq Nat \ {0} /\ Length \subseteq Nat

VARIABLES
  release,    \* committed rows of artist_embedding_releases, by id
  list,       \* committed rows of artist_similar_artists: their lengths
  used,       \* ids the identity column has handed out
  pc,         \* the statement each caller is at
  call        \* its call: the arguments and what it has read

vars == <<release, list, used, pc, call>>

Release == [version : Version, lineage : Lineage, k : K,
            current : BOOLEAN,
            stamp : BOOLEAN]   \* published_at: NOW() is another time

\* release_id by which publish may also be called; retire takes a version.
Reference == Version \union Id
Calls ==
  [kind : {"create"}, version : Version, lineage : Lineage, k : K,
   row : SUBSET Id]
    \union [kind : {"publish"}, ref : Reference, row : SUBSET Id,
            cleared : SUBSET Id, was : BOOLEAN]
    \union [kind : {"retire"}, ref : Version, cascade : BOOLEAN,
            row : SUBSET Id]
    \union [kind : {"limit"}, row : SUBSET Id, k : K]
    \union [kind : {"write"}, row : SUBSET Id, artist : Artist,
            length : Length]

ASSUME NoneAssumption == None \notin Length \union Release \union Calls
\* An integer or a string: publish tells an id from a version by its type.
ASSUME ReferenceAssumption == Id \intersect Version = {}

Live == {i \in Id : release[i] # None}
Current == {i \in Live : release[i].current}
\* Mutant: a release is looked up by its id only.
NamedById(ref) == {i \in Live : i = ref}
Named(ref) == {i \in Live : i = ref \/ release[i].version = ref}

\* Table locks.
Exclusive == {"publish", "retire"}
\* Mutant: a weaker lock is taken first and upgraded.
HoldsTableEarly(c) == pc[c] # "idle"
HoldsTable(c) == pc[c] \in {"row", "clear", "set", "commit"}
\* Mutant: no LOCK TABLE.
TableUnlocked(c) == c \in Caller
TableFree(c) ==
  \A d \in Caller \ {c} :
    HoldsTable(d) => ~(\/ call[d].kind \in Exclusive
                       \/ call[c].kind \in Exclusive /\ call[d].kind # "write")

\* Row locks, held from the statement that took them to the end.
HoldsRow(d, i) == /\ pc[d] \in {"clear", "set", "commit"}
                  /\ \/ i \in call[d].row
                     \/ call[d].kind = "publish" /\ i \in call[d].cleared
RowFree(c, i) == \A d \in Caller \ {c} : ~HoldsRow(d, i)
\* Mutant: the K guard reads k without FOR SHARE.
RowReadable(c, i) == c \in Caller
RowShareable(c, i) ==
  \A d \in Caller \ {c} : HoldsRow(d, i) => call[d].kind = "write"

TypeOK ==
  /\ release \in [Id -> Release \union {None}]
  /\ list \in [Id \X Artist -> Length \union {None}]
  /\ used \subseteq Id
  /\ pc \in [Caller -> {"idle", "table", "row", "clear", "set", "commit"}]
  /\ call \in [Caller -> Calls \union {None}]
  /\ \A c \in Caller : call[c] = None <=> pc[c] = "idle"

Init ==
  /\ release = [i \in Id |-> None]
  /\ list = [x \in Id \X Artist |-> None]
  /\ used = {}
  /\ pc = [c \in Caller |-> "idle"]
  /\ call = [c \in Caller |-> None]

-----------------------------------------------------------------------------
Goto(c, where) == pc' = [pc EXCEPT ![c] = where]
tables == <<release, list, used>>

Begin(c, request, where) ==
  /\ pc[c] = "idle"
  /\ call' = [call EXCEPT ![c] = request]
  /\ Goto(c, where)
  /\ UNCHANGED tables

Create(c, v, l, k) ==
  Begin(c, [kind |-> "create", version |-> v, lineage |-> l, k |-> k,
            row |-> {}], "table")
Publish(c, ref) ==
  Begin(c, [kind |-> "publish", ref |-> ref, row |-> {}, cleared |-> {},
            was |-> FALSE], "table")
Retire(c, v, cascade) ==
  Begin(c, [kind |-> "retire", ref |-> v, cascade |-> cascade,
            row |-> {}], "table")

\* An operator's UPDATE of k, and the batch job writing one list.
ChangeLimit(c, i, k) ==
  Begin(c, [kind |-> "limit", row |-> {i}, k |-> k], "table")
WriteList(c, i, a, n) ==
  Begin(c, [kind |-> "write", row |-> {i}, artist |-> a, length |-> n], "row")

\* The end of a transaction that changes nothing: an exception, a refusal, a
\* failed statement or a lost connection.
\* Mutant: a failed call is not forgotten.
RollbackOnly(c) == Goto(c, "idle") /\ UNCHANGED <<call, tables>>
Rollback(c) ==
  /\ Goto(c, "idle")
  /\ call' = [call EXCEPT ![c] = None]
  /\ UNCHANGED tables

Fail(c) == pc[c] # "idle" /\ Rollback(c)

\* LOCK TABLE, or the lock an INSERT or UPDATE takes as it starts.
LockTable(c) ==
  /\ pc[c] = "table"
  /\ TableFree(c)
  /\ Goto(c, "row")
  /\ UNCHANGED <<call, tables>>

\* INSERT ... ON CONFLICT (model_version) DO UPDATE, and the comparison.
CreateRow(c) ==
  /\ pc[c] = "row" /\ call[c].kind = "create"
  /\ \A d \in Caller \ {c} :     \* the same version, inserted but not committed
       ~(pc[d] = "commit" /\ call[d].kind = "create"
                          /\ call[d].version = call[c].version)
  /\ LET same == Named(call[c].version) IN
       \/ \E i \in same :
            /\ RowFree(c, i)
            /\ IF /\ release[i].lineage = call[c].lineage
                  /\ release[i].k = call[c].k
               THEN /\ call' = [call EXCEPT ![c].row = {i}]
                    /\ Goto(c, "commit")
                    /\ UNCHANGED tables
               ELSE Rollback(c)
       \/ /\ same = {}
          /\ \E i \in Id \ used :
               /\ used' = used \union {i}
               /\ call' = [call EXCEPT ![c].row = {i}]
          /\ Goto(c, "commit")
          /\ UNCHANGED <<release, list>>
       \/ /\ same = {} /\ used = Id     \* the identity column has run out
          /\ Rollback(c)

\* SELECT ... FOR UPDATE of the release to publish.
FindToPublish(c) ==
  /\ pc[c] = "row" /\ call[c].kind = "publish"
  /\ LET found == Named(call[c].ref) IN
       /\ \A i \in found : RowFree(c, i)
       /\ IF found = {}
          THEN Rollback(c)
          ELSE /\ call' = [call EXCEPT ![c].row = found,
                                       ![c].was = found \subseteq Current]
               /\ Goto(c, "clear")
               /\ UNCHANGED tables

\* Mutant: the current release may be retired.
FindAnyToRetire(c) ==
  /\ pc[c] = "row" /\ call[c].kind = "retire"
  /\ \A i \in Named(call[c].ref) : RowFree(c, i)
  /\ call' = [call EXCEPT ![c].row = Named(call[c].ref)]
  /\ Goto(c, "commit")
  /\ UNCHANGED tables

\* ... and of the one to retire, which must not be the current one.
FindToRetire(c) ==
  /\ pc[c] = "row" /\ call[c].kind = "retire"
  /\ LET found == Named(call[c].ref) IN
       /\ \A i \in found : RowFree(c, i)
       /\ IF found \intersect Current # {}
          THEN Rollback(c)
          ELSE /\ call' = [call EXCEPT ![c].row = found]
               /\ Goto(c, "commit")
               /\ UNCHANGED tables

\* UPDATE ... SET is_current = FALSE WHERE is_current.
ClearCurrent(c) ==
  /\ pc[c] = "clear"
  /\ \A i \in Current : RowFree(c, i)
  /\ call' = [call EXCEPT ![c].cleared = Current]
  /\ Goto(c, "set")
  /\ UNCHANGED tables

\* UPDATE ... SET is_current = TRUE, against the unique index on is_current.
SetCurrent(c) ==
  /\ pc[c] = "set"
  /\ IF Current \subseteq call[c].cleared \union call[c].row
     THEN Goto(c, "commit") /\ UNCHANGED <<call, tables>>
     ELSE Rollback(c)

\* UPDATE ... SET k, and artist_release_k: no existing list may be longer.
SetLimit(c) ==
  /\ pc[c] = "row" /\ call[c].kind = "limit"
  /\ \A i \in call[c].row : RowFree(c, i)
  /\ IF \A i \in call[c].row :
          /\ i \in Live
          /\ call[c].k < release[i].k =>
               \A a \in Artist : list[i, a] # None => list[i, a] <= call[c].k
     THEN Goto(c, "commit") /\ UNCHANGED <<call, tables>>
     ELSE Rollback(c)

\* INSERT or UPDATE of a list and artist_similarity_k, which reads k FOR
\* SHARE; without a release row the foreign key refuses the list.
PutList(c) ==
  /\ pc[c] = "row" /\ call[c].kind = "write"
  /\ \A d \in Caller \ {c} :
       ~(/\ pc[d] = "commit" /\ call[d].kind = "write"
         /\ call[d].row = call[c].row /\ call[d].artist = call[c].artist)
  /\ \A i \in call[c].row : RowShareable(c, i)
  /\ IF \A i \in call[c].row : i \in Live /\ call[c].length <= release[i].k
     THEN Goto(c, "commit") /\ UNCHANGED <<call, tables>>
     ELSE Rollback(c)

\* What the transaction wrote becomes visible.
Created(c) ==
  /\ call[c].kind = "create"
  /\ release' = [i \in Id |->
       IF i \in call[c].row /\ release[i] = None
       THEN [version |-> call[c].version, lineage |-> call[c].lineage,
             k |-> call[c].k, current |-> FALSE, stamp |-> FALSE]
       ELSE release[i]]
  /\ UNCHANGED list

Published(c) ==
  /\ call[c].kind = "publish"
  /\ release' = [i \in Id |->
       IF i \in call[c].row
       THEN [release[i] EXCEPT
               !.current = TRUE,
               !.stamp = IF call[c].was THEN @ ELSE ~@]
       ELSE IF i \in call[c].cleared
       THEN [release[i] EXCEPT !.current = FALSE]
       ELSE release[i]]
  /\ UNCHANGED list

Retired(c) ==
  /\ call[c].kind = "retire"
  /\ list' = [x \in Id \X Artist |->
                IF x[1] \in call[c].row THEN None ELSE list[x]]
  /\ release' = [i \in Id |->
                   IF call[c].cascade /\ i \in call[c].row
                   THEN None ELSE release[i]]

Limited(c) ==
  /\ call[c].kind = "limit"
  /\ release' = [i \in Id |-> IF i \in call[c].row
                              THEN [release[i] EXCEPT !.k = call[c].k]
                              ELSE release[i]]
  /\ UNCHANGED list

Written(c) ==
  /\ call[c].kind = "write"
  /\ list' = [x \in Id \X Artist |->
                IF x[1] \in call[c].row /\ x[2] = call[c].artist
                THEN call[c].length ELSE list[x]]
  /\ UNCHANGED release

Commit(c) ==
  /\ pc[c] = "commit"
  /\ Created(c) \/ Published(c) \/ Retired(c) \/ Limited(c) \/ Written(c)
  /\ Goto(c, "idle")
  /\ call' = [call EXCEPT ![c] = None]
  /\ UNCHANGED used

-----------------------------------------------------------------------------
Request(c) ==
  \/ \E v \in Version, l \in Lineage, k \in K : Create(c, v, l, k)
  \/ \E ref \in Reference : Publish(c, ref)
  \/ \E v \in Version, cascade \in BOOLEAN : Retire(c, v, cascade)
  \/ \E i \in Id, k \in K : ChangeLimit(c, i, k)
  \/ \E i \in Id, a \in Artist, n \in Length : WriteList(c, i, a, n)

Statement(c) == \/ LockTable(c) \/ CreateRow(c)
                \/ FindToPublish(c) \/ ClearCurrent(c) \/ SetCurrent(c)
                \/ FindToRetire(c) \/ SetLimit(c) \/ PutList(c) \/ Commit(c)

Next == \E c \in Caller : Request(c) \/ Statement(c) \/ Fail(c)

Spec == Init /\ [][Next]_vars

\* A statement that can run runs, and one that waits for a lock is queued
\* for it, so it gets it if it is released again and again.
Fairness == \A c \in Caller : SF_vars(Statement(c))
FairSpec == Spec /\ Fairness

-----------------------------------------------------------------------------
(* Properties.                                                             *)

\* catalog-api serves one release: never two, and each of a different model
\* version (postgres.py:7333-7336, 7291-7305).
OneCurrent ==
  /\ \A i, j \in Current : i = j
  /\ \A i, j \in Live : release[i].version = release[j].version => i = j

\* No list is longer than its release allows, whoever changes k or writes a
\* list at the same time, and none outlives its release (postgres.py:7338-7363).
ListsWithinK ==
  \A i \in Id, a \in Artist :
    list[i, a] # None => i \in Live /\ list[i, a] <= release[i].k

\* The lock publishers take first spares them the unique index: a flip that
\* found its release never fails on another caller's flip (postgres.py:8016).
FlipsNeverCollide ==
  \A c \in Caller : pc[c] = "set" => Current \subseteq call[c].cleared

\* Publishing is a flip: from the first publication on there is always one
\* current release and never two, publishers do not fail on each other, and
\* retiring takes neither the current release nor its lists
\* (postgres.py:8011-8018, 8104-8106).  published_at marks the flip: publishing
\* the current release again keeps it (8060-8061).
FlipIsAtomic ==
  [][/\ OneCurrent' /\ FlipsNeverCollide'
     /\ Current # {} => Current' # {}
     /\ \A i \in Current \intersect Current', a \in Artist :
          list[i, a] # None => list'[i, a] # None
     /\ \A i \in Live \intersect Live' :
          release'[i].stamp # release[i].stamp
            <=> release'[i].current /\ ~release[i].current]_vars

\* With one call per transaction the lock order (table, then row) lets every
\* call end (postgres.py:8017).
EveryCallEnds == \A c \in Caller : pc[c] # "idle" ~> pc[c] = "idle"
=============================================================================
