---------------------------- MODULE ActivityKeys ----------------------------
(***************************************************************************)
(* Event idempotency across partitions: activity.events, the key table     *)
(* activity.event_idempotency and the triggers between them, under READ    *)
(* COMMITTED.  Every statement of a trigger function is a step of its own: *)
(* it reads what is committed when it starts, and a statement that has to  *)
(* write a row some other transaction has written waits for that           *)
(* transaction to end (its guard is ~Locked).                              *)
(*                                                                         *)
(* A writer is one transaction inserting one event; writer and event share *)
(* their name.  The other actors are the initializer's convergence         *)
(* statement (Arm), retention (DropPartition and the purge) and            *)
(* catalog-api's erasure transaction.                                      *)
(***************************************************************************)
EXTENDS Naturals

CONSTANTS
  Tx,            \* writers, each inserting the event of the same name
  Subject,       \* pseudonymous subjects
  IdempotencyKey,
  Instant,       \* values of occurred_at
  Span,          \* instants per partition of activity.events
  Erasable,      \* the subjects somebody asks to erase
  PurgeBound,    \* the arguments purge_idempotency_keys is called with
  NoEvent        \* no row under a key

ASSUME InstantAssumption == Instant \subseteq Nat /\ Span \in Nat \ {0}
ASSUME BoundAssumption == PurgeBound \subseteq Nat /\ Erasable \subseteq Subject
ASSUME NoEventAssumption == NoEvent \notin Tx

VARIABLES
  row,       \* the columns each writer inserts
  pc,        \* where each writer is in its INSERT
  stored,    \* committed rows of activity.events
  pending,   \* rows of activity.events inserted by open transactions
  key,       \* committed rows of activity.event_idempotency: event_id by slot
  claimed,   \* writers holding an uncommitted key row naming their event
  held,      \* held_event_id of the trigger function's frame
  armed,     \* the claim trigger exists
  shadowed,  \* events stored when it was created, whose key names another one
  linked,    \* subjects with a row in activity.user_subjects
  eraser,    \* the open erasure transaction
  purger     \* the open purge

vars == <<row, pc, stored, pending, key, claimed, held, armed, shadowed,
          linked, eraser, purger>>
writers == <<row, pc, pending, claimed, held>>

Row == [subject : Subject, key : IdempotencyKey, at : Instant]
Slot == Subject \X IdempotencyKey     \* primary keys of event_idempotency

KeyOf(t) == <<row[t].subject, row[t].key>>
SameOccurrence(t, u) == row[t].at = row[u].at /\ row[t].key = row[u].key

Running == {"claim", "read", "check", "move", "insert", "inserted",
            "duplicate", "occupied"}
Ended == {"Stored", "Duplicate", "Occupied", "Aborted"}
InFlight == {t \in Tx : pc[t] \in Running}

Idle == "idle"
NoErasure == [phase |-> Idle, subject |-> {}, events |-> {}, keys |-> {},
              seen |-> {}, todo |-> {}]
NoPurge == [phase |-> Idle, bound |-> 0, keys |-> {}, seen |-> {}, todo |-> {}]

\* reject_key_mutation: what a transaction without the erasure bypass may not
\* change.
KeyRejected(e) == e \in stored

\* Slots whose row an open transaction has written.
WriterLocks == {KeyOf(t) : t \in claimed}
Locked(k) == k \in WriterLocks \union eraser.keys \union purger.keys

TypeOK ==
  /\ row \in [Tx -> Row]
  /\ pc \in [Tx -> Running \union Ended \union {Idle}]
  /\ stored \subseteq Tx /\ pending \subseteq Tx /\ claimed \subseteq Tx
  /\ key \in [Slot -> Tx \union {NoEvent}]
  /\ held \in [Tx -> Tx \union {NoEvent}]
  /\ armed \in BOOLEAN
  /\ shadowed \subseteq Tx
  /\ linked \subseteq Subject
  /\ eraser \in [phase : {Idle, "events", "keys"}, subject : SUBSET Subject,
                 events : SUBSET Tx, keys : SUBSET Slot, seen : SUBSET Tx,
                 todo : SUBSET Slot]
  /\ purger \in [phase : {Idle, "keys"}, bound : Nat, keys : SUBSET Slot,
                 seen : SUBSET Tx, todo : SUBSET Slot]

\* A database created by this schema has the trigger from the start; one
\* created before it has not.
Init ==
  /\ row \in [Tx -> Row]
  /\ pc = [t \in Tx |-> Idle]
  /\ stored = {} /\ pending = {} /\ claimed = {}
  /\ key = [k \in Slot |-> NoEvent]
  /\ held = [t \in Tx |-> NoEvent]
  /\ armed \in BOOLEAN
  /\ shadowed = {}
  /\ linked = Subject
  /\ eraser = NoErasure
  /\ purger = NoPurge

-----------------------------------------------------------------------------
(* The writer's INSERT and its BEFORE ROW trigger claim_idempotency_key.   *)

Goto(t, where) == pc' = [pc EXCEPT ![t] = where]
rest == <<stored, key, armed, shadowed, linked, eraser, purger>>

\* The statement starts and the trigger looks for the occupant of the
\* occurrence key.  A writer reaches a subject through its link.
Submit(t) ==
  /\ pc[t] = Idle
  /\ row[t].subject \in linked
  /\ LET occupants == {e \in stored : SameOccurrence(e, t)} IN
       Goto(t, IF ~armed THEN "insert"
               ELSE IF occupants = {} THEN "claim"
               ELSE IF \E e \in occupants : row[e].subject = row[t].subject
                    THEN "duplicate"
               ELSE "insert")
  /\ UNCHANGED <<row, pending, claimed, held, rest>>

\* INSERT ... ON CONFLICT DO NOTHING into event_idempotency.
\* Mutant: the outcome of ON CONFLICT DO NOTHING is not looked at.
ClaimUnchecked(t) ==
  /\ pc[t] = "claim"
  /\ ~Locked(KeyOf(t))
  /\ claimed' = IF key[KeyOf(t)] = NoEvent THEN claimed \union {t} ELSE claimed
  /\ Goto(t, "insert")
  /\ UNCHANGED <<row, pending, held, rest>>
ClaimKey(t) ==
  /\ pc[t] = "claim"
  /\ ~Locked(KeyOf(t))
  /\ IF key[KeyOf(t)] = NoEvent
     THEN claimed' = claimed \union {t} /\ Goto(t, "insert")
     ELSE Goto(t, "read") /\ UNCHANGED claimed
  /\ UNCHANGED <<row, pending, held, rest>>

\* Mutants: another column is read; a deleted row is read again for ever.
ReadAnotherColumn(t) ==
  /\ pc[t] = "read"
  /\ held' = [held EXCEPT ![t] = KeyOf(t)]
  /\ Goto(t, IF key[KeyOf(t)] = NoEvent THEN "claim" ELSE "check")
  /\ UNCHANGED <<row, pending, claimed, rest>>
ReadAgain(t) ==
  /\ pc[t] = "read"
  /\ held' = [held EXCEPT ![t] = key[KeyOf(t)]]
  /\ Goto(t, IF key[KeyOf(t)] = NoEvent THEN "read" ELSE "check")
  /\ UNCHANGED <<row, pending, claimed, rest>>

\* SELECT held.event_id ...: a row deleted meanwhile sends the loop round.
ReadKey(t) ==
  /\ pc[t] = "read"
  /\ held' = [held EXCEPT ![t] = key[KeyOf(t)]]
  /\ Goto(t, IF key[KeyOf(t)] = NoEvent THEN "claim" ELSE "check")
  /\ UNCHANGED <<row, pending, claimed, rest>>

\* Mutant: a key is trusted to name a stored event.
TrustKey(t) ==
  /\ pc[t] = "check"
  /\ Goto(t, "duplicate")
  /\ UNCHANGED <<row, pending, claimed, held, rest>>

\* IF EXISTS (the event the key names) THEN RETURN NULL.
CheckHolder(t) ==
  /\ pc[t] = "check"
  /\ Goto(t, IF held[t] \in stored THEN "duplicate" ELSE "move")
  /\ UNCHANGED <<row, pending, claimed, held, rest>>

\* UPDATE ... WHERE held.event_id = held_event_id, and the trigger
\* reject_key_mutation it fires.
MoveKey(t) ==
  /\ pc[t] = "move"
  /\ ~Locked(KeyOf(t))
  /\ IF key[KeyOf(t)] # held[t]
     THEN Goto(t, "claim") /\ UNCHANGED claimed
     ELSE IF KeyRejected(held[t])
     THEN Goto(t, "Aborted") /\ UNCHANGED claimed
     ELSE claimed' = claimed \union {t} /\ Goto(t, "insert")
  /\ UNCHANGED <<row, pending, held, rest>>

\* The row meets UNIQUE (occurred_at, idempotency_key): it waits for an open
\* insert or delete of the same occurrence key, then it is stored, skipped
\* (ON CONFLICT) or refused (a plain INSERT raises and rolls back).
InsertRow(t) ==
  /\ pc[t] = "insert"
  /\ \A u \in pending \union eraser.events : ~SameOccurrence(t, u)
  /\ IF \A e \in stored : ~SameOccurrence(t, e)
     THEN /\ pending' = pending \union {t}
          /\ Goto(t, "inserted")
          /\ UNCHANGED claimed
     ELSE /\ \/ Goto(t, "occupied") /\ UNCHANGED claimed
             \/ Goto(t, "Aborted") /\ claimed' = claimed \ {t}
          /\ UNCHANGED pending
  /\ UNCHANGED <<row, held, rest>>

CommitWriter(t) ==
  /\ pc[t] \in {"inserted", "duplicate", "occupied"}
  /\ Goto(t, CASE pc[t] = "inserted" -> "Stored"
               [] pc[t] = "duplicate" -> "Duplicate"
               [] pc[t] = "occupied" -> "Occupied")
  /\ stored' = stored \union (pending \intersect {t})
  /\ key' = IF t \in claimed THEN [key EXCEPT ![KeyOf(t)] = t] ELSE key
  /\ pending' = pending \ {t}
  /\ claimed' = claimed \ {t}
  /\ UNCHANGED <<row, held, armed, shadowed, linked, eraser, purger>>

\* An error elsewhere, a lost connection or an explicit ROLLBACK.
AbortWriter(t) ==
  /\ pc[t] \in Running
  /\ Goto(t, "Aborted")
  /\ pending' = pending \ {t}
  /\ claimed' = claimed \ {t}
  /\ UNCHANGED <<row, held, rest>>

-----------------------------------------------------------------------------
(* Operations that lock activity.events against every writer.              *)

\* The initializer's DO block: SHARE ROW EXCLUSIVE on the events, backfill,
\* trigger.  The earliest occurrence takes each key.
Arm ==
  /\ ~armed
  /\ InFlight = {} /\ eraser.phase = Idle
  /\ LET earliest == {e \in stored : \A f \in stored :
                        KeyOf(f) = KeyOf(e) => row[e].at <= row[f].at}
     IN /\ key' = [k \in Slot |->
                     IF key[k] = NoEvent /\ \E e \in earliest : KeyOf(e) = k
                     THEN CHOOSE e \in earliest : KeyOf(e) = k
                     ELSE key[k]]
        /\ shadowed' = {e \in stored : key'[KeyOf(e)] # e}
  /\ armed' = TRUE
  /\ UNCHANGED <<writers, stored, linked, eraser, purger>>

\* Retention drops a whole partition: DDL, so no row trigger fires.
DropPartition(p) ==
  /\ InFlight = {} /\ eraser.phase = Idle /\ purger.phase = Idle
  /\ \E e \in stored : row[e].at \div Span = p
  /\ stored' = {e \in stored : row[e].at \div Span # p}
  /\ UNCHANGED <<writers, key, armed, shadowed, linked, eraser, purger>>

-----------------------------------------------------------------------------
(* purge_idempotency_keys(older_than): one DELETE.  It collects its        *)
(* candidates on the statement's snapshot; a candidate some transaction    *)
(* has written is waited for and checked again, on the row's new version   *)
(* but on the same snapshot of activity.events; reject_key_mutation then   *)
(* looks with a snapshot of its own.                                       *)

PurgeScan(bound) ==
  /\ purger.phase = Idle
  /\ LET old == {k \in Slot : /\ key[k] # NoEvent
                              /\ row[key[k]].at < bound
                              /\ key[k] \notin stored}
     IN /\ old # {}
        /\ purger' = [phase |-> "keys", bound |-> bound, keys |-> {},
                      seen |-> stored, todo |-> old]
  /\ UNCHANGED <<writers, stored, key, armed, shadowed, linked, eraser>>

\* Mutant: reject_key_mutation is not there.
PurgeUnguarded(k) ==
  /\ purger.phase = "keys" /\ k \in purger.todo
  /\ ~Locked(k)
  /\ purger' = IF /\ key[k] # NoEvent /\ row[key[k]].at < purger.bound
                  /\ key[k] \notin purger.seen
               THEN [purger EXCEPT !.todo = @ \ {k}, !.keys = @ \union {k}]
               ELSE [purger EXCEPT !.todo = @ \ {k}]
  /\ UNCHANGED <<writers, stored, key, armed, shadowed, linked, eraser>>
PurgeKey(k) ==
  /\ purger.phase = "keys" /\ k \in purger.todo
  /\ ~Locked(k)
  /\ LET matches == /\ key[k] # NoEvent
                    /\ row[key[k]].at < purger.bound
                    /\ key[k] \notin purger.seen
     IN purger' = IF ~matches
                  THEN [purger EXCEPT !.todo = @ \ {k}]
                  ELSE IF KeyRejected(key[k])
                  THEN NoPurge
                  ELSE [purger EXCEPT !.todo = @ \ {k}, !.keys = @ \union {k}]
  /\ UNCHANGED <<writers, stored, key, armed, shadowed, linked, eraser>>

PurgeCommit ==
  /\ purger.phase = "keys" /\ purger.todo = {}
  /\ key' = [k \in Slot |-> IF k \in purger.keys THEN NoEvent ELSE key[k]]
  /\ purger' = NoPurge
  /\ UNCHANGED <<writers, stored, armed, shadowed, linked, eraser>>

PurgeAbort ==
  /\ purger.phase = "keys"
  /\ purger' = NoPurge
  /\ UNCHANGED <<writers, stored, key, armed, shadowed, linked, eraser>>

-----------------------------------------------------------------------------
(* The erasure transaction, under SET LOCAL groovemap.erasure = 'on', so   *)
(* neither rejecting trigger protects anything from it.                    *)

\* DELETE FROM activity.events WHERE subject_id = s; the AFTER DELETE trigger
\* release_idempotency_key deletes the keys naming the deleted events.
EraseEvents(s) ==
  /\ eraser.phase = Idle
  /\ s \in linked
  /\ LET gone == {e \in stored : row[e].subject = s}
         released == {KeyOf(e) : e \in {f \in gone : key[KeyOf(f)] = f}}
     IN /\ \A k \in released : ~Locked(k)
        /\ eraser' = [phase |-> "events", subject |-> {s}, events |-> gone,
                      keys |-> released, seen |-> {}, todo |-> {}]
  /\ UNCHANGED <<writers, stored, key, armed, shadowed, linked, purger>>

\* DELETE FROM activity.user_subjects: the AFTER DELETE trigger
\* release_subject_idempotency_keys collects the subject's keys that name no
\* stored event, on its statement's snapshot.
EraseLink ==
  /\ eraser.phase = "events"
  /\ LET seen == stored \ eraser.events IN
       eraser' = [eraser EXCEPT
         !.phase = "keys",
         !.seen = seen,
         !.todo = {k \in (eraser.subject \X IdempotencyKey) \ eraser.keys :
                     key[k] # NoEvent /\ key[k] \notin seen}]
  /\ UNCHANGED <<writers, stored, key, armed, shadowed, linked, purger>>

EraseKey(k) ==
  /\ eraser.phase = "keys" /\ k \in eraser.todo
  /\ ~Locked(k)
  /\ eraser' = IF key[k] # NoEvent /\ key[k] \notin eraser.seen
               THEN [eraser EXCEPT !.todo = @ \ {k}, !.keys = @ \union {k}]
               ELSE [eraser EXCEPT !.todo = @ \ {k}]
  /\ UNCHANGED <<writers, stored, key, armed, shadowed, linked, purger>>

\* Mutant: the released keys stay.
EraseCommitKeepsKeys ==
  /\ eraser.phase = "keys" /\ eraser.todo = {}
  /\ stored' = stored \ eraser.events
  /\ linked' = linked \ eraser.subject
  /\ eraser' = NoErasure
  /\ UNCHANGED <<writers, key, armed, shadowed, purger>>
EraseCommit ==
  /\ eraser.phase = "keys" /\ eraser.todo = {}
  /\ stored' = stored \ eraser.events
  /\ key' = [k \in Slot |-> IF k \in eraser.keys THEN NoEvent ELSE key[k]]
  /\ linked' = linked \ eraser.subject
  /\ eraser' = NoErasure
  /\ UNCHANGED <<writers, armed, shadowed, purger>>

EraseAbort ==
  /\ eraser.phase # Idle
  /\ eraser' = NoErasure
  /\ UNCHANGED <<writers, stored, key, armed, shadowed, linked, purger>>

-----------------------------------------------------------------------------
\* Nothing left to do: the model stops here, and nowhere else.
Finished ==
  /\ \A t \in Tx : pc[t] \in Ended \/ row[t].subject \notin linked
  /\ eraser.phase = Idle /\ purger.phase = Idle
  /\ UNCHANGED vars

WriterStep(t) == Submit(t) \/ ClaimKey(t) \/ ReadKey(t) \/ CheckHolder(t)
                   \/ MoveKey(t) \/ InsertRow(t) \/ CommitWriter(t)
PurgeStep == (\E k \in Slot : PurgeKey(k)) \/ PurgeCommit
EraseStep == EraseLink \/ (\E k \in Slot : EraseKey(k)) \/ EraseCommit

Next ==
  \/ \E t \in Tx : WriterStep(t) \/ AbortWriter(t)
  \/ Arm
  \/ \E i \in Instant : DropPartition(i \div Span)
  \/ \E b \in PurgeBound : PurgeScan(b)
  \/ PurgeStep \/ PurgeAbort
  \/ \E s \in Erasable : EraseEvents(s)
  \/ EraseStep \/ EraseAbort
  \/ Finished

Spec == Init /\ [][Next]_vars

\* A statement that can run runs, and one that waits for a row gets it when
\* it is released again and again: PostgreSQL wakes the waiters of a
\* transaction when it ends.  Nobody has to start, roll back or abort.
Fairness ==
  /\ \A t \in Tx : SF_vars(WriterStep(t) /\ pc[t] # Idle)
  /\ SF_vars(PurgeStep)
  /\ SF_vars(EraseStep)

FairSpec == Spec /\ Fairness

-----------------------------------------------------------------------------
(* Properties.                                                             *)

\* Deduplication works because every stored event is the one its key names
\* (postgres.py:1763), duplicates older than the trigger apart, as long as no
\* erasure has committed: whatever rolled back, was purged or dropped in
\* between, the next retry finds it.
KeyNamesStored ==
  armed /\ linked = Subject => \A e \in stored \ shadowed : key[KeyOf(e)] = e

\* An INSERT is skipped without an error only if its event, or the event that
\* occupies its occurrence key, was committed: no write is lost to one that
\* rolled back (postgres.py:1593-1605).
SkipJustified ==
  \A t \in Tx :
    /\ pc[t] \in {"duplicate", "Duplicate"} =>
         \E e \in Tx \ {t} : pc[e] = "Stored" /\ KeyOf(e) = KeyOf(t)
    /\ pc[t] \in {"occupied", "Occupied"} =>
         \E e \in Tx \ {t} : pc[e] = "Stored" /\ SameOccurrence(e, t)

\* A key is as immutable as the event it names: no purge, move or release
\* takes a key whose event stays stored (postgres.py:1540, 1697, 1732).
KeysStay ==
  \A k \in Slot : key[k] \in stored /\ key'[k] # key[k] => key[k] \notin stored'
HeldKeyStays == [][KeysStay]_vars

\* Nothing is lost, no event to a skipped INSERT and no key to another row.
NothingLost == [][SkipJustified' /\ KeysStay]_vars

\* An erasure that deletes an event deletes the key naming it in the same
\* commit, without listing the key table, and takes no live key of another
\* subject (postgres.py:1666-1668).
ErasureExact ==
  [][/\ eraser.phase = "keys" =>
          \A e \in stored \ stored' : \A k \in Slot : key'[k] # e
     /\ \A k \in Slot : key[k] \in stored' /\ key'[k] # key[k]
                           => k[1] \in eraser.subject]_vars

\* Nothing waits for ever: the claim loop ends, and so do the purge and the
\* erasure it waits for (postgres.py:1602-1605).
EveryoneSettles ==
  /\ \A t \in Tx : pc[t] \in Running ~> pc[t] \in Ended
  /\ purger.phase # Idle ~> purger.phase = Idle
  /\ eraser.phase # Idle ~> eraser.phase = Idle

\* The key table implements deduplication (without erasures).
Dedup == INSTANCE EventDedup WITH
  Event <- Tx, log <- stored, inForce <- armed, tolerated <- shadowed
DedupSpec == Dedup!Spec
=============================================================================
