------------------------- MODULE ActivityKeysProofs -------------------------
(***************************************************************************)
(* Proofs about ActivityKeys: type correctness, and that until an erasure  *)
(* commits every stored event is the one its key names; and, on top of     *)
(* that invariant, what the keys are for: no INSERT is skipped for an      *)
(* event that was never committed, the key table implements EventDedup,    *)
(* and an erasure takes exactly its own keys.                              *)
(***************************************************************************)
EXTENDS ActivityKeys, TLAPS, WellFoundedInduction

\* A slot is a subject and an idempotency key.
LEMMA KeyOfType ==
  ASSUME TypeOK, NEW t \in Tx
  PROVE  KeyOf(t) \in Slot
BY DEF TypeOK, KeyOf, Slot, Row

\* Nothing is recorded under NoEvent.
LEMMA NoEventStored ==
  ASSUME TypeOK
  PROVE  NoEvent \notin stored
BY NoEventAssumption DEF TypeOK

-----------------------------------------------------------------------------
(* Type correctness, one actor at a time.                                  *)

\* The initial states are well typed.
LEMMA TypeInit == Init => TypeOK
<1> SUFFICES ASSUME Init PROVE TypeOK
  OBVIOUS
<1>1. eraser \in [phase : {Idle, "events", "keys"}, subject : SUBSET Subject,
                  events : SUBSET Tx, keys : SUBSET Slot, seen : SUBSET Tx,
                  todo : SUBSET Slot]
  BY DEF Init, NoErasure
<1>2. purger \in [phase : {Idle, "keys"}, bound : Nat, keys : SUBSET Slot,
                  seen : SUBSET Tx, todo : SUBSET Slot]
  BY DEF Init, NoPurge
<1>3. QED
  BY <1>1, <1>2 DEF Init, TypeOK

\* A step of a writer preserves the types.
LEMMA TypeWriter ==
  ASSUME TypeOK, NEW t \in Tx, WriterStep(t) \/ AbortWriter(t)
  PROVE  TypeOK'
<1> USE DEF TypeOK, Goto, rest, Running, Ended
<1>k. KeyOf(t) \in Slot
  BY KeyOfType
<1>1. CASE Submit(t)
  BY <1>1 DEF Submit
<1>2. CASE ClaimKey(t)
  BY <1>2 DEF ClaimKey
<1>3. CASE ReadKey(t)
  BY <1>3, <1>k DEF ReadKey
<1>4. CASE CheckHolder(t)
  BY <1>4 DEF CheckHolder
<1>5. CASE MoveKey(t)
  BY <1>5 DEF MoveKey, KeyRejected
<1>6. CASE InsertRow(t)
  BY <1>6 DEF InsertRow
<1>7. CASE CommitWriter(t)
  BY <1>7, <1>k DEF CommitWriter
<1>8. CASE AbortWriter(t)
  BY <1>8 DEF AbortWriter
<1>9. QED
  BY <1>1, <1>2, <1>3, <1>4, <1>5, <1>6, <1>7, <1>8 DEF WriterStep

\* So do the initializer and retention.
LEMMA TypeTable ==
  ASSUME TypeOK,
         \/ Arm
         \/ \E i \in Instant : DropPartition(i \div Span)
         \/ \E b \in PurgeBound : PurgeScan(b)
         \/ PurgeStep \/ PurgeAbort
  PROVE  TypeOK'
<1>1. CASE Arm
  <2> DEFINE earliest == {e \in stored : \A f \in stored :
                            KeyOf(f) = KeyOf(e) => row[e].at <= row[f].at}
  <2>1. ASSUME NEW k \in Slot, \E e \in earliest : KeyOf(e) = k
        PROVE  (CHOOSE e \in earliest : KeyOf(e) = k) \in Tx
    <3>1. (CHOOSE e \in earliest : KeyOf(e) = k) \in earliest
      BY <2>1
    <3>2. QED
      BY <3>1 DEF TypeOK
  <2>2. key' = [k \in Slot |->
                  IF key[k] = NoEvent /\ \E e \in earliest : KeyOf(e) = k
                  THEN CHOOSE e \in earliest : KeyOf(e) = k
                  ELSE key[k]]
    BY <1>1 DEF Arm
  <2> HIDE DEF earliest
  <2>3. key' \in [Slot -> Tx \union {NoEvent}]
    BY <2>1, <2>2 DEF TypeOK
  <2>4. shadowed' \subseteq Tx
    BY <1>1 DEF Arm, TypeOK
  <2>5. QED
    BY <1>1, <2>3, <2>4 DEF Arm, TypeOK, writers
<1>2. CASE \E i \in Instant : DropPartition(i \div Span)
  BY <1>2 DEF DropPartition, TypeOK, writers
<1>3. CASE \E b \in PurgeBound : PurgeScan(b)
  BY <1>3, BoundAssumption DEF PurgeScan, TypeOK, writers
<1>4. CASE \E k \in Slot : PurgeKey(k)
  <2> PICK k \in Slot : PurgeKey(k)
    BY <1>4
  <2>1. \/ purger' = NoPurge
        \/ purger' = [purger EXCEPT !.todo = @ \ {k}]
        \/ purger' = [purger EXCEPT !.todo = @ \ {k}, !.keys = @ \union {k}]
    BY DEF PurgeKey, KeyRejected
  <2>2. UNCHANGED <<writers, stored, key, armed, shadowed, linked, eraser>>
    BY DEF PurgeKey, KeyRejected
  <2>3. purger' \in [phase : {Idle, "keys"}, bound : Nat, keys : SUBSET Slot,
                     seen : SUBSET Tx, todo : SUBSET Slot]
    <3> USE DEF TypeOK
    <3>1. CASE purger' = NoPurge
      BY <3>1 DEF NoPurge
    <3>2. CASE purger' = [purger EXCEPT !.todo = @ \ {k}]
      BY <3>2
    <3>3. CASE purger' = [purger EXCEPT !.todo = @ \ {k}, !.keys = @ \union {k}]
      BY <3>3
    <3>4. QED
      BY <2>1, <3>1, <3>2, <3>3
  <2>4. QED
    BY <2>2, <2>3 DEF TypeOK, writers
<1>5. CASE PurgeCommit
  BY <1>5 DEF PurgeCommit, NoPurge, TypeOK, writers
<1>6. CASE PurgeAbort
  BY <1>6 DEF PurgeAbort, NoPurge, TypeOK, writers
<1>7. QED
  BY <1>1, <1>2, <1>3, <1>4, <1>5, <1>6 DEF PurgeStep

\* And catalog-api's erasure.
LEMMA TypeErasure ==
  ASSUME TypeOK,
         (\E s \in Erasable : EraseEvents(s)) \/ EraseStep \/ EraseAbort
  PROVE  TypeOK'
<1>1. CASE \E s \in Erasable : EraseEvents(s)
  <2> PICK s \in Erasable : EraseEvents(s)
    BY <1>1
  <2> DEFINE gone == {e \in stored : row[e].subject = s}
             released == {KeyOf(e) : e \in {f \in gone : key[KeyOf(f)] = f}}
  <2>1. released \subseteq Slot
    BY KeyOfType DEF TypeOK
  <2>2. eraser' = [phase |-> "events", subject |-> {s}, events |-> gone,
                   keys |-> released, seen |-> {}, todo |-> {}]
    BY DEF EraseEvents
  <2>3. gone \subseteq Tx /\ {s} \subseteq Subject
    BY BoundAssumption DEF TypeOK
  <2>4. UNCHANGED <<writers, stored, key, armed, shadowed, linked, purger>>
    BY DEF EraseEvents
  <2> HIDE DEF gone, released
  <2>5. QED
    BY <2>1, <2>2, <2>3, <2>4 DEF TypeOK, writers
<1>2. CASE EraseLink
  <2>1. {k \in (eraser.subject \X IdempotencyKey) \ eraser.keys :
           key[k] # NoEvent /\ key[k] \notin (stored \ eraser.events)}
          \subseteq Slot
    BY DEF TypeOK, Slot
  <2>2. QED
    BY <1>2, <2>1 DEF EraseLink, TypeOK, writers
<1>3. CASE \E k \in Slot : EraseKey(k)
  <2> PICK k \in Slot : EraseKey(k)
    BY <1>3
  <2>1. \/ eraser' = [eraser EXCEPT !.todo = @ \ {k}]
        \/ eraser' = [eraser EXCEPT !.todo = @ \ {k}, !.keys = @ \union {k}]
    BY DEF EraseKey
  <2>2. UNCHANGED <<writers, stored, key, armed, shadowed, linked, purger>>
    BY DEF EraseKey
  <2>3. eraser' \in [phase : {Idle, "events", "keys"}, subject : SUBSET Subject,
                     events : SUBSET Tx, keys : SUBSET Slot, seen : SUBSET Tx,
                     todo : SUBSET Slot]
    <3> USE DEF TypeOK
    <3>1. CASE eraser' = [eraser EXCEPT !.todo = @ \ {k}]
      BY <3>1
    <3>2. CASE eraser' = [eraser EXCEPT !.todo = @ \ {k}, !.keys = @ \union {k}]
      BY <3>2
    <3>3. QED
      BY <2>1, <3>1, <3>2
  <2>4. QED
    BY <2>2, <2>3 DEF TypeOK, writers
<1>4. CASE EraseCommit
  BY <1>4 DEF EraseCommit, NoErasure, TypeOK, writers
<1>5. CASE EraseAbort
  BY <1>5 DEF EraseAbort, NoErasure, TypeOK, writers
<1>6. QED
  BY <1>1, <1>2, <1>3, <1>4, <1>5 DEF EraseStep

\* Types are preserved by every step.
LEMMA TypeStep == TypeOK /\ [Next]_vars => TypeOK'
<1> SUFFICES ASSUME TypeOK, [Next]_vars PROVE TypeOK'
  OBVIOUS
<1>1. ASSUME NEW t \in Tx, WriterStep(t) \/ AbortWriter(t) PROVE TypeOK'
  BY <1>1, TypeWriter
<1>2. CASE Finished \/ UNCHANGED vars
  BY <1>2 DEF Finished, vars, TypeOK
<1>3. QED
  BY <1>1, <1>2, TypeTable, TypeErasure DEF Next

\* Every variable keeps its type, whatever the constants are.
THEOREM TypeCorrect == Spec => []TypeOK
BY TypeInit, TypeStep, PTL DEF Spec

-----------------------------------------------------------------------------
(* The key of every stored event names it.  The invariant says who may have *)
(* an uncommitted key, what such a key can take the place of, and that an   *)
(* event is not inserted unclaimed once the trigger exists.                 *)

\* Uncommitted rows and keys belong to writers at the right place, and a
\* stored event to a writer that has committed.
Places ==
  /\ \A t \in pending : pc[t] = "inserted"
  /\ \A t \in claimed : pc[t] \in {"insert", "inserted", "occupied"}
  /\ \A t \in stored : pc[t] = "Stored"

\* A key row has one uncommitted writer at most.
Exclusive ==
  /\ \A t, u \in claimed : KeyOf(t) = KeyOf(u) => t = u
  /\ \A t \in claimed : KeyOf(t) \notin eraser.keys \union purger.keys
  /\ eraser.keys \intersect purger.keys = {}
  /\ eraser.phase # Idle => eraser.subject # {}

\* No key names an event that is still being inserted.
KeysSettled == \A k \in Slot : key[k] # NoEvent => pc[key[k]] \in Ended

\* A key that is being claimed or purged names no stored event.
NothingHeldIsTaken ==
  /\ \A t \in claimed : key[KeyOf(t)] \notin stored
  /\ \A k \in purger.keys : key[k] # NoEvent /\ key[k] \notin stored

\* With the trigger in place, a row that is inserted has its key claimed; one
\* that is not claimed meets the event that occupies its occurrence key.
ClaimsComeFirst ==
  armed /\ linked = Subject =>
    /\ pending \subseteq claimed
    /\ \A t \in Tx \ claimed :
         pc[t] = "insert" => \E e \in stored : SameOccurrence(t, e)

KeyInv ==
  /\ TypeOK /\ Places /\ Exclusive /\ KeysSettled /\ NothingHeldIsTaken
  /\ ClaimsComeFirst /\ KeyNamesStored

\* The inductive invariant holds before anybody has done anything.
LEMMA KeyInvInit == Init => KeyInv
<1> SUFFICES ASSUME Init PROVE KeyInv
  OBVIOUS
<1>1. TypeOK
  BY TypeInit
<1>2. Places /\ Exclusive /\ KeysSettled /\ NothingHeldIsTaken
  BY DEF Init, NoErasure, NoPurge, Places, Exclusive, KeysSettled,
         NothingHeldIsTaken
<1>3. ClaimsComeFirst /\ KeyNamesStored
  BY DEF Init, Idle, ClaimsComeFirst, KeyNamesStored
<1>4. QED
  BY <1>1, <1>2, <1>3 DEF KeyInv

\* A writer that has not committed yet is no stored event's.
LEMMA InFlightNotStored ==
  ASSUME KeyInv, NEW t \in Tx, pc[t] # "Stored"
  PROVE  t \notin stored
BY DEF KeyInv, Places

\* A writer's step that neither inserts a row nor commits keeps the invariant
\* if any key it claims is free to be claimed and an unclaimed row it goes on
\* to insert meets an occupant.
LEMMA KeyInvGoto ==
  ASSUME KeyInv, NEW t \in Tx, TypeOK',
         pc[t] \in Running \union {Idle}, pc[t] \notin {"insert", "inserted"},
         NEW where \in Running \union Ended, where \notin {"inserted", "Stored"},
         Goto(t, where),
         UNCHANGED <<row, pending, stored, key, armed, shadowed, linked, eraser, purger>>,
         \/ claimed' = claimed /\ t \notin claimed
         \/ /\ claimed' = claimed \union {t} /\ where = "insert"
            /\ ~Locked(KeyOf(t)) /\ key[KeyOf(t)] \notin stored,
         armed /\ where = "insert" /\ t \notin claimed' =>
           \E e \in stored : SameOccurrence(t, e)
  PROVE  KeyInv'
<1> USE DEF KeyInv
<1>1. /\ pc' = [pc EXCEPT ![t] = where]
      /\ \A u \in Tx : pc'[u] = IF u = t THEN where ELSE pc[u]
  BY DEF Goto, TypeOK
<1>2. \A u \in Tx : KeyOf(u)' = KeyOf(u)
  BY DEF KeyOf
<1>3. t \notin pending /\ t \notin stored
  BY DEF Places, Running, Idle
<1>4. Places'
  BY <1>1, <1>3 DEF Places, TypeOK
<1>5. Exclusive'
  BY <1>2 DEF Exclusive, TypeOK, Locked, WriterLocks
<1>6. KeysSettled'
  BY <1>1 DEF KeysSettled, TypeOK, Running, Ended, Idle
<1>7. NothingHeldIsTaken'
  BY <1>2 DEF NothingHeldIsTaken, TypeOK
<1>8. ClaimsComeFirst'
  BY <1>1 DEF ClaimsComeFirst, TypeOK, SameOccurrence
<1>9. KeyNamesStored'
  BY <1>2 DEF KeyNamesStored, TypeOK
<1>10. QED
  BY <1>4, <1>5, <1>6, <1>7, <1>8, <1>9

\* A transaction that rolls back takes its row and its key with it.
LEMMA KeyInvRollback ==
  ASSUME KeyInv, NEW t \in Tx, TypeOK', pc[t] \in Running,
         Goto(t, "Aborted"), pending' = pending \ {t}, claimed' = claimed \ {t},
         UNCHANGED <<row, stored, key, armed, shadowed, linked, eraser, purger>>
  PROVE  KeyInv'
<1> USE DEF KeyInv
<1>1. \A u \in Tx : pc'[u] = IF u = t THEN "Aborted" ELSE pc[u]
  BY DEF Goto, TypeOK
<1>2. \A u \in Tx : KeyOf(u)' = KeyOf(u)
  BY DEF KeyOf
<1>3. t \notin stored
  BY DEF Places, Running
<1>4. Places'
  BY <1>1, <1>3 DEF Places, TypeOK
<1>5. Exclusive'
  BY <1>2 DEF Exclusive, TypeOK
<1>6. KeysSettled'
  BY <1>1 DEF KeysSettled, TypeOK, Ended
<1>7. NothingHeldIsTaken'
  BY <1>2 DEF NothingHeldIsTaken, TypeOK
<1>8. ClaimsComeFirst'
  BY <1>1 DEF ClaimsComeFirst, TypeOK, SameOccurrence
<1>9. KeyNamesStored'
  BY <1>2 DEF KeyNamesStored, TypeOK
<1>10. QED
  BY <1>4, <1>5, <1>6, <1>7, <1>8, <1>9

\* The row is inserted, or it is refused by the event that occupies its
\* occurrence key.
LEMMA KeyInvInsert ==
  ASSUME KeyInv, NEW t \in Tx, TypeOK', InsertRow(t)
  PROVE  KeyInv'
<1> USE DEF KeyInv
<1>1. pc[t] = "insert" /\ pc[t] \in Running
  BY DEF InsertRow, Running
<1>2. UNCHANGED <<row, stored, key, armed, shadowed, linked, eraser, purger>>
  BY DEF InsertRow, rest
<1>3. CASE Goto(t, "Aborted") /\ claimed' = claimed \ {t} /\ pending' = pending
  <2>1. t \notin pending
    BY <1>1 DEF Places
  <2>2. QED
    BY <1>1, <1>2, <1>3, <2>1, KeyInvRollback
<1>4. ASSUME NEW where \in {"inserted", "occupied"}, Goto(t, where),
             claimed' = claimed,
             \/ pending' = pending
             \/ /\ pending' = pending \union {t} /\ where = "inserted"
                /\ \A e \in stored : ~SameOccurrence(t, e)
      PROVE  KeyInv'
  <2>1. \A u \in Tx : pc'[u] = IF u = t THEN where ELSE pc[u]
    BY <1>4 DEF Goto, TypeOK
  <2>2. \A u \in Tx : KeyOf(u)' = KeyOf(u)
    BY <1>2 DEF KeyOf
  <2>3. Places'
    BY <1>1, <1>2, <1>4, <2>1 DEF Places, TypeOK
  <2>4. Exclusive' /\ NothingHeldIsTaken' /\ KeyNamesStored'
    BY <1>2, <1>4, <2>2 DEF Exclusive, NothingHeldIsTaken, KeyNamesStored, TypeOK
  <2>5. KeysSettled'
    BY <1>1, <1>2, <1>4, <2>1 DEF KeysSettled, TypeOK, Ended
  <2>6. ClaimsComeFirst'
    BY <1>1, <1>2, <1>4, <2>1 DEF ClaimsComeFirst, TypeOK, SameOccurrence
  <2>7. QED
    BY <2>3, <2>4, <2>5, <2>6
<1>5. QED
  BY <1>3, <1>4 DEF InsertRow

\* The commit of a row stores it with its key.
LEMMA KeyInvCommit ==
  ASSUME KeyInv, NEW t \in Tx, TypeOK', CommitWriter(t)
  PROVE  KeyInv'
<1> USE DEF KeyInv
<1> DEFINE end == pc'[t]
<1>1. /\ \A u \in Tx : pc'[u] = IF u = t THEN end ELSE pc[u]
      /\ end \in Ended /\ (pc[t] = "inserted" => end = "Stored")
  BY DEF CommitWriter, Goto, TypeOK, Ended
<1>2. UNCHANGED <<row, armed, shadowed, linked, eraser, purger>>
  BY DEF CommitWriter
<1>3. \A u \in Tx : KeyOf(u)' = KeyOf(u) /\ KeyOf(u) \in Slot
  BY <1>2, KeyOfType DEF KeyOf
<1>4. /\ stored' = stored \union (pending \intersect {t})
      /\ pending' = pending \ {t} /\ claimed' = claimed \ {t}
      /\ t \in claimed => key' = [key EXCEPT ![KeyOf(t)] = t]
      /\ t \notin claimed => key' = key
  BY DEF CommitWriter
<1>5. pc[t] \in {"inserted", "duplicate", "occupied"} /\ t \notin stored
  BY DEF CommitWriter, Places
<1>6. \A k \in Slot : key'[k] = IF t \in claimed /\ k = KeyOf(t) THEN t ELSE key[k]
  BY <1>3, <1>4 DEF TypeOK
<1>7. \A k \in Slot : key[k] # t
  BY <1>5, NoEventAssumption DEF KeysSettled, Ended
<1> HIDE DEF end
<1>8. Places'
  BY <1>1, <1>4, <1>5 DEF Places, TypeOK
<1>9. Exclusive'
  BY <1>2, <1>3, <1>4 DEF Exclusive, TypeOK
<1>10. KeysSettled'
  BY <1>1, <1>6 DEF KeysSettled, TypeOK
<1>11. NothingHeldIsTaken'
  <2>1. ASSUME NEW u \in claimed' PROVE key'[KeyOf(u)] \notin stored'
    <3>1. u \in claimed /\ u # t /\ u \in Tx
      BY <1>4 DEF TypeOK
    <3>2. key'[KeyOf(u)] = key[KeyOf(u)]
      BY <1>3, <1>6, <3>1 DEF Exclusive
    <3>3. QED
      BY <1>3, <1>4, <1>7, <3>1, <3>2 DEF NothingHeldIsTaken
  <2>2. ASSUME NEW k \in purger'.keys
        PROVE  key'[k] # NoEvent /\ key'[k] \notin stored'
    <3>1. k \in purger.keys /\ k \in Slot
      BY <1>2 DEF TypeOK
    <3>2. key'[k] = key[k]
      BY <1>6, <3>1 DEF Exclusive
    <3>3. QED
      BY <1>4, <1>7, <3>1, <3>2 DEF NothingHeldIsTaken
  <2>3. \A u \in claimed' : KeyOf(u)' = KeyOf(u)
    BY <1>3 DEF TypeOK
  <2>4. QED
    BY <2>1, <2>2, <2>3 DEF NothingHeldIsTaken
<1>12. ClaimsComeFirst'
  BY <1>1, <1>2, <1>4, <1>5 DEF ClaimsComeFirst, TypeOK, SameOccurrence, Ended
<1>13. KeyNamesStored'
  <2> SUFFICES ASSUME armed, linked = Subject, NEW e \in stored' \ shadowed
               PROVE  key'[KeyOf(e)] = e
    BY <1>2, <1>3 DEF KeyNamesStored, TypeOK
  <2>1. CASE e = t
    BY <1>3, <1>4, <1>5, <1>6, <2>1 DEF ClaimsComeFirst
  <2>2. CASE e # t
    <3>1. e \in stored /\ e \in Tx /\ key[KeyOf(e)] = e
      BY <1>4, <2>2 DEF KeyNamesStored, TypeOK
    <3>2. t \in claimed => KeyOf(e) # KeyOf(t)
      BY <3>1 DEF NothingHeldIsTaken
    <3>3. QED
      BY <1>3, <1>6, <3>1, <3>2
  <2>3. QED
    BY <2>1, <2>2
<1>14. QED
  BY <1>8, <1>9, <1>10, <1>11, <1>12, <1>13

\* The steps of the INSERT and its trigger.
LEMMA KeyInvWriter ==
  ASSUME KeyInv, NEW t \in Tx, TypeOK', WriterStep(t) \/ AbortWriter(t)
  PROVE  KeyInv'
<1> USE DEF KeyInv, Running, Ended, rest
<1>1. CASE Submit(t)
  <2>1. t \notin claimed
    BY <1>1 DEF Submit, Places, Idle
  <2>2. PICK where \in {"insert", "claim", "duplicate"} :
          /\ Goto(t, where)
          /\ armed /\ where = "insert" => \E e \in stored : SameOccurrence(e, t)
    BY <1>1 DEF Submit
  <2>3. armed /\ where = "insert" => \E e \in stored : SameOccurrence(t, e)
    BY <2>2 DEF SameOccurrence
  <2>4. QED
    BY <1>1, <2>1, <2>2, <2>3, KeyInvGoto DEF Submit, Idle
<1>2. CASE ClaimKey(t)
  <2>1. t \notin claimed
    BY <1>2 DEF ClaimKey, Places
  <2>2. key[KeyOf(t)] = NoEvent => key[KeyOf(t)] \notin stored
    BY NoEventStored
  <2>3. QED
    BY <1>2, <2>1, <2>2, KeyInvGoto DEF ClaimKey
<1>3. CASE ReadKey(t)
  <2>1. t \notin claimed
    BY <1>3 DEF ReadKey, Places
  <2>2. QED
    BY <1>3, <2>1, KeyInvGoto DEF ReadKey
<1>4. CASE CheckHolder(t)
  <2>1. t \notin claimed
    BY <1>4 DEF CheckHolder, Places
  <2>2. QED
    BY <1>4, <2>1, KeyInvGoto DEF CheckHolder
<1>5. CASE MoveKey(t)
  <2>1. t \notin claimed
    BY <1>5 DEF MoveKey, KeyRejected, Places
  <2>2. QED
    BY <1>5, <2>1, KeyInvGoto DEF MoveKey, KeyRejected
<1>6. CASE InsertRow(t)
  BY <1>6, KeyInvInsert
<1>7. CASE CommitWriter(t)
  BY <1>7, KeyInvCommit
<1>8. CASE AbortWriter(t)
  BY <1>8, KeyInvRollback DEF AbortWriter
<1>9. QED
  BY <1>1, <1>2, <1>3, <1>4, <1>5, <1>6, <1>7, <1>8 DEF WriterStep

\* What locks the events out finds nobody in flight.
LEMMA NobodyInFlight ==
  ASSUME KeyInv, InFlight = {}
  PROVE  /\ pending = {} /\ claimed = {}
         /\ \A t \in Tx : pc[t] \notin Running
BY DEF KeyInv, TypeOK, Places, InFlight, Running

\* The trigger is created: every key that was free names a stored event.
LEMMA KeyInvArm ==
  ASSUME KeyInv, TypeOK', Arm
  PROVE  KeyInv'
<1> USE DEF KeyInv
<1>1. pending = {} /\ claimed = {} /\ \A t \in Tx : pc[t] \notin Running
  BY NobodyInFlight DEF Arm
<1>2. UNCHANGED <<row, pc, pending, claimed, stored, linked, eraser, purger>>
  BY DEF Arm, writers
<1>3. \A e \in stored : KeyOf(e)' = KeyOf(e)
  BY <1>2 DEF KeyOf
<1>4. ASSUME NEW k \in Slot
      PROVE  key'[k] = key[k] \/ (key[k] = NoEvent /\ key'[k] \in stored)
  <2> DEFINE earliest == {e \in stored : \A f \in stored :
                            KeyOf(f) = KeyOf(e) => row[e].at <= row[f].at}
             first == CHOOSE e \in earliest : KeyOf(e) = k
  <2>1. key'[k] = IF key[k] = NoEvent /\ \E e \in earliest : KeyOf(e) = k
                  THEN first ELSE key[k]
    BY DEF Arm
  <2>2. (\E e \in earliest : KeyOf(e) = k) => first \in earliest
    OBVIOUS
  <2>3. earliest \subseteq stored
    OBVIOUS
  <2> HIDE DEF first, earliest
  <2>4. QED
    BY <2>1, <2>2, <2>3
<1>5. Places' /\ Exclusive'
  BY <1>1, <1>2 DEF Places, Exclusive
<1>6. KeysSettled'
  BY <1>2, <1>4 DEF KeysSettled, Places, Ended, TypeOK
<1>7. NothingHeldIsTaken'
  BY <1>1, <1>2, <1>4 DEF NothingHeldIsTaken, TypeOK
<1>8. ClaimsComeFirst'
  BY <1>1, <1>2 DEF ClaimsComeFirst, Running
<1>9. KeyNamesStored'
  BY <1>2, <1>3 DEF Arm, KeyNamesStored
<1>10. QED
  BY <1>5, <1>6, <1>7, <1>8, <1>9

\* A partition is dropped: its keys stay behind and name nothing.
LEMMA KeyInvDrop ==
  ASSUME KeyInv, TypeOK', NEW p, DropPartition(p)
  PROVE  KeyInv'
<1> USE DEF KeyInv
<1>1. pending = {} /\ claimed = {} /\ \A t \in Tx : pc[t] \notin Running
  BY NobodyInFlight DEF DropPartition
<1>2. /\ UNCHANGED <<row, pc, pending, claimed, key, armed, shadowed, linked,
                      eraser, purger>>
      /\ stored' \subseteq stored
  BY DEF DropPartition, writers
<1>3. \A e \in stored : KeyOf(e)' = KeyOf(e)
  BY <1>2 DEF KeyOf
<1>4. Places' /\ Exclusive' /\ KeysSettled'
  BY <1>1, <1>2 DEF Places, Exclusive, KeysSettled
<1>5. NothingHeldIsTaken'
  BY <1>1, <1>2 DEF NothingHeldIsTaken
<1>6. ClaimsComeFirst'
  BY <1>1, <1>2 DEF ClaimsComeFirst, Running
<1>7. KeyNamesStored'
  BY <1>2, <1>3 DEF KeyNamesStored
<1>8. QED
  BY <1>4, <1>5, <1>6, <1>7

\* The purge and the erasure write nothing before they commit.
LEMMA KeyInvWorking ==
  ASSUME KeyInv, TypeOK', Exclusive', NothingHeldIsTaken',
         UNCHANGED <<writers, stored, key, armed, shadowed, linked>>
  PROVE  KeyInv'
<1> USE DEF KeyInv, writers
<1>1. Places' /\ KeysSettled'
  BY DEF Places, KeysSettled
<1>2. ClaimsComeFirst'
  BY DEF ClaimsComeFirst, SameOccurrence
<1>3. KeyNamesStored'
  <2>1. \A e \in stored : KeyOf(e)' = KeyOf(e)
    BY DEF KeyOf
  <2>2. QED
    BY <2>1 DEF KeyNamesStored
<1>4. QED
  BY <1>1, <1>2, <1>3

\* The purge: a key it has written names no stored event and stays so.
LEMMA KeyInvPurge ==
  ASSUME KeyInv, TypeOK',
         (\E b \in PurgeBound : PurgeScan(b)) \/ PurgeStep \/ PurgeAbort
  PROVE  KeyInv'
<1> USE DEF KeyInv
<1>1. ASSUME UNCHANGED <<writers, stored, key, armed, shadowed, linked, eraser>>,
             purger'.keys \subseteq purger.keys
      PROVE  KeyInv'
  <2>1. \A t \in Tx : KeyOf(t)' = KeyOf(t)
    BY <1>1 DEF KeyOf, writers
  <2>2. Exclusive' /\ NothingHeldIsTaken'
    BY <1>1, <2>1 DEF Exclusive, NothingHeldIsTaken, TypeOK, writers
  <2>3. QED
    BY <1>1, <2>2, KeyInvWorking
<1>2. CASE \E b \in PurgeBound : PurgeScan(b)
  BY <1>1, <1>2 DEF PurgeScan
<1>3. CASE \E k \in Slot : PurgeKey(k)
  <2> PICK k \in Slot : PurgeKey(k)
    BY <1>3
  <2>1. UNCHANGED <<writers, stored, key, armed, shadowed, linked, eraser>>
    BY DEF PurgeKey, KeyRejected
  <2>2. CASE purger'.keys \subseteq purger.keys
    BY <1>1, <2>1, <2>2
  <2>3. CASE /\ purger'.keys = purger.keys \union {k}
             /\ ~Locked(k) /\ key[k] # NoEvent /\ key[k] \notin stored
    <3>1. \A t \in Tx : KeyOf(t)' = KeyOf(t)
      BY <2>1 DEF KeyOf, writers
    <3>2. Exclusive'
      BY <2>1, <2>3, <3>1 DEF Exclusive, Locked, WriterLocks, TypeOK, writers
    <3>3. NothingHeldIsTaken'
      BY <2>1, <2>3, <3>1 DEF NothingHeldIsTaken, TypeOK, writers
    <3>4. QED
      BY <2>1, <3>2, <3>3, KeyInvWorking
  <2>4. \/ purger'.keys \subseteq purger.keys
        \/ /\ purger'.keys = purger.keys \union {k}
           /\ ~Locked(k) /\ key[k] # NoEvent /\ key[k] \notin stored
    BY DEF PurgeKey, KeyRejected, NoPurge, TypeOK
  <2>5. QED
    BY <2>2, <2>3, <2>4
<1>4. CASE PurgeCommit
  <2>1. /\ UNCHANGED <<row, pc, pending, claimed, stored, armed, shadowed, linked,
                        eraser>>
        /\ purger'.keys = {}
        /\ \A k \in Slot : key'[k] = IF k \in purger.keys THEN NoEvent ELSE key[k]
    BY <1>4 DEF PurgeCommit, NoPurge, writers
  <2>2. \A t \in Tx : KeyOf(t)' = KeyOf(t) /\ KeyOf(t) \in Slot
    BY <2>1, KeyOfType DEF KeyOf
  <2>3. Places' /\ KeysSettled' /\ Exclusive'
    BY <2>1, <2>2 DEF Places, KeysSettled, Exclusive, TypeOK
  <2>4. NothingHeldIsTaken'
    BY <2>1, <2>2 DEF NothingHeldIsTaken, Exclusive, TypeOK
  <2>5. ClaimsComeFirst'
    BY <2>1 DEF ClaimsComeFirst, SameOccurrence
  <2>6. KeyNamesStored'
    BY <2>1, <2>2 DEF KeyNamesStored, NothingHeldIsTaken, TypeOK
  <2>7. QED
    BY <2>3, <2>4, <2>5, <2>6
<1>5. CASE PurgeAbort
  BY <1>1, <1>5 DEF PurgeAbort, NoPurge
<1>6. QED
  BY <1>2, <1>3, <1>4, <1>5 DEF PurgeStep

\* The erasure: its keys are nobody else's, and when it commits some subject
\* is no longer linked.
LEMMA KeyInvErasure ==
  ASSUME KeyInv, TypeOK',
         (\E s \in Erasable : EraseEvents(s)) \/ EraseStep \/ EraseAbort
  PROVE  KeyInv'
<1> USE DEF KeyInv
<1>1. ASSUME UNCHANGED <<writers, stored, key, armed, shadowed, linked, purger>>,
             \/ eraser' = NoErasure
             \/ /\ eraser'.subject # {}
                /\ \A k \in eraser'.keys : k \in eraser.keys \/ ~Locked(k)
      PROVE  KeyInv'
  <2>1. \A t \in Tx : KeyOf(t)' = KeyOf(t)
    BY <1>1 DEF KeyOf, writers
  <2>2. Exclusive'
    BY <1>1, <2>1 DEF Exclusive, Locked, WriterLocks, NoErasure, TypeOK, writers
  <2>3. NothingHeldIsTaken'
    BY <1>1, <2>1 DEF NothingHeldIsTaken, TypeOK, writers
  <2>4. QED
    BY <1>1, <2>2, <2>3, KeyInvWorking
<1>2. CASE \E s \in Erasable : EraseEvents(s)
  <2> PICK s \in Erasable : EraseEvents(s)
    BY <1>2
  <2>1. /\ eraser'.subject = {s} /\ \A k \in eraser'.keys : ~Locked(k)
        /\ UNCHANGED <<writers, stored, key, armed, shadowed, linked, purger>>
    BY DEF EraseEvents
  <2>2. QED
    BY <1>1, <2>1
<1>3. CASE EraseLink
  <2>1. /\ eraser'.subject = eraser.subject /\ eraser'.keys = eraser.keys
        /\ eraser.subject # {}
        /\ UNCHANGED <<writers, stored, key, armed, shadowed, linked, purger>>
    BY <1>3 DEF EraseLink, TypeOK, Exclusive, Idle
  <2>2. QED
    BY <1>1, <2>1
<1>4. CASE \E k \in Slot : EraseKey(k)
  <2> PICK k \in Slot : EraseKey(k)
    BY <1>4
  <2>1. /\ eraser'.subject = eraser.subject /\ eraser.subject # {}
        /\ eraser'.keys \subseteq eraser.keys \union {k} /\ ~Locked(k)
        /\ UNCHANGED <<writers, stored, key, armed, shadowed, linked, purger>>
    BY DEF EraseKey, TypeOK, Exclusive, Idle
  <2>2. QED
    BY <1>1, <2>1
<1>5. CASE EraseCommit
  <2>1. /\ UNCHANGED <<row, pc, pending, claimed, armed, shadowed, purger>>
        /\ stored' \subseteq stored /\ eraser'.keys = {} /\ eraser'.phase = Idle
        /\ \A k \in Slot : key'[k] = IF k \in eraser.keys THEN NoEvent ELSE key[k]
    BY <1>5 DEF EraseCommit, NoErasure, writers
  <2>2. linked' # Subject
    BY <1>5 DEF EraseCommit, Exclusive, TypeOK, Idle
  <2>3. \A t \in Tx : KeyOf(t)' = KeyOf(t) /\ KeyOf(t) \in Slot
    BY <2>1, KeyOfType DEF KeyOf
  <2>4. Places' /\ KeysSettled' /\ Exclusive'
    BY <2>1, <2>3 DEF Places, KeysSettled, Exclusive, TypeOK
  <2>5. NothingHeldIsTaken'
    BY <2>1, <2>3, NoEventStored DEF NothingHeldIsTaken, Exclusive, TypeOK
  <2>6. ClaimsComeFirst' /\ KeyNamesStored'
    BY <2>2 DEF ClaimsComeFirst, KeyNamesStored
  <2>7. QED
    BY <2>4, <2>5, <2>6
<1>6. CASE EraseAbort
  BY <1>1, <1>6 DEF EraseAbort
<1>7. QED
  BY <1>2, <1>3, <1>4, <1>5, <1>6 DEF EraseStep

\* Every step of every actor preserves it.
LEMMA KeyInvStep == KeyInv /\ [Next]_vars => KeyInv'
<1> SUFFICES ASSUME KeyInv, [Next]_vars PROVE KeyInv'
  OBVIOUS
<1>1. TypeOK'
  BY TypeStep DEF KeyInv
<1>2. ASSUME NEW t \in Tx, WriterStep(t) \/ AbortWriter(t) PROVE KeyInv'
  BY <1>1, <1>2, KeyInvWriter
<1>3. CASE Arm
  BY <1>1, <1>3, KeyInvArm
<1>4. CASE \E i \in Instant : DropPartition(i \div Span)
  BY <1>1, <1>4, KeyInvDrop
<1>5. CASE Finished \/ UNCHANGED vars
  <2>1. UNCHANGED <<writers, stored, key, armed, shadowed, linked, eraser, purger>>
    BY <1>5 DEF Finished, vars, writers
  <2>2. \A t \in Tx : KeyOf(t)' = KeyOf(t)
    BY <2>1 DEF KeyOf, writers
  <2>3. Exclusive' /\ NothingHeldIsTaken'
    BY <2>1, <2>2 DEF KeyInv, Exclusive, NothingHeldIsTaken, TypeOK, writers
  <2>4. QED
    BY <1>1, <2>1, <2>3, KeyInvWorking
<1>6. QED
  BY <1>1, <1>2, <1>3, <1>4, <1>5, KeyInvPurge, KeyInvErasure DEF Next

\* Until an erasure commits every stored event is the one its key names, so
\* the claim of a retry finds it whatever its instant: the deduplication rule
\* that the comment at postgres.py:1763 relies on.
THEOREM KeysNameStoredEvents == Spec => []KeyNamesStored
<1>1. KeyInv => KeyNamesStored
  BY DEF KeyInv
<1>2. QED
  BY <1>1, KeyInvInit, KeyInvStep, PTL DEF Spec

-----------------------------------------------------------------------------
(* ---- what a step can change ---- *)
\* The columns of an event are never updated, and so its slot stays.
LEMMA RowStays ==
  ASSUME [Next]_vars
  PROVE  row' = row /\ \A t : KeyOf(t)' = KeyOf(t)
<1>1. row' = row
  BY DEF Next, vars, writers, rest, WriterStep, Submit, ClaimKey, ReadKey, CheckHolder, MoveKey,
         InsertRow, CommitWriter, AbortWriter, Arm, DropPartition, PurgeScan, PurgeStep, PurgeKey,
         PurgeCommit, PurgeAbort, EraseEvents, EraseStep, EraseLink, EraseKey, EraseCommit,
         EraseAbort, Finished, KeyRejected
<1>2. QED
  BY <1>1 DEF KeyOf

\* A key row changes when a writer that claimed it commits, when the trigger is created, and when
\* a purge or an erasure that has written it commits.
KeyChange(k) ==
  \/ \E t \in claimed : CommitWriter(t) /\ k = KeyOf(t) /\ key'[k] = t
  \/ Arm /\ key[k] = NoEvent /\ key'[k] \in stored /\ KeyOf(key'[k]) = k
  \/ PurgeCommit /\ k \in purger.keys /\ key'[k] = NoEvent
  \/ EraseCommit /\ k \in eraser.keys /\ key'[k] = NoEvent
LEMMA KeyChanges ==
  ASSUME KeyInv, [Next]_vars, NEW k \in Slot, key'[k] # key[k]
  PROVE  KeyChange(k)
<1> USE DEF KeyChange
<1>1. CASE \E t \in Tx : CommitWriter(t)
  <2> PICK t \in Tx : CommitWriter(t)
    BY <1>1
  <2>1. t \in claimed /\ key' = [key EXCEPT ![KeyOf(t)] = t]
    BY DEF CommitWriter
  <2>2. QED
    BY <2>1 DEF KeyInv, TypeOK
<1>2. CASE Arm
  <2> DEFINE earliest == {e \in stored : \A f \in stored :
                            KeyOf(f) = KeyOf(e) => row[e].at <= row[f].at}
             first == CHOOSE e \in earliest : KeyOf(e) = k
  <2>1. key'[k] = IF key[k] = NoEvent /\ \E e \in earliest : KeyOf(e) = k
                  THEN first ELSE key[k]
    BY <1>2 DEF Arm
  <2>2. (\E e \in earliest : KeyOf(e) = k) => first \in earliest /\ KeyOf(first) = k
    OBVIOUS
  <2>3. earliest \subseteq stored
    OBVIOUS
  <2> HIDE DEF first, earliest
  <2>4. QED
    BY <1>2, <2>1, <2>2, <2>3
<1>3. CASE PurgeCommit
  BY <1>3 DEF PurgeCommit
<1>4. CASE EraseCommit
  BY <1>4 DEF EraseCommit
<1>5. CASE key' = key
  BY <1>5
<1>6. QED
  BY <1>1, <1>2, <1>3, <1>4, <1>5
     DEF Next, vars, writers, rest, WriterStep, Submit, ClaimKey, ReadKey, CheckHolder, MoveKey,
         InsertRow, AbortWriter, DropPartition, PurgeScan, PurgeStep, PurgeKey, PurgeAbort,
         EraseEvents, EraseStep, EraseLink, EraseKey, EraseAbort, Finished, KeyRejected

\* Only retention and an erasure take an event away.
LEMMA EventGoes ==
  ASSUME [Next]_vars, NEW e \in stored, e \notin stored'
  PROVE  (\E i \in Instant : DropPartition(i \div Span)) \/ (EraseCommit /\ e \in eraser.events)
BY DEF Next, vars, writers, rest, WriterStep, Submit, ClaimKey, ReadKey, CheckHolder, MoveKey,
       InsertRow, CommitWriter, AbortWriter, Arm, PurgeScan, PurgeStep, PurgeKey,
       PurgeCommit, PurgeAbort, EraseEvents, EraseStep, EraseLink, EraseKey, EraseCommit,
       EraseAbort, Finished, KeyRejected

-----------------------------------------------------------------------------
(* No INSERT is skipped in vain.                                           *)

\* A key names an event of its own slot, and so does what a writer has read from its slot.
NamesOwnSlot == \A k \in Slot : key[k] # NoEvent => KeyOf(key[k]) = k
HoldersMatch ==
  \A t \in Tx : pc[t] \in {"check", "move"} => held[t] \in Tx /\ KeyOf(held[t]) = KeyOf(t)
FoundInv == NamesOwnSlot /\ HoldersMatch /\ SkipJustified

LEMMA FoundInit == Init => FoundInv
BY DEF Init, FoundInv, NamesOwnSlot, HoldersMatch, SkipJustified, Idle

\* A writer's step: what it has read, and why it is skipped.
LEMMA FoundWriter ==
  ASSUME KeyInv, FoundInv, NEW t \in Tx, WriterStep(t) \/ AbortWriter(t), [Next]_vars
  PROVE  HoldersMatch' /\ SkipJustified'
<1> DEFINE end == pc'[t]
<1> USE DEF FoundInv, Goto, Running, Idle
<1>r. row' = row /\ \A u : KeyOf(u)' = KeyOf(u)
  BY RowStays
<1>k. KeyOf(t) \in Slot
  BY KeyOfType DEF KeyInv
<1>1. /\ pc[t] \in Running \union {Idle}
      /\ \A u \in Tx \ {t} : pc'[u] = pc[u] /\ held'[u] = held[u]
  BY DEF KeyInv, TypeOK, rest, WriterStep, Submit, ClaimKey, ReadKey, CheckHolder, MoveKey,
         InsertRow, CommitWriter, AbortWriter, KeyRejected
<1>2. \A u \in Tx : pc[u] = "Stored" => pc'[u] = "Stored" /\ u # t
  BY <1>1
<1>3. end \in {"check", "move"} => held'[t] \in Tx /\ KeyOf(held'[t]) = KeyOf(t)
  BY <1>k DEF KeyInv, TypeOK, rest, NamesOwnSlot, HoldersMatch, WriterStep, Submit, ClaimKey, ReadKey,
         CheckHolder, MoveKey, InsertRow, CommitWriter, AbortWriter, KeyRejected
<1>4. end \in {"duplicate", "Duplicate"} =>
        \E e \in Tx \ {t} : pc[e] = "Stored" /\ KeyOf(e) = KeyOf(t)
  <2>1. CASE Submit(t) /\ end = "duplicate"
    <3>1. \E e \in stored : SameOccurrence(e, t) /\ row[e].subject = row[t].subject
      BY <2>1 DEF KeyInv, TypeOK, Submit
    <3>2. QED
      BY <3>1, <1>2 DEF KeyInv, TypeOK, Places, SameOccurrence, KeyOf
  <2>2. CASE CheckHolder(t) /\ end = "duplicate"
    <3>1. held[t] \in stored /\ KeyOf(held[t]) = KeyOf(t)
      BY <2>2 DEF KeyInv, TypeOK, CheckHolder, HoldersMatch
    <3>2. QED
      BY <3>1, <1>2 DEF KeyInv, TypeOK, Places
  <2>3. CASE CommitWriter(t) /\ end = "Duplicate"
    <3>1. pc[t] = "duplicate"
      BY <2>3 DEF KeyInv, TypeOK, CommitWriter
    <3>2. QED
      BY <3>1 DEF SkipJustified
  <2>4. QED
    BY <2>1, <2>2, <2>3 DEF KeyInv, TypeOK, rest, WriterStep, Submit, ClaimKey, ReadKey,
       CheckHolder, MoveKey, InsertRow, CommitWriter, AbortWriter, KeyRejected
<1>5. end \in {"occupied", "Occupied"} =>
        \E e \in Tx \ {t} : pc[e] = "Stored" /\ SameOccurrence(e, t)
  <2>1. CASE InsertRow(t) /\ end = "occupied"
    <3>1. \E e \in stored : SameOccurrence(t, e)
      BY <2>1 DEF KeyInv, TypeOK, InsertRow
    <3>2. QED
      BY <3>1, <1>2 DEF KeyInv, TypeOK, Places, SameOccurrence
  <2>2. CASE CommitWriter(t) /\ end = "Occupied"
    <3>1. pc[t] = "occupied"
      BY <2>2 DEF KeyInv, TypeOK, CommitWriter
    <3>2. QED
      BY <3>1 DEF SkipJustified
  <2>3. QED
    BY <2>1, <2>2 DEF KeyInv, TypeOK, rest, WriterStep, Submit, ClaimKey, ReadKey,
       CheckHolder, MoveKey, InsertRow, CommitWriter, AbortWriter, KeyRejected
<1> HIDE DEF end
<1>6. HoldersMatch'
  <2> SUFFICES ASSUME NEW u \in Tx, pc'[u] \in {"check", "move"}
               PROVE  held'[u] \in Tx /\ KeyOf(held'[u]) = KeyOf(u)
    BY <1>r DEF HoldersMatch, KeyOf
  <2>1. CASE u = t
    BY <2>1, <1>3 DEF end
  <2>2. CASE u # t
    BY <2>2, <1>1 DEF HoldersMatch
  <2>3. QED
    BY <2>1, <2>2
<1>7. SkipJustified'
  <2>1. ASSUME NEW u \in Tx, pc'[u] \in {"duplicate", "Duplicate"}
        PROVE  \E e \in Tx \ {u} : pc'[e] = "Stored" /\ KeyOf(e) = KeyOf(u)
    <3>1. \E e \in Tx \ {u} : pc[e] = "Stored" /\ KeyOf(e) = KeyOf(u)
      BY <1>1, <1>4, <2>1 DEF SkipJustified, end
    <3>2. QED
      BY <1>2, <3>1
  <2>2. ASSUME NEW u \in Tx, pc'[u] \in {"occupied", "Occupied"}
        PROVE  \E e \in Tx \ {u} : pc'[e] = "Stored" /\ SameOccurrence(e, u)
    <3>1. \E e \in Tx \ {u} : pc[e] = "Stored" /\ SameOccurrence(e, u)
      BY <1>1, <1>5, <2>2 DEF SkipJustified, end
    <3>2. QED
      BY <1>2, <3>1
  <2>3. QED
    BY <1>r, <2>1, <2>2 DEF SkipJustified, SameOccurrence, KeyOf
<1>8. QED
  BY <1>6, <1>7

LEMMA FoundStep == KeyInv /\ FoundInv /\ [Next]_vars => FoundInv'
<1> SUFFICES ASSUME KeyInv, FoundInv, [Next]_vars PROVE FoundInv'
  OBVIOUS
<1>r. row' = row /\ \A u : KeyOf(u)' = KeyOf(u)
  BY RowStays
<1>1. NamesOwnSlot'
  <2> SUFFICES ASSUME NEW k \in Slot, key'[k] # NoEvent PROVE KeyOf(key'[k]) = k
    BY <1>r DEF NamesOwnSlot, KeyOf
  <2>1. CASE key'[k] = key[k]
    BY <2>1 DEF FoundInv, NamesOwnSlot
  <2>2. CASE key'[k] # key[k]
    BY <2>2, KeyChanges DEF KeyChange
  <2>3. QED
    BY <2>1, <2>2
<1>2. CASE \E t \in Tx : WriterStep(t) \/ AbortWriter(t)
  BY <1>1, <1>2, FoundWriter DEF FoundInv
<1>3. CASE UNCHANGED <<pc, held>>
  <2>1. HoldersMatch'
    BY <1>3, <1>r DEF FoundInv, HoldersMatch, KeyOf
  <2>2. SkipJustified'
    BY <1>3, <1>r DEF FoundInv, SkipJustified, SameOccurrence, KeyOf
  <2>3. QED
    BY <1>1, <2>1, <2>2 DEF FoundInv
<1>4. QED
  BY <1>2, <1>3
     DEF Next, vars, writers, Arm, DropPartition, PurgeScan, PurgeStep, PurgeKey, PurgeCommit,
         PurgeAbort, EraseEvents, EraseStep, EraseLink, EraseKey, EraseCommit, EraseAbort, Finished

\* Without erasures there is none under way, and every subject keeps its link.
Unerased == eraser = NoErasure /\ linked = Subject
LEMMA UnerasedInit == Init => Unerased
BY DEF Init, Unerased
LEMMA UnerasedStep ==
  ASSUME Erasable = {}
  PROVE  Unerased /\ [Next]_vars => Unerased'
<1> SUFFICES ASSUME Unerased, [Next]_vars PROVE Unerased'
  OBVIOUS
<1>1. eraser.phase = Idle
  BY DEF Unerased, NoErasure
<1>2. ~EraseStep /\ ~EraseAbort
  BY <1>1 DEF EraseStep, EraseLink, EraseKey, EraseCommit, EraseAbort, Idle
<1>3. UNCHANGED <<eraser, linked>>
  BY <1>2 DEF Next, vars, writers, rest, WriterStep, Submit, ClaimKey, ReadKey, CheckHolder, MoveKey,
       InsertRow, CommitWriter, AbortWriter, Arm, DropPartition, PurgeScan, PurgeStep, PurgeKey,
       PurgeCommit, PurgeAbort, Finished, KeyRejected
<1>4. QED
  BY <1>3 DEF Unerased

\* No transition but an erasure's takes the key of an event that stays.
LEMMA KeysStayStep ==
  ASSUME KeyInv, Unerased, [Next]_vars
  PROVE  KeysStay
<1> SUFFICES ASSUME NEW k \in Slot, key[k] \in stored, key'[k] # key[k] PROVE FALSE
  BY DEF KeysStay
<1>1. KeyChange(k)
  BY KeyChanges
<1>2. ASSUME NEW t \in claimed, k = KeyOf(t) PROVE FALSE
  BY <1>2 DEF KeyInv, NothingHeldIsTaken
<1>3. CASE key[k] = NoEvent
  BY <1>3, NoEventStored DEF KeyInv
<1>4. CASE k \in purger.keys
  BY <1>4 DEF KeyInv, NothingHeldIsTaken
<1>5. CASE EraseCommit
  BY <1>5 DEF EraseCommit, Unerased, NoErasure, Idle
<1>6. QED
  BY <1>1, <1>2, <1>3, <1>4, <1>5 DEF KeyChange

\* While nobody asks for an erasure nothing is lost: an INSERT is skipped only for an event that was
\* committed, and no purge, retention or writer takes the key of an event that stays stored
\* (claim_idempotency_key, purge_idempotency_keys, reject_key_mutation).
THEOREM NothingIsLost ==
  ASSUME Erasable = {}
  PROVE  Spec => NothingLost
<1>1. Init => KeyInv /\ FoundInv /\ Unerased
  BY KeyInvInit, FoundInit, UnerasedInit
<1>2. KeyInv /\ FoundInv /\ Unerased /\ [Next]_vars => (KeyInv /\ FoundInv /\ Unerased)'
  BY KeyInvStep, FoundStep, UnerasedStep
<1>3. KeyInv /\ FoundInv' /\ Unerased /\ [Next]_vars => [SkipJustified' /\ KeysStay]_vars
  BY KeysStayStep DEF FoundInv
<1>4. QED
  BY <1>1, <1>2, <1>3, PTL DEF Spec, NothingLost

-----------------------------------------------------------------------------
(* The key table implements EventDedup.                                    *)

\* Rows that are stored or being inserted differ in their occurrence keys.
OccurrencesApart ==
  /\ \A t \in pending, e \in stored : ~SameOccurrence(t, e)
  /\ \A t, u \in pending : t # u => ~SameOccurrence(t, u)
\* Nobody claims a key before there is a trigger.
Unclaimed ==
  ~armed => /\ \A k \in Slot : key[k] = NoEvent
            /\ claimed = {}
            /\ \A t \in Tx : pc[t] \notin {"claim", "read", "check", "move"}
DedupInv == OccurrencesApart /\ Unclaimed

LEMMA DedupInit == Init => DedupInv
BY DEF Init, DedupInv, OccurrencesApart, Unclaimed, Idle

LEMMA ApartStep ==
  ASSUME KeyInv, OccurrencesApart, [Next]_vars
  PROVE  OccurrencesApart'
<1>r. row' = row
  BY RowStays
<1>1. CASE \E t \in Tx : InsertRow(t)
  <2> PICK t \in Tx : InsertRow(t)
    BY <1>1
  <2>1. /\ \A u \in pending : ~SameOccurrence(t, u)
        /\ stored' = stored
        /\ \/ pending' = pending
           \/ pending' = pending \union {t} /\ \A e \in stored : ~SameOccurrence(t, e)
    BY DEF InsertRow, rest
  <2>2. QED
    BY <1>r, <2>1 DEF OccurrencesApart, SameOccurrence
<1>2. CASE \E t \in Tx : CommitWriter(t)
  BY <1>r, <1>2 DEF CommitWriter, OccurrencesApart, SameOccurrence
<1>3. CASE pending' \subseteq pending /\ stored' \subseteq stored
  BY <1>r, <1>3 DEF OccurrencesApart, SameOccurrence
<1>4. QED
  BY <1>1, <1>2, <1>3
     DEF Next, vars, writers, rest, WriterStep, Submit, ClaimKey, ReadKey, CheckHolder, MoveKey,
         AbortWriter, Arm, DropPartition, PurgeScan, PurgeStep, PurgeKey, PurgeCommit, PurgeAbort,
         EraseEvents, EraseStep, EraseLink, EraseKey, EraseCommit, EraseAbort, Finished, KeyRejected

LEMMA UnclaimedStep ==
  ASSUME KeyInv, Unclaimed, [Next]_vars
  PROVE  Unclaimed'
<1>1. CASE \E t \in Tx : WriterStep(t) \/ AbortWriter(t)
  BY <1>1 DEF KeyInv, TypeOK, Unclaimed, Goto, rest, WriterStep, Submit, ClaimKey, ReadKey,
              CheckHolder, MoveKey, InsertRow, CommitWriter, AbortWriter, KeyRejected
<1>2. CASE armed'
  BY <1>2 DEF Unclaimed
<1>3. CASE /\ UNCHANGED <<pc, claimed, armed>>
           /\ \A k \in Slot : key'[k] \in {key[k], NoEvent}
  BY <1>3 DEF Unclaimed
<1>4. QED
  BY <1>1, <1>2, <1>3
     DEF Next, vars, writers, Arm, DropPartition, PurgeScan, PurgeStep, PurgeKey, PurgeCommit,
         PurgeAbort, EraseEvents, EraseStep, EraseLink, EraseKey, EraseCommit, EraseAbort, Finished,
         KeyRejected

\* The earliest of some events, which the backfill gives their key.
LEMMA Earliest ==
  ASSUME TypeOK, NEW S \in SUBSET Tx, S # {}
  PROVE  \E e \in S : \A f \in S : row[e].at <= row[f].at
<1> DEFINE T == {row[e].at : e \in S}
           R == OpToRel(<, Nat)
<1>0. \A e \in S : row[e].at \in Nat
  BY InstantAssumption DEF TypeOK, Row
<1>1. T \subseteq Nat /\ T # {}
  BY <1>0
<1>2. \A m, n \in Nat : m < n => <<m, n>> \in R
  BY Zenon DEF OpToRel
<1>3. IsWellFoundedOn(R, Nat)
  BY NatLessThanWellFounded, Zenon
<1> HIDE DEF R
<1>4. \E n \in T : \A m \in T : ~ <<m, n>> \in R
  BY <1>1, <1>3, WFMin
<1>5. PICK n \in T : \A m \in T : ~ <<m, n>> \in R
  BY <1>4
<1>6. \A m \in T : ~ (m < n)
  BY <1>1, <1>2, <1>5, Zenon
<1>7. PICK e \in S : n = row[e].at
  OBVIOUS
<1>8. \A f \in S : ~ (row[f].at < row[e].at)
  BY <1>6, <1>7
<1> HIDE DEF T
<1>9. QED
  BY <1>0, <1>7, <1>8

\* One slot is one subject and one key.
LEMMA SlotIsKey ==
  ASSUME NEW e, NEW f
  PROVE  KeyOf(e) = KeyOf(f) <=> Dedup!SameKey(e, f)
BY DEF KeyOf, Dedup!SameKey

\* The commit of an inserted row records its event.
LEMMA CommitRecords ==
  ASSUME KeyInv, DedupInv, Unerased, NEW t \in Tx, CommitWriter(t)
  PROVE  Dedup!Record(t) \/ UNCHANGED <<row, stored, armed, shadowed>>
<1>1. /\ UNCHANGED <<row, armed, shadowed>>
      /\ stored' = stored \union (pending \intersect {t})
  BY DEF CommitWriter
<1>2. CASE t \notin pending
  BY <1>1, <1>2
<1>3. CASE t \in pending
  <2>1. \A f \in stored : ~Dedup!SameOccurrence(t, f)
    BY <1>3 DEF DedupInv, OccurrencesApart, SameOccurrence, Dedup!SameOccurrence
  <2>2. ASSUME armed, NEW f \in stored \ shadowed, Dedup!SameKey(t, f)
        PROVE  FALSE
    <3>1. t \in claimed
      BY <1>3, <2>2 DEF KeyInv, ClaimsComeFirst, Unerased
    <3>2. key[KeyOf(f)] = f /\ KeyOf(t) = KeyOf(f)
      BY <2>2, SlotIsKey DEF KeyInv, KeyNamesStored, Unerased
    <3>3. QED
      BY <3>1, <3>2 DEF KeyInv, NothingHeldIsTaken
  <2>3. stored' = stored \union {t}
    BY <1>1, <1>3
  <2>4. QED
    BY <1>1, <2>1, <2>2, <2>3 DEF Dedup!Record
<1>4. QED
  BY <1>2, <1>3

\* The creation of the trigger brings the rule into force: the event each key then names is the
\* one chosen to stand for it.
LEMMA ArmEnforces ==
  ASSUME KeyInv, FoundInv, DedupInv, Arm
  PROVE  Dedup!Enforce
<1> DEFINE earliest == {e \in stored : \A f \in stored :
                          KeyOf(f) = KeyOf(e) => row[e].at <= row[f].at}
           chosen == {e \in stored : key'[KeyOf(e)] = e}
<1>1. /\ ~armed /\ armed' = TRUE /\ UNCHANGED <<row, stored>>
      /\ shadowed' = {e \in stored : key'[KeyOf(e)] # e}
  BY DEF Arm, writers
<1>2. \A e, f \in chosen : Dedup!SameKey(e, f) => e = f
  BY SlotIsKey
<1>3. ASSUME NEW e \in stored
      PROVE  \E f \in chosen : Dedup!SameKey(e, f)
  <2> DEFINE k == KeyOf(e)
             S == {f \in stored : KeyOf(f) = k}
             first == CHOOSE f \in earliest : KeyOf(f) = k
  <2>1. k \in Slot /\ S \in SUBSET Tx /\ S # {}
    BY KeyOfType DEF KeyInv, TypeOK
  <2>2. key[k] = NoEvent
    BY <1>1, <2>1 DEF DedupInv, Unclaimed
  <2>3. \E f \in S : \A h \in S : row[f].at <= row[h].at
    BY <2>1, Earliest DEF KeyInv
  <2>4. \E f \in earliest : KeyOf(f) = k
    BY <2>3
  <2>5. first \in earliest /\ KeyOf(first) = k
    BY <2>4
  <2>6. key'[k] = first
    BY <2>1, <2>2, <2>4 DEF Arm
  <2>7. first \in stored
    BY <2>5
  <2> HIDE DEF first, earliest, k
  <2>8. first \in chosen /\ KeyOf(e) = KeyOf(first)
    BY <2>5, <2>6, <2>7 DEF k
  <2>9. QED
    BY <2>8, SlotIsKey
<1>4. shadowed' = stored \ chosen /\ chosen \in SUBSET stored
  BY <1>1
<1> HIDE DEF chosen
<1>5. QED
  BY <1>1, <1>2, <1>3, <1>4 DEF Dedup!Enforce

\* Every step of the key table's actors is a step of EventDedup or none.
LEMMA DedupStep ==
  ASSUME KeyInv, FoundInv, DedupInv, Unerased, [Next]_vars
  PROVE  [Dedup!Next]_(Dedup!vars)
<1> USE DEF Dedup!vars, Dedup!Next
<1>1. CASE \E t \in Tx : CommitWriter(t)
  BY <1>1, CommitRecords
<1>2. CASE Arm
  BY <1>2, ArmEnforces
<1>3. CASE \E i \in Instant : DropPartition(i \div Span)
  <2> PICK i \in Instant : DropPartition(i \div Span)
    BY <1>3
  <2> DEFINE gone == {e \in stored : row[e].at \div Span = i \div Span}
  <2>1. stored' = stored \ gone /\ UNCHANGED <<row, armed, shadowed>>
    BY DEF DropPartition, writers
  <2>2. QED
    BY <2>1 DEF Dedup!Forget
<1>4. CASE EraseCommit
  BY <1>4 DEF EraseCommit, Unerased, NoErasure, Idle
<1>5. CASE UNCHANGED <<row, stored, armed, shadowed>>
  BY <1>5
<1>6. QED
  BY <1>1, <1>2, <1>3, <1>4, <1>5
     DEF Next, vars, writers, rest, WriterStep, Submit, ClaimKey, ReadKey, CheckHolder, MoveKey,
         InsertRow, AbortWriter, PurgeScan, PurgeStep, PurgeKey, PurgeCommit, PurgeAbort,
         EraseEvents, EraseStep, EraseLink, EraseKey, EraseAbort, Finished, KeyRejected

LEMMA DedupStart == Init => Dedup!Init
BY DEF Init, Dedup!Init, Dedup!Row, Row

\* While nobody asks for an erasure the triggers, the purge and retention implement deduplication:
\* once the rule is in force no event is recorded beside another of its subject and key, whatever
\* their instants and partitions, and none is recorded under a taken occurrence key.
THEOREM KeysImplementDedup ==
  ASSUME Erasable = {}
  PROVE  Spec => DedupSpec
<1> DEFINE Inv == KeyInv /\ FoundInv /\ DedupInv /\ Unerased
<1>1. Init => Inv
  BY KeyInvInit, FoundInit, DedupInit, UnerasedInit
<1>2. Inv /\ [Next]_vars => Inv'
  BY KeyInvStep, FoundStep, ApartStep, UnclaimedStep, UnerasedStep DEF DedupInv
<1>3. Inv /\ [Next]_vars => [Dedup!Next]_(Dedup!vars)
  BY DedupStep
<1>4. QED
  BY <1>1, <1>2, <1>3, DedupStart, PTL DEF Spec, DedupSpec, Dedup!Spec

-----------------------------------------------------------------------------
(* An erasure takes exactly its own keys.                                  *)

\* The keys an erasure has released, or looks at, are its subject's; the events it deletes are
\* still stored until it commits, and a key that names one of them is released.
EraseInv ==
  /\ \A k \in eraser.keys \union eraser.todo : k[1] \in eraser.subject
  /\ eraser.phase # Idle => eraser.events \subseteq stored
  /\ eraser.phase # Idle =>
       \A e \in eraser.events : key[KeyOf(e)] = e => KeyOf(e) \in eraser.keys

LEMMA EraseInit == Init => EraseInv
BY DEF Init, EraseInv, NoErasure

LEMMA EraseInvStep ==
  ASSUME KeyInv, FoundInv, EraseInv, [Next]_vars
  PROVE  EraseInv'
<1>r. row' = row /\ \A u : KeyOf(u)' = KeyOf(u)
  BY RowStays
<1>1. CASE eraser' = eraser
  <2>1. ASSUME eraser.phase # Idle PROVE eraser.events \subseteq stored'
    <3>1. \A p : ~DropPartition(p)
      BY <2>1 DEF DropPartition
    <3>2. ~EraseCommit
      BY <1>1, <2>1 DEF EraseCommit, NoErasure
    <3>3. QED
      BY <2>1, <3>1, <3>2, EventGoes DEF EraseInv
  <2>2. ASSUME eraser.phase # Idle, NEW e \in eraser.events, key'[KeyOf(e)] = e
        PROVE  KeyOf(e) \in eraser.keys
    <3>1. e \in stored /\ e \in Tx /\ KeyOf(e) \in Slot
      BY <2>2, KeyOfType DEF EraseInv, KeyInv, TypeOK
    <3>2. CASE key[KeyOf(e)] = e
      BY <2>2, <3>2 DEF EraseInv
    <3>3. CASE key[KeyOf(e)] # e
      <4>1. KeyChange(KeyOf(e))
        BY <2>2, <3>1, <3>3, KeyChanges
      <4>2. ~Arm /\ key'[KeyOf(e)] # NoEvent
        BY <2>2, <3>1, NoEventAssumption DEF Arm
      <4>3. PICK t \in claimed : key'[KeyOf(e)] = t
        BY <4>1, <4>2 DEF KeyChange
      <4>4. QED
        BY <2>2, <3>1, <4>3 DEF KeyInv, Places
    <3>4. QED
      BY <3>2, <3>3
  <2>3. QED
    BY <1>1, <1>r, <2>1, <2>2 DEF EraseInv, KeyOf
<1>2. CASE eraser' = NoErasure
  BY <1>2 DEF EraseInv, NoErasure
<1>3. CASE \E s \in Erasable : EraseEvents(s)
  <2> PICK s \in Erasable : EraseEvents(s)
    BY <1>3
  <2> DEFINE gone == {e \in stored : row[e].subject = s}
             released == {KeyOf(e) : e \in {f \in gone : key[KeyOf(f)] = f}}
  <2>1. /\ eraser' = [phase |-> "events", subject |-> {s}, events |-> gone,
                      keys |-> released, seen |-> {}, todo |-> {}]
        /\ stored' = stored /\ key' = key
    BY DEF EraseEvents
  <2>2. \A k \in released : k[1] = s
    <3>1. \A e \in gone : KeyOf(e)[1] = s
      BY DEF KeyOf
    <3>2. QED
      BY <3>1
  <2>3. \A e \in gone : key[KeyOf(e)] = e => KeyOf(e) \in released
    OBVIOUS
  <2>4. gone \subseteq stored
    OBVIOUS
  <2> HIDE DEF gone, released
  <2>5. /\ eraser'.keys = released /\ eraser'.todo = {} /\ eraser'.subject = {s}
        /\ eraser'.events = gone
    BY <2>1
  <2>6. \A e \in eraser'.events : key'[KeyOf(e)'] = e => KeyOf(e)' \in eraser'.keys
    BY <1>r, <2>1, <2>3, <2>5
  <2>7. QED
    BY <2>1, <2>2, <2>4, <2>5, <2>6 DEF EraseInv
<1>4. CASE EraseLink
  <2>1. /\ eraser'.keys = eraser.keys /\ eraser'.subject = eraser.subject
        /\ eraser'.events = eraser.events /\ eraser.phase # Idle
        /\ eraser'.todo \subseteq eraser.subject \X IdempotencyKey
        /\ stored' = stored /\ key' = key
    BY <1>4 DEF EraseLink, KeyInv, TypeOK, Idle
  <2>2. QED
    BY <1>r, <2>1 DEF EraseInv, KeyOf
<1>5. CASE \E k \in Slot : EraseKey(k)
  <2> PICK k \in Slot : EraseKey(k)
    BY <1>5
  <2>0. /\ eraser.phase # Idle /\ k \in eraser.todo /\ stored' = stored /\ key' = key
        /\ \/ eraser' = [eraser EXCEPT !.todo = @ \ {k}, !.keys = @ \union {k}]
           \/ eraser' = [eraser EXCEPT !.todo = @ \ {k}]
    BY DEF EraseKey, Idle
  <2>1. /\ eraser.keys \subseteq eraser'.keys /\ eraser'.keys \subseteq eraser.keys \union {k}
        /\ eraser'.subject = eraser.subject /\ eraser'.events = eraser.events
        /\ eraser'.todo \subseteq eraser.todo
    BY <2>0 DEF KeyInv, TypeOK
  <2>2. QED
    BY <1>r, <2>0, <2>1 DEF EraseInv, KeyOf
<1>6. QED
  BY <1>1, <1>2, <1>3, <1>4, <1>5
     DEF Next, vars, writers, rest, WriterStep, Submit, ClaimKey, ReadKey, CheckHolder, MoveKey,
         InsertRow, CommitWriter, AbortWriter, Arm, DropPartition, PurgeScan, PurgeStep, PurgeKey,
         PurgeCommit, PurgeAbort, EraseStep, EraseCommit, EraseAbort, Finished, KeyRejected

\* An event an erasure deletes leaves no key behind.
LEMMA ErasedKeysGo ==
  ASSUME KeyInv, FoundInv, EraseInv, [Next]_vars, eraser.phase = "keys",
         NEW e \in stored \ stored', NEW k \in Slot
  PROVE  key'[k] # e
<1>1. EraseCommit /\ e \in eraser.events
  BY EventGoes DEF DropPartition, Idle
<1>2. key'[k] = IF k \in eraser.keys THEN NoEvent ELSE key[k]
  BY <1>1 DEF EraseCommit
<1>3. e # NoEvent
  BY NoEventStored DEF KeyInv
<1>4. CASE key[k] = e
  <2>1. KeyOf(e) = k
    BY <1>3, <1>4 DEF FoundInv, NamesOwnSlot
  <2>2. QED
    BY <1>1, <1>2, <1>3, <1>4, <2>1 DEF EraseInv, Idle
<1>5. QED
  BY <1>2, <1>3, <1>4

\* And no key of an event that stays is taken, but one of the erased subject.
LEMMA OthersKeysStay ==
  ASSUME KeyInv, EraseInv, [Next]_vars,
         NEW k \in Slot, key[k] \in stored', key'[k] # key[k]
  PROVE  k[1] \in eraser.subject
<1>1. KeyChange(k)
  BY KeyChanges
<1>2. ASSUME NEW t \in claimed, CommitWriter(t), k = KeyOf(t) PROVE FALSE
  <2>1. pc[t] \notin Ended /\ key[k] # NoEvent
    BY <1>2, NoEventAssumption DEF KeyInv, TypeOK, CommitWriter, Ended
  <2>2. key[k] # t
    BY <2>1 DEF KeyInv, KeysSettled
  <2>3. key[k] \notin stored
    BY <1>2 DEF KeyInv, NothingHeldIsTaken
  <2>4. QED
    BY <1>2, <2>2, <2>3 DEF CommitWriter
<1>3. CASE Arm /\ key[k] = NoEvent
  BY <1>3, NoEventStored DEF KeyInv, Arm
<1>4. CASE PurgeCommit /\ k \in purger.keys
  BY <1>4 DEF PurgeCommit, KeyInv, NothingHeldIsTaken
<1>5. CASE EraseCommit /\ k \in eraser.keys
  BY <1>5 DEF EraseInv
<1>6. QED
  BY <1>1, <1>2, <1>3, <1>4, <1>5 DEF KeyChange

\* An erasure that deletes events deletes exactly the keys that name them, in the same commit, and
\* takes no live key of another subject, whoever writes, purges or retires partitions meanwhile
\* (release_idempotency_key, release_subject_idempotency_keys).
THEOREM ErasuresAreExact == Spec => ErasureExact
<1> DEFINE Inv == KeyInv /\ FoundInv /\ EraseInv
           Step == /\ eraser.phase = "keys" =>
                        \A e \in stored \ stored' : \A k \in Slot : key'[k] # e
                   /\ \A k \in Slot : key[k] \in stored' /\ key'[k] # key[k]
                                        => k[1] \in eraser.subject
<1>1. Init => Inv
  BY KeyInvInit, FoundInit, EraseInit
<1>2. Inv /\ [Next]_vars => Inv'
  BY KeyInvStep, FoundStep, EraseInvStep
<1>3. Inv /\ [Next]_vars => [Step]_vars
  BY ErasedKeysGo, OthersKeysStay
<1>4. QED
  BY <1>1, <1>2, <1>3, PTL DEF Spec, ErasureExact
=============================================================================
