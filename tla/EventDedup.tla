----------------------------- MODULE EventDedup -----------------------------
(***************************************************************************)
(* What activity.event_idempotency promises, with no transaction, lock or  *)
(* trigger in sight: once deduplication is in force an event is recorded   *)
(* only while no recorded event of its subject carries its key, and an     *)
(* occurrence key (instant, idempotency key) is recorded once at most.     *)
(* Events recorded twice before deduplication came into force are kept     *)
(* ("tolerated"); recorded events are forgotten by retention and erasure.  *)
(***************************************************************************)
CONSTANTS
  Event,     \* the events that can be submitted
  Subject, IdempotencyKey, Instant

VARIABLES
  row,       \* the columns of each event
  log,       \* the recorded events
  inForce,   \* deduplication is in force
  tolerated  \* duplicates recorded before it was

vars == <<row, log, inForce, tolerated>>

Row == [subject : Subject, key : IdempotencyKey, at : Instant]

SameKey(e, f) == row[e].subject = row[f].subject /\ row[e].key = row[f].key
SameOccurrence(e, f) == row[e].at = row[f].at /\ row[e].key = row[f].key

Init ==
  /\ row \in [Event -> Row]
  /\ log = {}
  /\ inForce \in BOOLEAN
  /\ tolerated = {}

Record(e) ==
  /\ \A f \in log : ~SameOccurrence(e, f)
  /\ inForce => \A f \in log \ tolerated : ~SameKey(e, f)
  /\ log' = log \union {e}
  /\ UNCHANGED <<row, inForce, tolerated>>

\* Deduplication comes into force: one event of every key recorded so far is
\* chosen to stand for it, the others are tolerated.
Enforce ==
  /\ ~inForce
  /\ inForce' = TRUE
  /\ \E chosen \in SUBSET log :
       /\ \A e, f \in chosen : SameKey(e, f) => e = f
       /\ \A e \in log : \E f \in chosen : SameKey(e, f)
       /\ tolerated' = log \ chosen
  /\ UNCHANGED <<row, log>>

Forget ==
  /\ \E gone \in SUBSET log : log' = log \ gone
  /\ UNCHANGED <<row, inForce, tolerated>>

Next == (\E e \in Event : Record(e)) \/ Enforce \/ Forget

Spec == Init /\ [][Next]_vars
=============================================================================
