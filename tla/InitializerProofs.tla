--------------------------- MODULE InitializerProofs ---------------------------
(***************************************************************************)
(* Theorems about Initializer, for any number of processes that run it at  *)
(* the same time and any schemas: exit status 0 is never a lie, and every  *)
(* run ends with its pools closed and its measurements in agreement with   *)
(* its exit status.                                                        *)
(*                                                                         *)
(* A process is described by its own entry in each variable (Place, TaskOk *)
(* and Ends below); what it shares with the others, the database and the   *)
(* objects made in it, only grows, so no step of another process can spoil *)
(* what a process relies on (Others).                                      *)
(***************************************************************************)
EXTENDS Initializer, FiniteSetTheorems, TLAPS

Complete(s) == made[s] = 1..Statements[s]
Before == {"ensure", "create", "verify"}

\* main up to the gather has touched no store and measured nothing; nothing
\* has been thrown out of a main that still runs.
Place(p) ==
  /\ pc[p] # "exited" => ~thrown[p]
  /\ pc[p] \in Before =>
       metrics[p] = {} /\ \A s \in Store : task[p][s] = "idle"
  /\ pc[p] = "verify" => mode
  /\ pc[p] = "gather" => database

\* A task that has seen no failure leaves no gap behind it.
TaskOk(p, s) ==
  /\ next[p][s] \in 1..Statements[s]
  /\ task[p][s] \in {"idle", "open"} => next[p][s] = 1
  /\ task[p][s] \in {"idle", "open", "ended"} => s \notin opened[p]
  /\ task[p][s] \in {"look", "make"} /\ failures[p][s] = 0
       => 1..(next[p][s] - 1) \subseteq made[s]
  /\ task[p][s] = "close" => result[p][s] \in Outcome
  /\ task[p][s] = "ended" => result[p][s] \in Outcome \union {Raised}
  /\ result[p][s] = "success" => Complete(s)
  /\ result[p][s] = Raised => task[p][s] = "ended"

\* What a task that ended has measured.
Measured(p, s) == <<s, IF result[p][s] = Raised THEN "failure" ELSE result[p][s]>>
Measures(p) ==
  pc[p] = "gather" =>
    \A m : m \in metrics[p] <=>
      \E s \in Store : task[p][s] = "ended" /\ m = Measured(p, s)

Ends(p) ==
  /\ exit[p] = 0 => database /\ \A s \in Store : Complete(s)
  /\ pc[p] = "exited" => opened[p] = {}
  /\ pc[p] = "exited" /\ exit[p] # Running =>
       /\ exit[p] = 0 =>
            ~thrown[p] /\ metrics[p] = (Store \union {"all"}) \X {"success"}
       /\ exit[p] = 1 /\ ~thrown[p] =>
            /\ <<"all", "failure">> \in metrics[p]
            /\ \/ metrics[p] = {<<"all", "failure">>} /\ Untouched(p)
               \/ \A s \in Store : <<s, result[p][s]>> \in metrics[p]
       /\ thrown[p] =>
            /\ \A m \in metrics[p] : m[1] # "all"
            /\ \/ metrics[p] = {} /\ Untouched(p)
               \/ \E s \in Store : result[p][s] = Raised /\ <<s, "failure">> \in metrics[p]
       /\ \A m, n \in metrics[p] : m[1] = "all" /\ n[1] = "all" => m = n

Sound(p) == /\ Place(p) /\ Measures(p) /\ Ends(p)
            /\ \A s \in Store : TaskOk(p, s)

Shared == /\ mode => database
          /\ \A s \in Store : made[s] \subseteq 1..Statements[s]

IInv == TypeOK /\ Shared /\ \A p \in Process : Sound(p)

(* ---- what the other processes see of a step ---- *)
Own(q) == <<pc[q], task[q], next[q], failures[q], result[q], opened[q],
            metrics[q], exit[q], thrown[q]>>
Grows == /\ database => database'
         /\ mode' = mode
         /\ \A s \in Store : made[s] \subseteq made'[s]

LEMMA Others ==
  ASSUME IInv, NEW p \in Process, Grows, Shared', TypeOK', Sound(p)',
         \A q \in Process \ {p} : Own(q)' = Own(q)
  PROVE  IInv'
<1>1. ASSUME NEW s \in Store, Complete(s) PROVE Complete(s)'
  BY <1>1 DEF Grows, Shared, Complete
<1>2. ASSUME NEW q \in Process \ {p} PROVE Sound(q)'
  <2>1. /\ pc'[q] = pc[q] /\ task'[q] = task[q] /\ next'[q] = next[q]
        /\ failures'[q] = failures[q] /\ result'[q] = result[q]
        /\ opened'[q] = opened[q] /\ metrics'[q] = metrics[q] /\ exit'[q] = exit[q]
        /\ thrown'[q] = thrown[q]
    BY DEF Own
  <2>2. Sound(q)
    BY DEF IInv
  <2>3. Place(q)'
    BY <2>1, <2>2 DEF Sound, Place, Grows
  <2>4. Measures(q)'
    BY <2>1, <2>2 DEF Sound, Measures, Measured
  <2>5. Ends(q)'
    BY <1>1, <2>1, <2>2 DEF Sound, Ends, Untouched, Grows
  <2>6. ASSUME NEW s \in Store PROVE TaskOk(q, s)'
    BY <1>1, <2>1, <2>2 DEF Sound, TaskOk, Grows
  <2> QED BY <2>3, <2>4, <2>5, <2>6 DEF Sound
<1> QED BY <1>2 DEF IInv

(* ---- main up to the gather ---- *)
LEMMA GiveUpStep ==
  ASSUME IInv, NEW p \in Process, pc[p] \in Before, GiveUp(p),
         UNCHANGED <<made, mode, ready, calm>>, database' \in BOOLEAN,
         database => database'
  PROVE  IInv'
<1>1. /\ metrics' = [metrics EXCEPT ![p] = {<<"all", "failure">>}]
      /\ exit' = [exit EXCEPT ![p] = 1] /\ pc' = [pc EXCEPT ![p] = "exited"]
      /\ UNCHANGED <<tasks, thrown>>
  BY DEF GiveUp, Exit, IInv, TypeOK, Sound, Place
<1>2. TypeOK'
  BY <1>1 DEF IInv, TypeOK, tasks, Outcome
<1>3. Grows /\ Shared'
  BY DEF Grows, Shared, IInv
<1>4. \A q \in Process \ {p} : Own(q)' = Own(q)
  BY <1>1 DEF Own, tasks, IInv, TypeOK
<1>5. /\ metrics'[p] = {<<"all", "failure">>} /\ exit'[p] = 1 /\ pc'[p] = "exited"
      /\ result'[p] = result[p] /\ opened'[p] = opened[p] /\ task'[p] = task[p]
      /\ ~thrown'[p]
  BY <1>1 DEF tasks, IInv, TypeOK, Sound, Place, Before
<1>6. opened[p] = {}
  BY DEF IInv, TypeOK, Sound, Place, TaskOk
<1>7. Ends(p)'
  <2>1. Untouched(p)'
    BY <1>5 DEF Untouched, IInv, Sound, Place
  <2> QED BY <1>5, <1>6, <2>1 DEF Ends
<1>8. \A s \in Store : TaskOk(p, s)'
  BY <1>1 DEF tasks, TaskOk, Complete, Sound, IInv
<1>9. Place(p)' /\ Measures(p)'
  BY <1>5 DEF Place, Measures, Before
<1> QED BY <1>2, <1>3, <1>4, <1>7, <1>8, <1>9, Others DEF Sound

\* An exception before the gather.
LEMMA EscapeStep ==
  ASSUME IInv, NEW p \in Process, pc[p] \in Before, Escape(p),
         UNCHANGED <<database, made, world>>
  PROVE  IInv'
<1>1. /\ exit' = [exit EXCEPT ![p] = 1] /\ pc' = [pc EXCEPT ![p] = "exited"]
      /\ thrown' = [thrown EXCEPT ![p] = TRUE]
      /\ opened' = [opened EXCEPT ![p] = @ \ Store]
      /\ UNCHANGED <<task, next, found, failures, result, metrics>>
  BY DEF Escape, Exit, Shut
<1> USE DEF world
<1>2. /\ exit'[p] = 1 /\ pc'[p] = "exited" /\ opened'[p] = {} /\ thrown'[p]
      /\ \A q \in Process \ {p} : /\ opened'[q] = opened[q] /\ exit'[q] = exit[q]
                                  /\ pc'[q] = pc[q] /\ thrown'[q] = thrown[q]
  BY <1>1 DEF IInv, TypeOK
<1>3. TypeOK'
  BY <1>1 DEF IInv, TypeOK
<1>4. Grows /\ Shared'
  BY DEF Grows, Shared, IInv
<1>5. \A q \in Process \ {p} : Own(q)' = Own(q)
  BY <1>1, <1>2 DEF Own
<1>6. Ends(p)'
  <2>1. metrics[p] = {} /\ Untouched(p)
    BY DEF Untouched, IInv, Sound, Place
  <2>2. metrics'[p] = {} /\ Untouched(p)'
    BY <1>1, <2>1 DEF Untouched
  <2> QED BY <1>2, <2>2 DEF Ends
<1>7. Place(p)' /\ Measures(p)'
  BY <1>2 DEF Place, Measures, Before
<1>8. \A s \in Store : TaskOk(p, s)'
  BY <1>1, <1>2 DEF TaskOk, Complete, IInv, Sound
<1> QED BY <1>3, <1>4, <1>5, <1>6, <1>7, <1>8, Others DEF Sound

LEMMA GatherStep ==
  ASSUME IInv, NEW p \in Process, pc[p] \in Before, Gather(p),
         UNCHANGED <<made, mode, ready, calm>>, database'
  PROVE  IInv'
<1>1. /\ pc' = [pc EXCEPT ![p] = "gather"]
      /\ task' = [task EXCEPT ![p] = [s \in Store |-> "open"]]
      /\ UNCHANGED <<next, found, failures, result, opened, metrics, exit, thrown>>
  BY DEF Gather
<1>2. TypeOK'
  <2>1. [s \in Store |-> "open"]
          \in [Store -> {"idle", "open", "look", "make", "close", "ended"}]
    OBVIOUS
  <2> HIDE DEF Store
  <2> QED BY <1>1, <2>1 DEF IInv, TypeOK
<1>3. Grows /\ Shared'
  BY DEF Grows, Shared, IInv
<1>4. \A q \in Process \ {p} : Own(q)' = Own(q)
  BY <1>1 DEF Own, IInv, TypeOK
<1>5. pc'[p] = "gather" /\ \A s \in Store : task'[p][s] = "open" /\ task[p][s] = "idle"
  BY <1>1 DEF IInv, TypeOK, Sound, Place
<1>6. metrics[p] = {}
  BY DEF IInv, Sound, Place
<1>7. Place(p)' /\ Measures(p)'
  BY <1>1, <1>5, <1>6 DEF Place, Before, Measures, IInv, Sound
<1>8. Ends(p)'
  BY <1>1, <1>5 DEF Ends, Complete, IInv, Sound
<1>9. \A s \in Store : TaskOk(p, s)'
  BY <1>1, <1>5 DEF TaskOk, Complete, IInv, Sound
<1> QED BY <1>2, <1>3, <1>4, <1>7, <1>8, <1>9, Others DEF Sound

LEMMA EarlyStep ==
  ASSUME IInv, NEW p \in Process,
         Misconfigured(p) \/ CheckDatabase(p) \/ CreateDatabase(p) \/ Verify(p)
  PROVE  IInv'
<1>1. CASE CheckDatabase(p)
  <2>1. CASE ~database /\ pc' = [pc EXCEPT ![p] = "create"] /\ UNCHANGED <<metrics, exit, thrown, tasks>>
    <3>1. TypeOK' /\ Grows /\ Shared'
      BY <1>1, <2>1 DEF CheckDatabase, world, tasks, TypeOK, Grows, Shared, IInv
    <3>2. \A q \in Process \ {p} : Own(q)' = Own(q)
      BY <2>1 DEF Own, tasks, IInv, TypeOK
    <3>3. pc'[p] = "create" /\ pc[p] \in Before
      BY <1>1, <2>1 DEF CheckDatabase, Before, IInv, TypeOK
    <3>4. Place(p)' /\ Measures(p)'
      BY <2>1, <3>3 DEF Place, Measures, Before, tasks, IInv, Sound
    <3>5. Ends(p)' /\ \A s \in Store : TaskOk(p, s)'
      BY <1>1, <2>1, <3>3 DEF CheckDatabase, tasks, Ends, Untouched, TaskOk, Complete, IInv, Sound
    <3> QED BY <3>1, <3>2, <3>4, <3>5, Others DEF Sound
  <2> QED BY <1>1, <2>1, GatherStep, GiveUpStep DEF CheckDatabase, world, Before, IInv, TypeOK
<1>2. CASE CreateDatabase(p)
  BY <1>2, GatherStep, GiveUpStep DEF CreateDatabase, world, Before, IInv, TypeOK
<1>3. CASE Verify(p)
  <2>1. database
    BY <1>3 DEF Verify, IInv, Shared, Sound, Place
  <2> QED BY <1>3, <2>1, GatherStep, GiveUpStep, EscapeStep DEF Verify, world, Before, IInv, TypeOK
<1>4. CASE Misconfigured(p)
  BY <1>4, EscapeStep DEF Misconfigured, Before
<1> QED BY <1>1, <1>2, <1>3, <1>4

(* ---- one store's task ---- *)
\* Writing one task's entry.
LEMMA Entry ==
  ASSUME NEW R, NEW f \in [Process -> [Store -> R]], NEW p \in Process,
         NEW s \in Store, NEW x \in R
  PROVE  LET g == [f EXCEPT ![p][s] = x] IN
           /\ g \in [Process -> [Store -> R]] /\ g[p][s] = x
           /\ \A t \in Store \ {s} : g[p][t] = f[p][t]
           /\ \A q \in Process \ {p} : g[q] = f[q]
  OBVIOUS

\* A task that is not at its end has measured nothing yet, and moves only
\* within the gather.
LEMMA TaskFrame ==
  ASSUME IInv, NEW p \in Process, NEW s \in Store, pc[p] = "gather",
         UNCHANGED <<pc, metrics, exit, thrown, mode>>, database' = database,
         task[p][s] # "ended", task'[p][s] # "ended",
         \A t \in Store \ {s} : task'[p][t] = task[p][t] /\ result'[p][t] = result[p][t]
  PROVE  Place(p)' /\ Measures(p)'
<1>1. Place(p)'
  BY DEF Place, Before, IInv, Sound
<1>2. Measures(p)'
  BY DEF Measures, Measured, IInv, Sound
<1> QED BY <1>1, <1>2

\* The other store's task of the same process.
LEMMA OtherTask ==
  ASSUME IInv, NEW p \in Process, NEW t \in Store,
         task'[p][t] = task[p][t], next'[p][t] = next[p][t],
         failures'[p][t] = failures[p][t], result'[p][t] = result[p][t],
         t \in opened'[p] => t \in opened[p], Grows, Shared'
  PROVE  TaskOk(p, t)'
<1>1. TaskOk(p, t)
  BY DEF IInv, Sound
<1>2. Complete(t) => Complete(t)'
  BY DEF Complete, Grows, Shared
<1> QED BY <1>1, <1>2 DEF TaskOk, Grows

LEMMA OpenStep ==
  ASSUME IInv, NEW p \in Process, NEW s \in Store, Open(p, s)
  PROVE  IInv'
<1>1. /\ pc[p] = "gather" /\ task[p][s] = "open"
      /\ opened' = [opened EXCEPT ![p] = @ \union {s}]
      /\ UNCHANGED <<database, made, next, found, failures, main, world>>
      /\ \/ Goto(p, s, "look") /\ UNCHANGED result
         \/ result' = [result EXCEPT ![p][s] = "failure"] /\ Goto(p, s, "close")
  BY DEF Open, At
<1> USE DEF Goto, main, world
<1>2. TypeOK'
  <2>1. result' \in [Process -> [Store -> Outcome \union {Unset, Raised}]]
    <3>1. [result EXCEPT ![p][s] = "failure"]
            \in [Process -> [Store -> Outcome \union {Unset, Raised}]]
      BY Entry DEF IInv, TypeOK, Outcome
    <3> QED BY <1>1, <3>1 DEF IInv, TypeOK
  <2>2. task' \in [Process -> [Store -> {"idle", "open", "look", "make", "close", "ended"}]]
    <3>1. \A where \in {"look", "close"} : [task EXCEPT ![p][s] = where]
            \in [Process -> [Store -> {"idle", "open", "look", "make", "close", "ended"}]]
      BY Entry DEF IInv, TypeOK
    <3> QED BY <1>1, <3>1
  <2>3. opened' \in [Process -> SUBSET Store]
    BY <1>1 DEF IInv, TypeOK
  <2> QED BY <1>1, <2>1, <2>2, <2>3 DEF IInv, TypeOK
<1>3. Grows /\ Shared'
  BY <1>1 DEF Grows, Shared, IInv
<1>4. \A q \in Process \ {p} : Own(q)' = Own(q)
  BY <1>1 DEF Own, IInv, TypeOK
<1>5. /\ task'[p][s] \in {"look", "close"}
      /\ \A t \in Store \ {s} : task'[p][t] = task[p][t] /\ result'[p][t] = result[p][t]
      /\ task'[p][s] = "look" => result'[p][s] = result[p][s]
      /\ task'[p][s] = "close" => result'[p][s] = "failure"
      /\ \A t \in Store \ {s} : t \in opened'[p] => t \in opened[p]
  BY <1>1 DEF IInv, TypeOK
<1>6. Place(p)' /\ Measures(p)'
  BY <1>1, <1>5, TaskFrame
<1>7. Ends(p)'
  BY <1>1 DEF Ends, Complete, IInv, Sound
<1>8. TaskOk(p, s)'
  <2>1. TaskOk(p, s)
    BY DEF IInv, Sound
  <2> QED BY <1>1, <1>5, <2>1 DEF TaskOk, Complete, Outcome, Raised
<1>9. ASSUME NEW t \in Store \ {s} PROVE TaskOk(p, t)'
  BY <1>1, <1>3, <1>5, OtherTask
<1> QED BY <1>2, <1>3, <1>4, <1>6, <1>7, <1>8, <1>9, Others DEF Sound

LEMMA LookStep ==
  ASSUME IInv, NEW p \in Process, NEW s \in Store, Look(p, s)
  PROVE  IInv'
<1>1. /\ pc[p] = "gather" /\ task[p][s] = "look" /\ Goto(p, s, "make")
      /\ UNCHANGED <<database, made, next, failures, result, opened, main, world>>
  BY DEF Look, At
<1>2. found' \in [Process -> [Store -> BOOLEAN]]
  <2>1. (s = "postgresql" /\ next[p][s] \in made[s]) \in BOOLEAN
    OBVIOUS
  <2> QED BY <2>1 DEF Look, IInv, TypeOK
<1> USE DEF Goto, main, world
<1>3. TypeOK'
  <2>1. task' \in [Process -> [Store -> {"idle", "open", "look", "make", "close", "ended"}]]
    BY <1>1 DEF IInv, TypeOK
  <2> QED BY <1>1, <1>2, <2>1 DEF IInv, TypeOK
<1>4. Grows /\ Shared'
  BY <1>1 DEF Grows, Shared, IInv
<1>5. \A q \in Process \ {p} : Own(q)' = Own(q)
  BY <1>1 DEF Own, IInv, TypeOK
<1>6. task'[p][s] = "make" /\ \A t \in Store \ {s} : task'[p][t] = task[p][t]
  BY <1>1 DEF IInv, TypeOK
<1>7. Place(p)' /\ Measures(p)'
  BY <1>1, <1>6, TaskFrame
<1>8. Ends(p)'
  BY <1>1 DEF Ends, Complete, IInv, Sound
<1>9. TaskOk(p, s)'
  <2>1. TaskOk(p, s)
    BY DEF IInv, Sound
  <2> QED BY <1>1, <1>6, <2>1 DEF TaskOk, Complete
<1>10. ASSUME NEW t \in Store \ {s} PROVE TaskOk(p, t)'
  BY <1>1, <1>4, <1>6, OtherTask
<1> QED BY <1>3, <1>4, <1>5, <1>7, <1>8, <1>9, <1>10, Others DEF Sound

LEMMA MakeStep ==
  ASSUME IInv, NEW p \in Process, NEW s \in Store, Make(p, s)
  PROVE  IInv'
<1>1. /\ pc[p] = "gather" /\ task[p][s] = "make"
      /\ found' = [found EXCEPT ![p][s] = FALSE]
      /\ Step(p, s)
      /\ UNCHANGED <<database, opened, main, world>>
      /\ \/ made' = [made EXCEPT ![s] = @ \union {next[p][s]}] /\ UNCHANGED failures
         \/ failures' = [failures EXCEPT ![p][s] = @ + 1] /\ UNCHANGED made
  BY DEF Make, At
<1> USE DEF Goto, main, world
<1>2. /\ next[p][s] \in 1..Statements[s] /\ Statements[s] \in Nat
      /\ failures[p][s] \in Nat /\ TaskOk(p, s)
  BY StatementsAssumption DEF IInv, TypeOK, Sound, TaskOk
<1>5. /\ failures' \in [Process -> [Store -> Nat]]
      /\ failures'[p][s] = 0 => failures[p][s] = 0 /\ next[p][s] \in made'[s]
      /\ \A t \in Store \ {s} : failures'[p][t] = failures[p][t]
      /\ \A q \in Process \ {p} : failures'[q] = failures[q]
      /\ made' \in [Store -> SUBSET Nat]
      /\ \A t \in Store : /\ made[t] \subseteq made'[t]
                          /\ made'[t] \subseteq made[t] \union {next[p][s]}
                          /\ t # s => made'[t] = made[t]
  <2>1. CASE made' = [made EXCEPT ![s] = @ \union {next[p][s]}] /\ UNCHANGED failures
    BY <1>2, <2>1 DEF IInv, TypeOK
  <2>2. CASE failures' = [failures EXCEPT ![p][s] = @ + 1] /\ UNCHANGED made
    <3>1. failures' = [failures EXCEPT ![p][s] = failures[p][s] + 1]
             /\ failures[p][s] + 1 \in Nat /\ failures[p][s] + 1 # 0
      BY <1>2, <2>2
    <3>2. /\ failures' \in [Process -> [Store -> Nat]]
          /\ failures'[p][s] = failures[p][s] + 1
          /\ \A t \in Store \ {s} : failures'[p][t] = failures[p][t]
          /\ \A q \in Process \ {p} : failures'[q] = failures[q]
      BY <3>1, Entry DEF IInv, TypeOK
    <3> QED BY <2>2, <3>1, <3>2 DEF IInv, TypeOK
  <2> QED BY <1>1, <2>1, <2>2
<1>6. failures'[p][s] = 0 => 1..next[p][s] \subseteq made'[s]
  <2>1. \A n \in Nat \ {0} : 1..n = 1..(n - 1) \union {n}
    OBVIOUS
  <2>2. 1..next[p][s] = 1..(next[p][s] - 1) \union {next[p][s]}
    BY <1>2, <2>1
  <2>3. failures'[p][s] = 0 => 1..(next[p][s] - 1) \subseteq made[s]
    BY <1>1, <1>2, <1>5 DEF TaskOk
  <2>4. made[s] \subseteq made'[s]
    BY <1>5
  <2> QED BY <1>5, <2>2, <2>3, <2>4
<1>3. CASE next[p][s] < Statements[s]
  <2>1. /\ next' = [next EXCEPT ![p][s] = @ + 1]
        /\ task' = [task EXCEPT ![p][s] = "look"] /\ UNCHANGED result
    BY <1>1, <1>3 DEF Step
  <2>2. TypeOK'
    <3>1. next' \in [Process -> [Store -> Nat]]
      BY <2>1 DEF IInv, TypeOK
    <3>4. task' \in [Process -> [Store -> {"idle", "open", "look", "make", "close", "ended"}]]
      BY <2>1 DEF IInv, TypeOK
    <3>5. found' \in [Process -> [Store -> BOOLEAN]]
      BY <1>1 DEF IInv, TypeOK
    <3> QED BY <1>1, <2>1, <1>5, <3>1, <3>4, <3>5 DEF IInv, TypeOK
  <2>3. Grows /\ Shared'
    BY <1>1, <1>2, <1>5 DEF Grows, Shared, IInv, TypeOK
  <2>4. \A q \in Process \ {p} : Own(q)' = Own(q)
    BY <1>1, <1>5, <2>1 DEF Own, IInv, TypeOK
  <2>5. /\ task'[p][s] = "look" /\ next'[p][s] = next[p][s] + 1
        /\ \A t \in Store \ {s} :
             /\ task'[p][t] = task[p][t] /\ next'[p][t] = next[p][t]
             /\ failures'[p][t] = failures[p][t]
    BY <1>5, <2>1 DEF IInv, TypeOK
  <2>6. Place(p)' /\ Measures(p)'
    BY <1>1, <2>1, <2>5, TaskFrame
  <2>7. Ends(p)'
    <3>1. \A t \in Store : Complete(t) => Complete(t)'
      BY <2>3 DEF Grows, Shared, Complete
    <3> QED BY <1>1, <2>1, <3>1 DEF Ends, IInv, Sound
  <2>9. failures'[p][s] = 0 => 1..(next'[p][s] - 1) \subseteq made'[s]
    <3>1. next'[p][s] - 1 = next[p][s]
      BY <1>2, <2>5
    <3> QED BY <1>6, <3>1
  <2>10. result'[p][s] = "success" => Complete(s)'
    BY <1>2, <2>1, <2>3 DEF TaskOk, Grows, Shared, Complete
  <2>11. TaskOk(p, s)'
    BY <1>1, <1>2, <1>3, <2>1, <2>5, <2>9, <2>10 DEF TaskOk
  <2>12. ASSUME NEW t \in Store \ {s} PROVE TaskOk(p, t)'
    BY <1>1, <2>1, <2>3, <2>5, OtherTask
  <2> QED BY <2>2, <2>3, <2>4, <2>6, <2>7, <2>11, <2>12, Others DEF Sound
<1>4. CASE ~(next[p][s] < Statements[s])
  <2>1. /\ result' = [result EXCEPT ![p][s] =
                        IF failures'[p][s] = 0 THEN "success" ELSE "failure"]
        /\ task' = [task EXCEPT ![p][s] = "close"] /\ UNCHANGED next
    BY <1>1, <1>4 DEF Step
  <2>2. TypeOK'
    <3>1. result' \in [Process -> [Store -> Outcome \union {Unset, Raised}]]
      BY <2>1 DEF IInv, TypeOK, Outcome
    <3>4. task' \in [Process -> [Store -> {"idle", "open", "look", "make", "close", "ended"}]]
      BY <2>1 DEF IInv, TypeOK
    <3>5. found' \in [Process -> [Store -> BOOLEAN]]
      BY <1>1 DEF IInv, TypeOK
    <3> QED BY <1>1, <2>1, <1>5, <3>1, <3>4, <3>5 DEF IInv, TypeOK
  <2>3. Grows /\ Shared'
    BY <1>1, <1>2, <1>5 DEF Grows, Shared, IInv, TypeOK
  <2>4. \A q \in Process \ {p} : Own(q)' = Own(q)
    BY <1>1, <1>5, <2>1 DEF Own, IInv, TypeOK
  <2>5. /\ task'[p][s] = "close" /\ next[p][s] = Statements[s]
        /\ result'[p][s] = IF failures'[p][s] = 0 THEN "success" ELSE "failure"
        /\ \A t \in Store \ {s} :
             /\ task'[p][t] = task[p][t] /\ result'[p][t] = result[p][t]
             /\ failures'[p][t] = failures[p][t]
    <3>1. next[p][s] = Statements[s]
      BY <1>2, <1>4
    <3>2. (IF failures'[p][s] = 0 THEN "success" ELSE "failure")
            \in Outcome \union {Unset, Raised}
      BY DEF Outcome
    <3>3. /\ result'[p][s] = IF failures'[p][s] = 0 THEN "success" ELSE "failure"
          /\ \A t \in Store \ {s} : result'[p][t] = result[p][t]
      BY <2>1, <3>2, Entry DEF IInv, TypeOK
    <3> QED BY <1>5, <2>1, <3>1, <3>3 DEF IInv, TypeOK
  <2>6. Place(p)' /\ Measures(p)'
    BY <1>1, <2>1, <2>5, TaskFrame
  <2>7. Ends(p)'
    <3>1. \A t \in Store : Complete(t) => Complete(t)'
      BY <2>3 DEF Grows, Shared, Complete
    <3> QED BY <1>1, <3>1 DEF Ends, IInv, Sound
  <2>9. failures'[p][s] = 0 => 1..Statements[s] \subseteq made'[s]
    BY <1>6, <2>5
  <2>10. result'[p][s] = "success" => Complete(s)'
    BY <2>3, <2>5, <2>9 DEF Shared, Complete
  <2>11. TaskOk(p, s)'
    BY <1>2, <2>1, <2>5, <2>10 DEF TaskOk, Outcome, Raised
  <2>12. ASSUME NEW t \in Store \ {s} PROVE TaskOk(p, t)'
    BY <1>1, <2>1, <2>3, <2>5, OtherTask
  <2> QED BY <2>2, <2>3, <2>4, <2>6, <2>7, <2>11, <2>12, Others DEF Sound
<1> QED BY <1>3, <1>4

LEMMA CloseStep ==
  ASSUME IInv, NEW p \in Process, NEW s \in Store, Close(p, s)
  PROVE  IInv'
<1>1. /\ pc[p] = "gather" /\ task[p][s] = "close"
      /\ opened' = [opened EXCEPT ![p] = @ \ {s}]
      /\ task' = [task EXCEPT ![p][s] = "ended"]
      /\ next' = [next EXCEPT ![p][s] = 1]
      /\ failures' = [failures EXCEPT ![p][s] = 0]
      /\ UNCHANGED <<database, made, found, pc, exit, thrown, world>>
  BY DEF Close, At, Shut, Goto
<1>2. TaskOk(p, s) /\ result[p][s] \in Outcome
  BY <1>1 DEF IInv, Sound, TaskOk
<1>3. PICK raises \in BOOLEAN :
        /\ result' = [result EXCEPT ![p][s] = IF raises THEN Raised ELSE @]
        /\ metrics' = [metrics EXCEPT ![p] = @ \union
             {<<s, IF raises THEN "failure" ELSE result[p][s]>>}]
  BY DEF Close
<1> DEFINE new == IF raises THEN Raised ELSE result[p][s]
           measure == IF raises THEN "failure" ELSE result[p][s]
<1>4. new \in Outcome \union {Raised} /\ measure \in Outcome
        /\ measure = IF new = Raised THEN "failure" ELSE new
  BY <1>2 DEF Outcome, Raised
<1>5. result' = [result EXCEPT ![p][s] = new]
        /\ metrics' = [metrics EXCEPT ![p] = @ \union {<<s, measure>>}]
        /\ (new = "success" => result[p][s] = "success")
  BY <1>3 DEF Raised
<1> HIDE DEF new, measure
<1>6. /\ result' \in [Process -> [Store -> Outcome \union {Unset, Raised}]]
      /\ result'[p][s] = new
      /\ \A t \in Store \ {s} : result'[p][t] = result[p][t]
      /\ \A q \in Process \ {p} : result'[q] = result[q]
  BY <1>4, <1>5, Entry DEF IInv, TypeOK
<1>7. /\ task' \in [Process -> [Store -> {"idle", "open", "look", "make", "close", "ended"}]]
      /\ task'[p][s] = "ended" /\ next'[p][s] = 1 /\ failures'[p][s] = 0
      /\ \A t \in Store \ {s} : /\ task'[p][t] = task[p][t] /\ next'[p][t] = next[p][t]
                                /\ failures'[p][t] = failures[p][t]
      /\ \A q \in Process \ {p} : /\ task'[q] = task[q] /\ next'[q] = next[q]
                                  /\ failures'[q] = failures[q]
  BY <1>1 DEF IInv, TypeOK
<1>8. /\ next' \in [Process -> [Store -> Nat]] /\ failures' \in [Process -> [Store -> Nat]]
      /\ opened' \in [Process -> SUBSET Store] /\ opened'[p] = opened[p] \ {s}
  BY <1>1 DEF IInv, TypeOK
<1>9. /\ metrics' \in [Process -> SUBSET ((Store \union {"all"}) \X Outcome)]
      /\ metrics'[p] = metrics[p] \union {<<s, measure>>}
  BY <1>4, <1>5 DEF IInv, TypeOK
<1>10. TypeOK'
  BY <1>1, <1>6, <1>7, <1>8, <1>9 DEF world, IInv, TypeOK
<1>11. Grows /\ Shared'
  BY <1>1 DEF world, Grows, Shared, IInv
<1>12. \A q \in Process \ {p} : Own(q)' = Own(q)
  <2>1. \A q \in Process \ {p} : opened'[q] = opened[q] /\ metrics'[q] = metrics[q]
    BY <1>1, <1>5 DEF IInv, TypeOK
  <2> QED BY <1>1, <1>6, <1>7, <2>1 DEF Own
<1>13. Place(p)'
  BY <1>1 DEF world, Place, Before, IInv, Sound
<1>14. Measures(p)'
  <2>1. Measured(p, s)' = <<s, measure>>
    BY <1>4, <1>6 DEF Measured
  <2>2. \A t \in Store \ {s} : Measured(p, t)' = Measured(p, t)
    BY <1>6 DEF Measured
  <2>3. \A m : m \in metrics[p] <=>
          \E t \in Store : task[p][t] = "ended" /\ m = Measured(p, t)
    BY <1>1 DEF IInv, Sound, Measures
  <2> QED BY <1>1, <1>7, <1>9, <2>1, <2>2, <2>3 DEF Measures
<1>15. Ends(p)'
  BY <1>1 DEF Ends, Complete, IInv, Sound
<1>16. TaskOk(p, s)'
  <2>1. Statements[s] \in Nat \ {0}
    BY StatementsAssumption
  <2>2. 1 \in 1..Statements[s]
    BY <2>1
  <2> QED BY <1>1, <1>2, <1>4, <1>5, <1>6, <1>7, <1>8, <2>2 DEF TaskOk, Complete
<1>17. ASSUME NEW t \in Store \ {s} PROVE TaskOk(p, t)'
  BY <1>6, <1>7, <1>8, <1>11, OtherTask
<1> QED BY <1>10, <1>11, <1>12, <1>13, <1>14, <1>15, <1>16, <1>17, Others DEF Sound

(* ---- the end of main, and the deployment ---- *)
LEMMA FinishStep ==
  ASSUME IInv, NEW p \in Process, Finish(p)
  PROVE  IInv'
<1> DEFINE whole == IF Succeeded(p) THEN "success" ELSE "failure"
<1>1. /\ pc[p] = "gather" /\ \A s \in Store : task[p][s] = "ended" /\ result[p][s] # Raised
      /\ metrics' = [metrics EXCEPT ![p] = @ \union {<<"all", whole>>}]
      /\ exit' = [exit EXCEPT ![p] = IF Succeeded(p) THEN 0 ELSE 1]
      /\ pc' = [pc EXCEPT ![p] = "exited"]
      /\ UNCHANGED <<database, made, tasks, thrown, world>>
  BY DEF Finish, Exit
<1>2. whole \in Outcome /\ (whole = "success" <=> Succeeded(p))
         /\ (whole # "success" => whole = "failure")
  BY DEF Outcome
<1> HIDE DEF whole
<1> USE DEF tasks, world
<1>3. /\ metrics'[p] = metrics[p] \union {<<"all", whole>>}
      /\ exit'[p] = (IF Succeeded(p) THEN 0 ELSE 1) /\ pc'[p] = "exited"
      /\ \A q \in Process \ {p} : /\ metrics'[q] = metrics[q] /\ exit'[q] = exit[q]
                                  /\ pc'[q] = pc[q]
      /\ ~thrown'[p]
  BY <1>1 DEF IInv, TypeOK, Sound, Place
<1>4. TypeOK'
  <2>1. metrics' \in [Process -> SUBSET ((Store \union {"all"}) \X Outcome)]
    BY <1>1, <1>2 DEF IInv, TypeOK
  <2>2. exit' \in [Process -> {0, 1, Running}]
    BY <1>1 DEF IInv, TypeOK
  <2>3. pc' \in [Process -> {"ensure", "create", "verify", "gather", "exited"}]
    BY <1>1 DEF IInv, TypeOK
  <2> QED BY <1>1, <2>1, <2>2, <2>3 DEF IInv, TypeOK
<1>5. Grows /\ Shared'
  BY <1>1 DEF Grows, Shared, IInv
<1>6. \A q \in Process \ {p} : Own(q)' = Own(q)
  BY <1>1, <1>3 DEF Own
<1>7. \A m : m \in metrics[p] <=> \E s \in Store : m = <<s, result[p][s]>>
  BY <1>1 DEF IInv, Sound, Measures, Measured
<1>8. \A s \in Store : s # "all"
  BY DEF Store
<1>9. Succeeded(p) => database /\ \A s \in Store : Complete(s)
  BY <1>1 DEF Succeeded, IInv, Sound, TaskOk, Place
<1>10. Ends(p)'
  <2>1. opened'[p] = {}
    BY <1>1 DEF IInv, TypeOK, Sound, TaskOk
  <2>2. Succeeded(p) => metrics'[p] = (Store \union {"all"}) \X {"success"}
    <3> SUFFICES ASSUME Succeeded(p)
                 PROVE  metrics'[p] = (Store \union {"all"}) \X {"success"}
      OBVIOUS
    <3>1. \A m : m \in metrics[p] <=> \E s \in Store : m = <<s, "success">>
      BY <1>7 DEF Succeeded
    <3> QED BY <1>2, <1>3, <3>1
  <2>3. ~Succeeded(p) =>
           <<"all", "failure">> \in metrics'[p]
           /\ \A s \in Store : <<s, result[p][s]>> \in metrics'[p]
    BY <1>2, <1>3, <1>7
  <2>4. \A m, n \in metrics'[p] : m[1] = "all" /\ n[1] = "all" => m = n
    <3>1. \A m \in metrics[p] : m[1] # "all"
      BY <1>7, <1>8
    <3> QED BY <1>3, <3>1
  <2> QED BY <1>1, <1>3, <1>9, <2>1, <2>2, <2>3, <2>4 DEF Ends, Complete
<1>11. Place(p)' /\ Measures(p)'
  BY <1>3 DEF Place, Measures, Before
<1>12. \A s \in Store : TaskOk(p, s)'
  BY <1>1 DEF TaskOk, Complete, IInv, Sound
<1> QED BY <1>4, <1>5, <1>6, <1>10, <1>11, <1>12, Others DEF Sound

LEMMA PropagateStep ==
  ASSUME IInv, NEW p \in Process, Propagate(p)
  PROVE  IInv'
<1>1. /\ pc[p] = "gather" /\ \E s \in Store : result[p][s] = Raised
      /\ exit' = [exit EXCEPT ![p] = 1]
      /\ thrown' = [thrown EXCEPT ![p] = TRUE]
      /\ opened' = [opened EXCEPT ![p] = @ \ Store]
      /\ pc' = [pc EXCEPT ![p] = "exited"]
      /\ UNCHANGED <<database, made, task, next, found, failures, result, metrics, world>>
  BY DEF Propagate, Escape, Exit, Shut
<1> USE DEF world
<1>2. /\ exit'[p] = 1 /\ pc'[p] = "exited" /\ opened'[p] = {} /\ thrown'[p]
      /\ \A q \in Process \ {p} : /\ opened'[q] = opened[q] /\ exit'[q] = exit[q]
                                  /\ pc'[q] = pc[q] /\ thrown'[q] = thrown[q]
  BY <1>1 DEF IInv, TypeOK
<1>3. TypeOK'
  BY <1>1 DEF IInv, TypeOK
<1>4. Grows /\ Shared'
  BY <1>1 DEF Grows, Shared, IInv
<1>5. \A q \in Process \ {p} : Own(q)' = Own(q)
  BY <1>1, <1>2 DEF Own
<1>6. \A m \in metrics[p] : m[1] # "all"
  <2>1. \A s \in Store : s # "all"
    BY DEF Store
  <2> QED BY <1>1, <2>1 DEF IInv, Sound, Measures, Measured
<1>7. \E s \in Store : result[p][s] = Raised /\ <<s, "failure">> \in metrics[p]
  <2>1. PICK s \in Store : result[p][s] = Raised
    BY <1>1
  <2>2. task[p][s] = "ended"
    BY <2>1 DEF IInv, Sound, TaskOk
  <2> QED BY <1>1, <2>1, <2>2 DEF IInv, Sound, Measures, Measured
<1>8. Ends(p)'
  BY <1>1, <1>2, <1>6, <1>7 DEF Ends
<1>9. Place(p)' /\ Measures(p)'
  BY <1>2 DEF Place, Measures, Before
<1>10. \A s \in Store : TaskOk(p, s)'
  BY <1>1, <1>2 DEF TaskOk, Complete, IInv, Sound
<1> QED BY <1>3, <1>4, <1>5, <1>8, <1>9, <1>10, Others DEF Sound

\* Death and a new run both forget everything but what the stores hold.
LEMMA ForgetStep ==
  ASSUME IInv, NEW p \in Process, Forget(p), NEW where \in Before \union {"exited"},
         pc' = [pc EXCEPT ![p] = where], where = "verify" => mode,
         opened' = [opened EXCEPT ![p] = {}],
         UNCHANGED <<database, made, world>>
  PROVE  IInv'
<1> USE DEF world
<1>1. /\ task' = [task EXCEPT ![p] = [s \in Store |-> "idle"]]
      /\ next' = [next EXCEPT ![p] = [s \in Store |-> 1]]
      /\ found' = [found EXCEPT ![p] = [s \in Store |-> FALSE]]
      /\ failures' = [failures EXCEPT ![p] = [s \in Store |-> 0]]
      /\ result' = [result EXCEPT ![p] = [s \in Store |-> Unset]]
      /\ metrics' = [metrics EXCEPT ![p] = {}]
      /\ exit' = [exit EXCEPT ![p] = Running]
      /\ thrown' = [thrown EXCEPT ![p] = FALSE]
  BY DEF Forget
<1>2. TypeOK'
  <2>1. /\ [s \in Store |-> "idle"]
             \in [Store -> {"idle", "open", "look", "make", "close", "ended"}]
        /\ [s \in Store |-> 1] \in [Store -> Nat] /\ [s \in Store |-> 0] \in [Store -> Nat]
        /\ [s \in Store |-> FALSE] \in [Store -> BOOLEAN]
        /\ [s \in Store |-> Unset] \in [Store -> Outcome \union {Unset, Raised}]
    OBVIOUS
  <2>2. where \in {"ensure", "create", "verify", "gather", "exited"}
    BY DEF Before
  <2> QED BY <1>1, <2>1, <2>2 DEF IInv, TypeOK
<1>3. Grows /\ Shared'
  BY DEF Grows, Shared, IInv
<1>4. \A q \in Process \ {p} : Own(q)' = Own(q)
  BY <1>1 DEF Own, IInv, TypeOK
<1>5. /\ pc'[p] = where /\ opened'[p] = {} /\ metrics'[p] = {} /\ exit'[p] = Running
      /\ ~thrown'[p]
      /\ \A s \in Store : /\ task'[p][s] = "idle" /\ next'[p][s] = 1
                          /\ failures'[p][s] = 0 /\ result'[p][s] = Unset
  BY <1>1 DEF IInv, TypeOK
<1>6. Place(p)' /\ Measures(p)' /\ Ends(p)'
  BY <1>5 DEF Place, Measures, Ends, Before, Running
<1>7. ASSUME NEW s \in Store PROVE TaskOk(p, s)'
  <2>1. Statements[s] \in Nat \ {0}
    BY StatementsAssumption
  <2>2. 1 \in 1..Statements[s]
    BY <2>1
  <2> QED BY <1>5, <2>2 DEF TaskOk, Unset, Raised
<1> QED BY <1>2, <1>3, <1>4, <1>6, <1>7, Others DEF Sound

(* ---- the theorems ---- *)
LEMMA InitOk == Init => IInv
<1> SUFFICES ASSUME Init PROVE IInv
  OBVIOUS
<1>1. TypeOK
  BY ProvisionedAssumption DEF Init, TypeOK, Fresh
<1>2. Shared
  BY DEF Init, Shared
<1>3. ASSUME NEW p \in Process PROVE Sound(p)
  <2>1. ASSUME NEW s \in Store PROVE TaskOk(p, s)
    <3>1. Statements[s] \in Nat \ {0}
      BY StatementsAssumption
    <3>2. 1 \in 1..Statements[s]
      BY <3>1
    <3> QED BY <3>2 DEF Init, Fresh, TaskOk, Unset, Raised
  <2>2. Place(p) /\ Measures(p) /\ Ends(p)
    BY DEF Init, Fresh, Place, Measures, Ends, Before, Running
  <2> QED BY <2>1, <2>2 DEF Sound
<1> QED BY <1>1, <1>2, <1>3 DEF IInv

LEMMA NextOk ==
  ASSUME IInv, [Next]_vars
  PROVE  IInv'
<1>1. ASSUME NEW p \in Process, Main(p) PROVE IInv'
  BY <1>1, EarlyStep, FinishStep, PropagateStep DEF Main
<1>2. ASSUME NEW p \in Process, NEW s \in Store, Task(p, s) PROVE IInv'
  BY <1>2, OpenStep, LookStep, MakeStep, CloseStep DEF Task
<1>3. ASSUME NEW p \in Process, Die(p) PROVE IInv'
  <2>1. /\ Forget(p) /\ pc' = [pc EXCEPT ![p] = "exited"]
        /\ opened' = [opened EXCEPT ![p] = {}] /\ UNCHANGED <<database, made, world>>
    BY <1>3 DEF Die
  <2>2. "exited" \in Before \union {"exited"} /\ "exited" # "verify"
    OBVIOUS
  <2> QED BY <2>1, <2>2, ForgetStep
<1>4. ASSUME NEW p \in Process, Rerun(p) PROVE IInv'
  <2>1. opened[p] = {}
    BY <1>4 DEF Rerun, IInv, Sound, Ends
  <2>2. opened' = [opened EXCEPT ![p] = {}]
    BY <1>4, <2>1 DEF Rerun, IInv, TypeOK
  <2> DEFINE start == IF mode THEN "verify" ELSE "ensure"
  <2>3. /\ Forget(p) /\ pc' = [pc EXCEPT ![p] = start]
        /\ UNCHANGED <<database, made, world>>
    BY <1>4 DEF Rerun
  <2>4. start \in Before \union {"exited"} /\ (start = "verify" => mode)
    BY DEF Before
  <2> HIDE DEF start
  <2> QED BY <2>2, <2>3, <2>4, ForgetStep
<1>5. CASE CalmDown \/ UNCHANGED vars
  <2>1. /\ UNCHANGED <<database, made, mode, pc, tasks, metrics, exit, thrown>>
        /\ ready' \in BOOLEAN /\ calm' \in BOOLEAN
    BY <1>5 DEF CalmDown, vars, tasks, IInv, TypeOK
  <2> USE DEF tasks
  <2>2. TypeOK' /\ Shared'
    BY <2>1 DEF IInv, TypeOK, Shared
  <2>3. ASSUME NEW p \in Process PROVE Sound(p)'
    <3>1. Place(p)' /\ Measures(p)'
      BY <2>1 DEF Place, Measures, Measured, Sound, IInv
    <3>2. Ends(p)'
      BY <2>1 DEF Ends, Untouched, Complete, Sound, IInv
    <3>3. \A s \in Store : TaskOk(p, s)'
      BY <2>1 DEF TaskOk, Complete, Sound, IInv
    <3> QED BY <3>1, <3>2, <3>3 DEF Sound
  <2> QED BY <2>2, <2>3 DEF IInv
<1> QED BY <1>1, <1>2, <1>3, <1>4, <1>5 DEF Next, Done

LEMMA Invariant == Spec => []IInv
BY InitOk, NextOk, PTL DEF Spec

\* The processes' entries keep their types, and the shared objects theirs.
THEOREM TypeCorrect == Spec => []TypeOK
<1>1. IInv => TypeOK
  BY DEF IInv
<1> QED BY <1>1, Invariant, PTL

\* Exit status 0 means ready (initializer.py:378-388), however many
\* initializers race, fail and die, and however long the schemas are.
THEOREM ExitZeroIsTrue == Spec => []ExitZeroMeansReady
<1>1. IInv => ExitZeroMeansReady
  BY DEF IInv, Sound, Ends, Complete, ExitZeroMeansReady
<1> QED BY <1>1, Invariant, PTL

LEMMA AtMostOne ==
  ASSUME NEW S, \A x, y \in S : x = y
  PROVE  Cardinality(S) <= 1
<1>1. CASE S = {}
  BY <1>1, FS_EmptySet
<1>2. CASE S # {}
  <2>1. PICK x \in S : TRUE
    BY <1>2
  <2>2. S = {x}
    BY <2>1
  <2> QED BY <2>2, FS_Singleton
<1> QED BY <1>1, <1>2

\* Measurements and exit status agree, and nothing stays open
\* (initializer.py:144-171, 307-309, 336-338, 357-388), at every exit, whether
\* main returns or an exception ends it.
THEOREM RunsEndInOrder == Spec => []EndsInOrder
<1>1. ASSUME IInv, NEW p \in Process, pc[p] = "exited", exit[p] # Running
      PROVE  Cardinality({m \in metrics[p] : m[1] = "all"}) <= 1
  <2>1. \A m, n \in {k \in metrics[p] : k[1] = "all"} : m = n
    BY <1>1 DEF IInv, Sound, Ends
  <2> QED BY <2>1, AtMostOne
<1>2. IInv => OutcomesAgree
  BY <1>1 DEF IInv, Sound, Ends, OutcomesAgree
<1>3. IInv => NothingLeftOpen
  BY DEF IInv, Sound, Ends, NothingLeftOpen
<1> QED BY <1>2, <1>3, Invariant, PTL DEF EndsInOrder
================================================================================
