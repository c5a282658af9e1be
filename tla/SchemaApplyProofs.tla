-------------------------- MODULE SchemaApplyProofs --------------------------
(***************************************************************************)
(* Type correctness of SchemaApply and that a run's report is true, for any *)
(* lists, modes, numbers of attempts and databases to start from that       *)
(* satisfy its assumptions.                                                 *)
(***************************************************************************)
EXTENDS SchemaApply, SequenceTheorems, TLAPS

(* ---- lists ---- *)
LEMMA HeadAndTail ==
  ASSUME NEW S, NEW list \in Seq(S), list # <<>>
  PROVE  /\ Head(list) \in S /\ Head(list) = list[1] /\ Tail(list) \in Seq(S)
         /\ Len(list) \in Nat /\ Len(list) >= 1 /\ Len(Tail(list)) = Len(list) - 1
         /\ \A i \in 1..Len(Tail(list)) : Tail(list)[i] = list[i + 1]
         /\ (Len(list) > 1 => Tail(list) # <<>>) /\ (~(Len(list) > 1) => Tail(list) = <<>>)
<1>1. Len(list) \in Nat /\ Len(list) >= 1 /\ DOMAIN list = 1..Len(list)
  OBVIOUS
<1>2. Head(list) \in S /\ Head(list) = list[1]
  BY <1>1
<1>3. Tail(list) \in Seq(S) /\ Len(Tail(list)) = Len(list) - 1
  OBVIOUS
<1>4. \A i \in 1..Len(Tail(list)) : Tail(list)[i] = list[i + 1]
  BY HeadTailProperties, Zenon
<1>5. Len(list) > 1 => Tail(list) # <<>>
  <2>1. ASSUME Tail(list) = <<>> PROVE Len(Tail(list)) = 0
    <3>1. Len(<<>>) = 0
      OBVIOUS
    <3> QED  BY <2>1, <3>1, Zenon
  <2> QED  BY <1>1, <1>3, <2>1
<1>6. ~(Len(list) > 1) => Tail(list) = <<>>
  <2>1. ~(Len(list) > 1) => Len(Tail(list)) = 0
    BY <1>1, <1>3
  <2> QED  BY <2>1, <1>3
<1> QED  BY <1>1, <1>2, <1>3, <1>4, <1>5, <1>6

LEMMA MadeByRest ==
  ASSUME NEW list \in Seq(Statements), list # <<>>
  PROVE  MadeBy(list) = Head(list).makes \cup MadeBy(Tail(list))
<1>1. \A x : x \in MadeBy(list) => x \in Head(list).makes \cup MadeBy(Tail(list))
  <2> SUFFICES ASSUME NEW i \in DOMAIN list, NEW x \in list[i].makes
               PROVE  x \in Head(list).makes \cup MadeBy(Tail(list))
    BY DEF MadeBy
  <2>1. CASE i = 1  BY <2>1
  <2>2. CASE i # 1
    <3>1. i - 1 \in DOMAIN Tail(list) /\ Tail(list)[i - 1] = list[i]
      BY <2>2, HeadAndTail
    <3> QED  BY <3>1 DEF MadeBy
  <2> QED  BY <2>1, <2>2
<1>2. Head(list).makes \subseteq MadeBy(list)
  <2>1. 1 \in DOMAIN list /\ Head(list) = list[1]
    BY HeadAndTail
  <2> QED  BY <2>1 DEF MadeBy
<1>3. MadeBy(Tail(list)) \subseteq MadeBy(list)
  <2> SUFFICES ASSUME NEW i \in DOMAIN Tail(list), NEW x \in Tail(list)[i].makes
               PROVE  x \in MadeBy(list)
    BY DEF MadeBy
  <2>1. i + 1 \in DOMAIN list /\ list[i + 1] = Tail(list)[i]
    BY HeadAndTail
  <2> QED  BY <2>1 DEF MadeBy
<1> QED  BY <1>1, <1>2, <1>3

LEMMA MadeByBoth ==
  ASSUME NEW S, NEW a \in Seq(S), NEW b \in Seq(S)
  PROVE  MadeBy(a \o b) = MadeBy(a) \cup MadeBy(b)
<1>1. \A i \in DOMAIN a : i \in DOMAIN (a \o b) /\ (a \o b)[i] = a[i]
  OBVIOUS
<1>2. \A i \in DOMAIN b : Len(a) + i \in DOMAIN (a \o b) /\ (a \o b)[Len(a) + i] = b[i]
  OBVIOUS
<1>3. \A i \in DOMAIN (a \o b) :
        \/ i \in DOMAIN a /\ (a \o b)[i] = a[i]
        \/ i - Len(a) \in DOMAIN b /\ (a \o b)[i] = b[i - Len(a)]
  OBVIOUS
<1>4. \A x : x \in MadeBy(a \o b) => x \in MadeBy(a) \cup MadeBy(b)
  BY <1>3 DEF MadeBy
<1>5. \A x : x \in MadeBy(a) \cup MadeBy(b) => x \in MadeBy(a \o b)
  BY <1>1, <1>2 DEF MadeBy
<1> QED  BY <1>4, <1>5

LEMMA NothingMade == MadeBy(<<>>) = {}
BY DEF MadeBy

Harmless == {s \in Statements : s.drops = {}}

\* The gated list of a run, and what is in it.
LEMMA GatedList ==
  ASSUME NEW pre \in BOOLEAN, NEW v \in BOOLEAN, NEW r \in BOOLEAN
  PROVE  /\ Gated(pre, v, r) \in Seq(Harmless)
         /\ v => MadeBy(Allowed(pre, VectorStatements)) \subseteq MadeBy(Gated(pre, v, r))
         /\ v /\ r => MadeBy(EmbeddingGrant) \subseteq MadeBy(Gated(pre, v, r))
         /\ ~v => VectorExtension \notin MadeBy(Gated(pre, v, r))
         /\ ~r => PipelineRole \notin MadeBy(Gated(pre, v, r))
<1> DEFINE a == IF v THEN Allowed(pre, VectorStatements) ELSE <<>>
           b == IF r THEN Allowed(pre, RoleStatements) ELSE <<>>
           c == IF v /\ r THEN EmbeddingGrant ELSE <<>>
           d == IF r THEN SimilarityGrants ELSE <<>>
<1>1. a \in Seq(Harmless) /\ b \in Seq(Harmless) /\ c \in Seq(Harmless) /\ d \in Seq(Harmless)
  <2>1. <<>> \in Seq(Harmless)
    OBVIOUS
  <2>2. /\ Allowed(pre, VectorStatements) \in Seq(Harmless) /\ Allowed(pre, RoleStatements) \in Seq(Harmless)
        /\ EmbeddingGrant \in Seq(Harmless) /\ SimilarityGrants \in Seq(Harmless)
    BY ListAssumption DEF Harmless
  <2> QED  BY <2>1, <2>2
<1>2. Gated(pre, v, r) = ((a \o b) \o c) \o d
  BY DEF Gated
<1>3. /\ v => MadeBy(a) = MadeBy(Allowed(pre, VectorStatements))
      /\ v /\ r => MadeBy(c) = MadeBy(EmbeddingGrant)
      /\ ~v => MadeBy(a) = {} /\ MadeBy(c) = {} /\ VectorExtension \notin MadeBy(b) \cup MadeBy(d)
      /\ ~r => MadeBy(b) = {} /\ MadeBy(c) = {} /\ MadeBy(d) = {} /\ PipelineRole \notin MadeBy(a)
  BY ListAssumption, NothingMade
<1> HIDE DEF a, b, c, d
<1>4. a \o b \in Seq(Harmless) /\ (a \o b) \o c \in Seq(Harmless) /\ ((a \o b) \o c) \o d \in Seq(Harmless)
  BY <1>1
<1>5. MadeBy(Gated(pre, v, r)) = MadeBy(a) \cup MadeBy(b) \cup MadeBy(c) \cup MadeBy(d)
  <2>1. MadeBy(a \o b) = MadeBy(a) \cup MadeBy(b)
    BY <1>1, MadeByBoth
  <2>2. MadeBy((a \o b) \o c) = MadeBy(a \o b) \cup MadeBy(c)
    BY <1>1, <1>4, MadeByBoth
  <2>3. MadeBy(((a \o b) \o c) \o d) = MadeBy((a \o b) \o c) \cup MadeBy(d)
    BY <1>1, <1>4, MadeByBoth
  <2> QED  BY <1>2, <2>1, <2>2, <2>3
<1> QED  BY <1>2, <1>3, <1>4, <1>5

(* ---- counts and waits ---- *)
\* Where a run is says which executor it is in, whether a statement is before it and how often
\* that was tried.
Where ==
  /\ pc \in {"begin", "probe", "send", "queued", "pause"} => todo # <<>>
  /\ pc \in {"begin", "probe", "pause", "gates"} => stage = "main"
  /\ pc \in {"begin", "probe", "gates"} => attempt = 0
  /\ pc \in {"send", "pause"} => attempt < Attempts
  /\ pc = "queued" => attempt >= 1
  /\ pc \in {"gates", "reset", "done"} => todo = <<>>
  /\ pc \in {"reset", "done"} => stage = "gated"

\* Timeouts on the present long transaction: the failures pay for those of earlier statements,
\* and the attempts for those of this one, if it is this one that waits.
WaitInv ==
  holds # {} =>
    /\ blocked <= Attempts * failure + attempt
    /\ pc = "queued" => blocked + 1 <= Attempts * failure + attempt
    /\ pc \in {"send", "queued", "pause"} /\ ~Blocked(Current) => blocked <= Attempts * failure

CountInv == TypeOK /\ Where /\ CountsAddUp /\ WaitInv

LEMMA FailuresPay ==
  ASSUME NEW f \in Nat, NEW g \in Nat
  PROVE  /\ Attempts * f \in Nat
         /\ g >= f + 1 => Attempts * g >= Attempts * f + Attempts
<1>1. Attempts \in Nat
  BY AttemptsAssumption
<1>2. ASSUME g >= f + 1 PROVE Attempts * g >= Attempts * f + Attempts
  <2>1. Attempts * (g - f - 1) >= 0 /\ g - f - 1 \in Nat
    BY <1>1, <1>2
  <2>2. Attempts * g = Attempts * f + Attempts + Attempts * (g - f - 1)
    BY <1>1, <1>2
  <2> QED  BY <1>1, <2>1, <2>2
<1> QED  BY <1>1, <1>2

LEMMA ListLengths ==
  ASSUME env \in Gates
  PROVE  /\ env.preprovisioned \in BOOLEAN
         /\ MainFor(env.preprovisioned) \in Seq(Statements) /\ MainFor(env.preprovisioned) # <<>>
         /\ Len(MainFor(env.preprovisioned)) \in Nat
<1>1. env.preprovisioned \in BOOLEAN
  BY DEF Gates
<1>2. MainFor(env.preprovisioned) \in Seq(Statements) /\ MainFor(env.preprovisioned) # <<>>
  BY <1>1, ListAssumption
<1> QED  BY <1>1, <1>2

CountedOnce == \/ success' = success + 1 /\ failure' = failure
               \/ success' = success /\ failure' = failure + 1
Paid == holds # {} => blocked' <= Attempts * failure'

\* The run goes on behind a statement that was counted, and whose timeouts are paid for.
LEMMA Advanced ==
  ASSUME CountInv, pc \in {"probe", "send", "queued"}, Advance,
         UNCHANGED <<env, stage, holds, bounded, misread, calm>>,
         objects' \subseteq Object, stalled' \in BOOLEAN,
         blocked' \in Nat, CountedOnce, Paid
  PROVE  CountInv'
<1>1. /\ TypeOK /\ todo \in Seq(Statements) /\ todo # <<>> /\ env \in Gates
      /\ success \in Nat /\ failure \in Nat
  BY DEF CountInv, TypeOK, Where
<1>8. success' \in Nat /\ failure' \in Nat
  BY <1>1 DEF CountedOnce
<1>2. /\ todo' \in Seq(Statements) /\ Len(todo') = Len(todo) - 1 /\ Len(todo) \in Nat
      /\ (Len(todo) > 1 => todo' # <<>>) /\ (~(Len(todo) > 1) => todo' = <<>>)
  BY <1>1, HeadAndTail DEF Advance
<1>3. /\ attempt' = 0 /\ 0 < Attempts /\ Attempts \in Nat
      /\ pc' \in {"probe", "send", "gates", "reset"}
      /\ pc' \in {"probe", "send"} => Len(todo) > 1
      /\ pc' \in {"gates", "reset"} => ~(Len(todo) > 1)
      /\ pc' \in {"probe", "gates"} => stage = "main"
      /\ pc' = "reset" => stage # "main"
  BY AttemptsAssumption DEF Advance
<1>4. TypeOK'
  BY <1>1, <1>2, <1>3, <1>8 DEF TypeOK, Running
<1>5. Where'
  BY <1>1, <1>2, <1>3 DEF Where, TypeOK
<1>6. CountsAddUp'
  <2>0. Len(MainFor(env.preprovisioned)) \in Nat
    BY <1>1, ListLengths
  <2>1. stage = "main" => success + failure + Len(todo) = Len(MainFor(env.preprovisioned))
    BY DEF CountInv, CountsAddUp
  <2>2. success' + failure' + Len(todo') = success + failure + Len(todo)
    <3>1. CASE success' = success + 1 /\ failure' = failure
      BY <3>1, <1>1, <1>2
    <3>2. CASE success' = success /\ failure' = failure + 1
      BY <3>2, <1>1, <1>2
    <3> QED  BY <3>1, <3>2 DEF CountedOnce
  <2>3. stage = "main" => success' + failure' + Len(todo') = Len(MainFor(env.preprovisioned))
    BY <2>1, <2>2
  <2> QED  BY <2>3 DEF CountsAddUp
<1>7. WaitInv'
  <2>1. Attempts * failure' \in Nat
    BY <1>8, FailuresPay
  <2>4. Attempts * failure' + attempt' = Attempts * failure'
    BY <1>3, <2>1
  <2>2. holds' # {} => blocked' <= Attempts * failure'
    BY DEF Paid
  <2>3. pc' # "queued"
    BY <1>3
  <2> QED  BY <2>1, <2>2, <2>3, <2>4 DEF WaitInv
<1> QED  BY <1>4, <1>5, <1>6, <1>7 DEF CountInv

LEMMA ErrorCounts ==
  ASSUME CountInv, pc \in {"send", "queued"}, Error
  PROVE  CountInv'
<1>1. TypeOK /\ attempt \in Nat /\ attempt <= Attempts /\ failure \in Nat /\ blocked \in Nat /\ success \in Nat
      /\ Attempts \in Nat
  BY AttemptsAssumption DEF CountInv, TypeOK
<1>2. Paid
  <2>1. holds # {} => blocked <= Attempts * failure + attempt
    BY DEF CountInv, WaitInv
  <2>2. failure' = failure + 1 /\ blocked' = blocked
    BY DEF Error
  <2>3. Attempts * failure' >= Attempts * failure + Attempts /\ Attempts * failure \in Nat /\ Attempts * failure' \in Nat
    BY <1>1, <2>2, FailuresPay
  <2> QED  BY <1>1, <2>1, <2>2, <2>3 DEF Paid
<1>3. pc \in {"probe", "send", "queued"} /\ stalled' \in BOOLEAN
  BY DEF Error, LeaveQueue
<1>4. Advance /\ UNCHANGED <<env, stage, holds, bounded, misread, calm>>
  BY DEF Error
<1>5. objects' \subseteq Object /\ blocked' \in Nat /\ CountedOnce
  BY <1>1 DEF Error, TypeOK, CountedOnce
<1> QED  BY <1>2, <1>3, <1>4, <1>5, Advanced

LEMMA SuccessCounts ==
  ASSUME CountInv, pc \in {"send", "queued"}, ~Blocked(Current), Succeed
  PROVE  CountInv'
<1>1. TypeOK /\ failure \in Nat /\ blocked \in Nat /\ success \in Nat /\ todo # <<>> /\ todo \in Seq(Statements)
  BY DEF CountInv, TypeOK, Where
<1>2. Paid
  BY DEF CountInv, WaitInv, Succeed, Paid
<1>3. objects' \subseteq Object
  <2>1. Current \in Statements
    BY <1>1, HeadAndTail DEF Current
  <2> QED  BY <1>1, <2>1 DEF Succeed, Result, Statements, TypeOK
<1>4. pc \in {"probe", "send", "queued"} /\ stalled' \in BOOLEAN
  BY DEF Succeed, LeaveQueue
<1>5. Advance /\ UNCHANGED <<env, stage, holds, bounded, misread, calm>>
  BY DEF Succeed
<1>6. blocked' \in Nat /\ CountedOnce
  BY <1>1 DEF Succeed, CountedOnce
<1> QED  BY <1>2, <1>3, <1>4, <1>5, <1>6, Advanced

LEMMA CountInit == Init => CountInv
<1> SUFFICES ASSUME Init PROVE CountInv
  OBVIOUS
<1>1. env \in Gates /\ objects \subseteq Object
  BY BeginningAssumption DEF Init
<1>2. /\ holds = {} /\ stalled = FALSE /\ pc = "begin" /\ stage = "main" /\ todo = MainFor(env.preprovisioned)
      /\ attempt = 0 /\ success = 0 /\ failure = 0 /\ bounded = FALSE /\ blocked = 0 /\ misread = FALSE /\ calm = FALSE
  BY DEF Init
<1>3. todo \in Seq(Statements) /\ todo # <<>> /\ Len(MainFor(env.preprovisioned)) \in Nat
  BY <1>1, <1>2, ListLengths
<1>4. 0 \in 0..Attempts
  BY AttemptsAssumption
<1>5. TypeOK
  BY <1>1, <1>2, <1>3, <1>4 DEF TypeOK, Running
<1>6. Where
  BY <1>2, <1>3 DEF Where
<1>7. CountsAddUp
  BY <1>2, <1>3 DEF CountsAddUp
<1> QED  BY <1>2, <1>5, <1>6, <1>7 DEF CountInv, WaitInv

LEMMA CountStep == CountInv /\ [Next]_vars => CountInv'
<1> SUFFICES ASSUME CountInv, [Next]_vars PROVE CountInv'
  OBVIOUS
<1>0. /\ TypeOK /\ Where /\ CountsAddUp /\ WaitInv
      /\ attempt \in Nat /\ attempt <= Attempts /\ Attempts \in Nat /\ 0 < Attempts
      /\ success \in Nat /\ failure \in Nat /\ blocked \in Nat /\ env \in Gates /\ todo \in Seq(Statements)
      /\ pc \in Running \cup {"done", "crashed"} /\ Attempts * failure \in Nat
  BY AttemptsAssumption, FailuresPay DEF CountInv, TypeOK
<1>1. CASE SetLockTimeout
  <2>1. /\ pc = "begin" /\ pc' = "probe" /\ bounded' \in BOOLEAN
        /\ UNCHANGED <<objects, holds, stalled, env, todo, stage, attempt, success, failure, blocked, misread, calm>>
    BY <1>1 DEF SetLockTimeout
  <2>2. TypeOK'
    BY <2>1, <1>0 DEF TypeOK, Running
  <2>3. Where' /\ CountsAddUp' /\ WaitInv'
    BY <2>1, <1>0, AttemptsAssumption DEF Where, CountsAddUp, WaitInv
  <2> QED  BY <2>2, <2>3 DEF CountInv
<1>2. CASE Probe
  <2>1. PICK answered : IF Noop(answered) THEN success' = success + 1 /\ Advance
                        ELSE pc' = "send" /\ UNCHANGED <<success, todo, attempt>>
    BY <1>2 DEF Probe
  <2>2. pc = "probe" /\ UNCHANGED <<objects, holds, stalled, env, stage, failure, bounded, blocked, misread, calm>>
    BY <1>2 DEF Probe
  <2>3. attempt = 0 /\ stage = "main" /\ todo # <<>>
    BY <2>2, <1>0 DEF Where
  <2>4. CASE Noop(answered)
    <3>1. Advance /\ CountedOnce
      BY <2>1, <2>2, <2>4 DEF CountedOnce
    <3>2. Paid
      BY <2>2, <2>3, <1>0 DEF WaitInv, Paid
    <3>3. pc \in {"probe", "send", "queued"} /\ UNCHANGED <<env, stage, holds, bounded, misread, calm>>
      BY <2>2
    <3>4. objects' \subseteq Object /\ stalled' \in BOOLEAN /\ blocked' \in Nat
      BY <2>2, <1>0 DEF TypeOK
    <3> QED  BY <3>1, <3>2, <3>3, <3>4, Advanced
  <2>5. CASE ~Noop(answered)
    <3>1. pc' = "send" /\ UNCHANGED <<success, todo, attempt>>
      BY <2>1, <2>5
    <3>2. TypeOK' /\ Where' /\ CountsAddUp'
      BY <3>1, <2>2, <2>3, <1>0 DEF TypeOK, Running, Where, CountsAddUp
    <3>3. WaitInv'
      BY <3>1, <2>2, <2>3, <1>0 DEF WaitInv
    <3> QED  BY <3>2, <3>3 DEF CountInv
  <2> QED  BY <2>4, <2>5
<1>3. CASE Send
  <2>1. CASE Blocked(Current)
    <3>1. /\ pc = "send" /\ pc' = "queued" /\ attempt' = attempt + 1
          /\ UNCHANGED <<objects, holds, stalled, todo, blocked, env, stage, success, failure, bounded, misread, calm>>
      BY <1>3, <2>1 DEF Send, run
    <3>2. attempt < Attempts /\ todo # <<>>
      BY <3>1, <1>0 DEF Where
    <3>3. TypeOK'
      BY <3>1, <3>2, <1>0 DEF TypeOK, Running
    <3>4. Where' /\ CountsAddUp'
      BY <3>1, <3>2, <1>0 DEF Where, CountsAddUp
    <3>5. Blocked(Current)'
      BY <3>1, <2>1 DEF Blocked, Current, Applicable
    <3>6. WaitInv'
      BY <3>1, <3>5, <1>0 DEF WaitInv
    <3> QED  BY <3>3, <3>4, <3>6 DEF CountInv
  <2>2. CASE ~Blocked(Current)
    <3>1. pc = "send" /\ (Succeed \/ Error)
      BY <1>3, <2>2 DEF Send
    <3> QED  BY <3>1, <2>2, SuccessCounts, ErrorCounts
  <2> QED  BY <2>1, <2>2
<1>4. CASE Granted
  <2>1. pc = "queued" /\ ~Blocked(Current) /\ (Succeed \/ Error)
    BY <1>4 DEF Granted
  <2> QED  BY <2>1, SuccessCounts, ErrorCounts
<1>5. CASE TimeOut
  <2>0. ASSUME blocked' = blocked + 1 PROVE blocked' \in Nat
    <3>1. blocked \in Nat
      BY <1>0
    <3> QED  BY <3>1, <2>0
  <2>1. /\ pc = "queued" /\ Blocked(Current) /\ blocked' = blocked + 1 /\ stalled' = FALSE
        /\ UNCHANGED <<objects, holds, env, stage, success, bounded, misread, calm>>
    BY <1>5 DEF TimeOut, LeaveQueue
  <2>2. /\ attempt >= 1 /\ todo # <<>>
        /\ holds # {} => blocked + 1 <= Attempts * failure + attempt
    BY <2>1, <1>0 DEF Where, WaitInv
  <2>3. ASSUME failure' \in Nat, failure' >= failure + 1 PROVE Paid
    <3>1. Attempts * failure' >= Attempts * failure + Attempts /\ Attempts * failure' \in Nat
      BY <2>3, <1>0, FailuresPay
    <3> QED  BY <3>1, <2>1, <2>2, <1>0 DEF Paid
  <2>4. CASE stage = "gated"
    <3>1. failure' = failure + 1 /\ Advance
      BY <1>5, <2>4 DEF TimeOut
    <3>2. CountedOnce /\ Paid
      BY <3>1, <2>1, <2>3, <1>0 DEF CountedOnce
    <3>3. pc \in {"probe", "send", "queued"} /\ UNCHANGED <<env, stage, holds, bounded, misread, calm>>
      BY <2>1
    <3>4. objects' \subseteq Object /\ stalled' \in BOOLEAN /\ blocked' \in Nat
      <4>1. objects \subseteq Object
        BY <1>0 DEF TypeOK
      <4> QED  BY <4>1, <2>0, <2>1
    <3> QED  BY <3>1, <3>2, <3>3, <3>4, Advanced
  <2>5. CASE stage # "gated" /\ ~TriedEnough
    <3>1. pc' = "pause" /\ UNCHANGED <<failure, todo, attempt>> /\ attempt < Attempts /\ stage = "main"
      BY <1>5, <2>5, <1>0 DEF TimeOut, TriedEnough, TypeOK
    <3>2. TypeOK'
      <4>1. TypeOK /\ blocked' \in Nat
        BY <2>0, <2>1, <1>0
      <4> QED  BY <4>1, <3>1, <2>1 DEF TypeOK, Running
    <3>3. Where' /\ CountsAddUp'
      BY <3>1, <2>1, <2>2, <1>0 DEF Where, CountsAddUp
    <3>4. Blocked(Current)'
      BY <3>1, <2>1 DEF Blocked, Current, Applicable
    <3>5. WaitInv'
      BY <3>1, <3>4, <2>1, <2>2, <1>0 DEF WaitInv
    <3> QED  BY <3>2, <3>3, <3>5 DEF CountInv
  <2>6. CASE stage # "gated" /\ TriedEnough
    <3>1. /\ failure' = failure + 1 + (Len(todo) - 1) /\ todo' = <<>> /\ attempt' = 0 /\ pc' = "gates"
          /\ stage = "main"
      BY <1>5, <2>6, <1>0 DEF TimeOut, Skipped, TypeOK
    <3>2. Len(todo) \in Nat /\ Len(todo) >= 1
      BY <2>2, <1>0, HeadAndTail
    <3>3. failure' = failure + Len(todo) /\ failure' \in Nat /\ failure' >= failure + 1
      BY <3>1, <3>2, <1>0
    <3>4. TypeOK'
      <4>1. TypeOK /\ blocked' \in Nat /\ failure' \in Nat /\ 0 \in 0..Attempts
        BY <2>0, <2>1, <3>3, <1>0
      <4>2. <<>> \in Seq(Statements)
        OBVIOUS
      <4> QED  BY <4>1, <4>2, <3>1, <2>1 DEF TypeOK, Running
    <3>5. Where'
      BY <3>1, <2>1, <1>0 DEF Where
    <3>6. CountsAddUp'
      <4>1. success + failure + Len(todo) = Len(MainFor(env.preprovisioned)) /\ Len(todo') = 0
        BY <3>1, <1>0 DEF CountsAddUp
      <4>2. success + failure' + 0 = Len(MainFor(env.preprovisioned))
        BY <4>1, <3>2, <3>3, <1>0
      <4> QED  BY <4>1, <4>2, <2>1 DEF CountsAddUp
    <3>7. WaitInv'
      <4>1. Paid /\ Attempts * failure' \in Nat
        BY <3>3, <2>3, <1>0, FailuresPay
      <4>2. Attempts * failure' + attempt' = Attempts * failure'
        BY <4>1, <3>1
      <4> QED  BY <4>1, <4>2, <3>1, <2>1 DEF WaitInv, Paid
    <3> QED  BY <3>4, <3>5, <3>6, <3>7 DEF CountInv
  <2> QED  BY <2>4, <2>5, <2>6
<1>6. CASE Retry
  <2>1. /\ pc = "pause" /\ pc' = "send"
        /\ UNCHANGED <<objects, holds, stalled, todo, attempt, blocked, env, stage, success, failure, bounded, misread, calm>>
    BY <1>6 DEF Retry, run
  <2>2. TypeOK' /\ Where' /\ CountsAddUp'
    BY <2>1, <1>0 DEF TypeOK, Running, Where, CountsAddUp
  <2>3. Blocked(Current)' <=> Blocked(Current)
    BY <2>1 DEF Blocked, Current, Applicable
  <2>4. WaitInv'
    BY <2>1, <2>3, <1>0 DEF WaitInv
  <2> QED  BY <2>2, <2>4 DEF CountInv
<1>7. CASE OpenGates
  <2>1. PICK answered : LET statements == Gated(env.preprovisioned, VectorGate(answered), RoleGate(answered))
                        IN /\ misread' = (answered # Queries) /\ todo' = statements
                           /\ pc' = IF statements = <<>> THEN "reset" ELSE "send"
    BY <1>7 DEF OpenGates
  <2>2. /\ stage' = "gated" /\ attempt' = 0 /\ pc = "gates"
        /\ UNCHANGED <<objects, holds, stalled, env, success, failure, bounded, blocked, calm>>
    BY <1>7 DEF OpenGates
  <2>3. VectorGate(answered) \in BOOLEAN /\ RoleGate(answered) \in BOOLEAN /\ env.preprovisioned \in BOOLEAN
    BY <1>0, ListLengths DEF VectorGate, RoleGate, Gates
  <2>4. todo' \in Seq(Harmless)
    BY <2>1, <2>3, GatedList
  <2>5. todo' \in Seq(Statements)
    <3>1. Harmless \subseteq Statements
      BY DEF Harmless
    <3> QED  BY <2>4, <3>1, SeqMonotonic
  <2>6. TypeOK'
    BY <2>1, <2>2, <2>5, <1>0 DEF TypeOK, Running
  <2>7. Where' /\ CountsAddUp'
    BY <2>1, <2>2, <1>0 DEF Where, CountsAddUp
  <2>8. attempt = 0 \/ blocked <= Attempts * failure \/ holds = {}
    BY <2>2, <1>0 DEF Where, WaitInv
  <2>9. WaitInv'
    BY <2>1, <2>2, <2>8, <1>0 DEF WaitInv
  <2> QED  BY <2>6, <2>7, <2>9 DEF CountInv
<1>8. CASE Reset
  <2>1. /\ pc = "reset" /\ pc' = "done" /\ bounded' \in BOOLEAN
        /\ UNCHANGED <<objects, holds, stalled, env, todo, stage, attempt, success, failure, blocked, misread, calm>>
    BY <1>8, <1>0 DEF Reset, TypeOK
  <2>2. TypeOK' /\ Where' /\ CountsAddUp' /\ WaitInv'
    BY <2>1, <1>0 DEF TypeOK, Running, Where, CountsAddUp, WaitInv
  <2> QED  BY <2>2 DEF CountInv
<1>9. CASE Fault
  BY <1>9, ErrorCounts DEF Fault
<1>10. CASE Crash
  <2>1. /\ pc' = "crashed" /\ stalled' = FALSE
        /\ UNCHANGED <<objects, holds, todo, attempt, blocked, env, stage, success, failure, bounded, misread, calm>>
    BY <1>10 DEF Crash, run
  <2>2. TypeOK' /\ Where' /\ CountsAddUp' /\ WaitInv'
    BY <2>1, <1>0 DEF TypeOK, Running, Where, CountsAddUp, WaitInv
  <2> QED  BY <2>2 DEF CountInv
<1>11. CASE Rerun
  <2>1. /\ pc' = "begin" /\ stage' = "main" /\ todo' = MainFor(env.preprovisioned)
        /\ attempt' = 0 /\ success' = 0 /\ failure' = 0 /\ bounded' = FALSE /\ misread' = FALSE /\ blocked' = 0
        /\ UNCHANGED <<objects, holds, stalled, env, calm>>
    BY <1>11 DEF Rerun
  <2>2. todo' \in Seq(Statements) /\ todo' # <<>> /\ Len(MainFor(env.preprovisioned)) \in Nat
    BY <2>1, <1>0, ListLengths
  <2>3. TypeOK'
    <3>1. TypeOK /\ 0 \in 0..Attempts
      BY <1>0
    <3> QED  BY <3>1, <2>1, <2>2 DEF TypeOK, Running
  <2>4. Where' /\ CountsAddUp'
    BY <2>1, <2>2, <1>0 DEF Where, CountsAddUp
  <2>5. WaitInv'
    BY <2>1, <1>0 DEF WaitInv
  <2> QED  BY <2>3, <2>4, <2>5 DEF CountInv
<1>12. CASE BeginLong
  <2>1. /\ holds' \subseteq Lockable /\ blocked' = 0
        /\ UNCHANGED <<objects, stalled, pc, todo, attempt, env, stage, success, failure, bounded, misread, calm>>
    BY <1>12 DEF BeginLong, run
  <2>2. TypeOK' /\ Where' /\ CountsAddUp'
    BY <2>1, <1>0 DEF TypeOK, Where, CountsAddUp
  <2>3. WaitInv'
    BY <2>1, <1>0 DEF WaitInv, Where
  <2> QED  BY <2>2, <2>3 DEF CountInv
<1>13. CASE EndLong
  <2>1. /\ holds' = {}
        /\ UNCHANGED <<objects, stalled, pc, todo, attempt, blocked, env, stage, success, failure, bounded, misread, calm>>
    BY <1>13 DEF EndLong, run
  <2>2. TypeOK' /\ Where' /\ CountsAddUp' /\ WaitInv'
    BY <2>1, <1>0 DEF TypeOK, Where, CountsAddUp, WaitInv
  <2> QED  BY <2>2 DEF CountInv
<1>14. CASE ReaderArrives \/ CalmDown \/ UNCHANGED vars
  <2>1. /\ stalled' \in BOOLEAN /\ calm' \in BOOLEAN
        /\ UNCHANGED <<objects, holds, pc, todo, attempt, blocked, env, stage, success, failure, bounded, misread>>
    BY <1>14, <1>0 DEF ReaderArrives, CalmDown, vars, run, TypeOK
  <2>2. TypeOK' /\ Where' /\ CountsAddUp'
    BY <2>1, <1>0 DEF TypeOK, Where, CountsAddUp
  <2>3. Blocked(Current)' <=> Blocked(Current)
    BY <2>1 DEF Blocked, Current, Applicable
  <2>4. WaitInv'
    BY <2>1, <2>3, <1>0 DEF WaitInv
  <2> QED  BY <2>2, <2>4 DEF CountInv
<1> QED
  BY <1>1, <1>2, <1>3, <1>4, <1>5, <1>6, <1>7, <1>8, <1>9, <1>10, <1>11, <1>12, <1>13, <1>14 DEF Next, Step, Stopped

\* The type of every variable, in every reachable state.
THEOREM TypeCorrect == Spec => []TypeOK
<1>1. CountInv => TypeOK
  BY DEF CountInv
<1> QED  BY CountInit, CountStep, <1>1, PTL DEF Spec

(* ---- what a run has made ---- *)
\* What is left to do is the end of the list.
EndOf(list, whole) ==
  /\ Len(list) <= Len(whole)
  /\ \A j \in DOMAIN list : list[j] = whole[Len(whole) - Len(list) + j]

\* As long as nothing failed, the catalog and the statements to come hold all the list makes.
MainMade ==
  stage = "main" =>
    /\ EndOf(todo, MainFor(env.preprovisioned))
    /\ MadeBy(MainFor(env.preprovisioned)) \subseteq objects \cup MadeBy(todo)

\* The gated list answers the gates: v and r are what they said of the vector objects and the role.
Promise(v, r) ==
  /\ MadeBy(Gated(env.preprovisioned, v, r)) \subseteq objects \cup MadeBy(todo)
  /\ MadeBy(todo) \subseteq MadeBy(Gated(env.preprovisioned, v, r))
  /\ ~misread /\ ~v => VectorExtension \notin objects
  /\ ~misread /\ ~r => IF env.preprovisioned THEN PipelineRole \notin objects ELSE ~env.createrole

GatedMade ==
  stage = "gated" =>
    /\ MadeBy(MainFor(env.preprovisioned)) \subseteq objects
    /\ todo \in Seq(Harmless)
    /\ \E v \in BOOLEAN, r \in BOOLEAN : Promise(v, r)

MadeInv == failure = 0 => MainMade /\ GatedMade

LEMMA EndGoesOn ==
  ASSUME NEW list \in Seq(Statements), list # <<>>, NEW whole \in Seq(Statements), EndOf(list, whole)
  PROVE  /\ EndOf(Tail(list), whole)
         /\ Len(whole) - Len(list) + 1 \in DOMAIN whole
         /\ Head(list) = whole[Len(whole) - Len(list) + 1]
         /\ \A j \in (Len(whole) - Len(list) + 1)..Len(whole) : whole[j].makes \subseteq MadeBy(list)
<1>1. Len(list) \in Nat /\ Len(list) >= 1 /\ Len(whole) \in Nat /\ Len(list) <= Len(whole)
      /\ DOMAIN list = 1..Len(list) /\ DOMAIN whole = 1..Len(whole)
  BY HeadAndTail DEF EndOf
<1>2. Tail(list) \in Seq(Statements) /\ Len(Tail(list)) = Len(list) - 1 /\ Head(list) = list[1]
      /\ \A i \in 1..Len(Tail(list)) : Tail(list)[i] = list[i + 1]
  BY HeadAndTail
<1>3. ASSUME NEW i \in DOMAIN Tail(list)
      PROVE  Tail(list)[i] = whole[Len(whole) - Len(Tail(list)) + i]
  <2>1. i \in 1..(Len(list) - 1) /\ Tail(list)[i] = list[i + 1] /\ i + 1 \in DOMAIN list
    BY <1>1, <1>2, <1>3
  <2>2. list[i + 1] = whole[Len(whole) - Len(list) + (i + 1)]
    BY <2>1 DEF EndOf
  <2>3. Len(whole) - Len(list) + (i + 1) = Len(whole) - Len(Tail(list)) + i
    BY <1>1, <1>2, <2>1
  <2> QED  BY <2>1, <2>2, <2>3
<1>4. EndOf(Tail(list), whole)
  BY <1>1, <1>2, <1>3 DEF EndOf
<1>5. 1 \in DOMAIN list /\ list[1] = whole[Len(whole) - Len(list) + 1]
  BY <1>1 DEF EndOf
<1>6. ASSUME NEW j \in (Len(whole) - Len(list) + 1)..Len(whole)
      PROVE  whole[j].makes \subseteq MadeBy(list)
  <2>1. j - (Len(whole) - Len(list)) \in DOMAIN list
    BY <1>1
  <2>2. list[j - (Len(whole) - Len(list))] = whole[Len(whole) - Len(list) + (j - (Len(whole) - Len(list)))]
    BY <2>1 DEF EndOf
  <2>3. Len(whole) - Len(list) + (j - (Len(whole) - Len(list))) = j
    BY <1>1
  <2> QED  BY <2>1, <2>2, <2>3 DEF MadeBy
<1> QED  BY <1>1, <1>2, <1>4, <1>5, <1>6

\* A statement that is applied, or found to have nothing to do, is crossed off the list.
CrossedOff ==
  /\ todo' = Tail(todo)
  /\ (objects \ Current.drops) \cup Current.makes \subseteq objects'
  /\ objects' \subseteq objects \cup Current.makes
  /\ UNCHANGED <<env, stage, failure, misread>>

LEMMA NextMade ==
  ASSUME CountInv, MadeInv, todo # <<>>, CrossedOff
  PROVE  MadeInv'
<1> SUFFICES ASSUME failure = 0 PROVE MainMade' /\ GatedMade'
  BY DEF MadeInv, CrossedOff
<1> DEFINE M == MainFor(env.preprovisioned)
           i == Len(M) - Len(todo) + 1
<1>1. /\ todo \in Seq(Statements) /\ M \in Seq(Statements) /\ env.preprovisioned \in BOOLEAN
      /\ MainMade /\ GatedMade
  BY ListLengths DEF CountInv, TypeOK, MadeInv
<1>2. /\ MadeBy(todo) = Current.makes \cup MadeBy(todo')
      /\ objects \ Current.drops \subseteq objects' /\ Current.makes \subseteq objects'
      /\ objects' \subseteq objects \cup Current.makes
      /\ env' = env /\ stage' = stage /\ misread' = misread /\ todo' = Tail(todo)
  BY <1>1, MadeByRest DEF CrossedOff, Current
<1>3. MainMade'
  <2> SUFFICES ASSUME stage = "main"
               PROVE  EndOf(todo', M) /\ MadeBy(M) \subseteq objects' \cup MadeBy(todo')
    BY <1>2 DEF MainMade
  <2>1. EndOf(todo, M) /\ MadeBy(M) \subseteq objects \cup MadeBy(todo)
    BY <1>1 DEF MainMade
  <2>2. /\ EndOf(Tail(todo), M) /\ i \in DOMAIN M /\ Head(todo) = M[i]
        /\ \A j \in i..Len(M) : M[j].makes \subseteq MadeBy(todo)
    BY <1>1, <2>1, EndGoesOn
  <2>3. M[i].drops \cap MadeBy(M) \subseteq UNION {M[j].makes : j \in i..Len(M)}
    BY <1>1, <2>2, ListAssumption
  <2> HIDE DEF M, i
  <2>4. Current.drops \cap MadeBy(M) \subseteq MadeBy(todo)
    BY <2>2, <2>3 DEF Current
  <2> QED  BY <1>2, <2>1, <2>2, <2>4
<1>4. GatedMade'
  <2> SUFFICES ASSUME stage = "gated"
               PROVE  /\ MadeBy(M) \subseteq objects' /\ todo' \in Seq(Harmless)
                      /\ \E v \in BOOLEAN, r \in BOOLEAN : Promise(v, r)'
    BY <1>2 DEF GatedMade
  <2>1. MadeBy(M) \subseteq objects /\ todo \in Seq(Harmless)
    BY <1>1 DEF GatedMade
  <2>2. todo' \in Seq(Harmless) /\ Current \in Harmless
    BY <1>2, <2>1, HeadAndTail DEF Current
  <2>3. objects' = objects \cup Current.makes
    BY <1>2, <2>2 DEF Harmless
  <2>4. PICK v \in BOOLEAN, r \in BOOLEAN : Promise(v, r)
    BY <1>1 DEF GatedMade
  <2>5. /\ ~v => VectorExtension \notin MadeBy(Gated(env.preprovisioned, v, r))
        /\ ~r => PipelineRole \notin MadeBy(Gated(env.preprovisioned, v, r))
    BY <1>1, GatedList
  <2>6. Promise(v, r)'
    BY <1>2, <2>3, <2>4, <2>5 DEF Promise
  <2> QED  BY <2>1, <2>2, <2>3, <2>6
<1> QED  BY <1>3, <1>4

LEMMA AppliedMade ==
  ASSUME CountInv, MadeInv, todo # <<>>, Succeed
  PROVE  MadeInv'
<1>1. CrossedOff
  BY DEF CrossedOff, Succeed, Advance, Result
<1> QED  BY <1>1, NextMade

LEMMA MadeInit == Init => MadeInv
<1> SUFFICES ASSUME Init PROVE MadeInv
  OBVIOUS
<1>1. stage = "main" /\ todo = MainFor(env.preprovisioned) /\ todo \in Seq(Statements)
  BY BeginningAssumption, ListLengths DEF Init
<1>2. EndOf(todo, todo)
  BY <1>1 DEF EndOf
<1> QED  BY <1>1, <1>2 DEF MadeInv, MainMade, GatedMade

LEMMA MadeStep == CountInv /\ MadeInv /\ [Next]_vars => MadeInv'
<1> SUFFICES ASSUME CountInv, MadeInv, [Next]_vars PROVE MadeInv'
  OBVIOUS
<1>0. /\ todo \in Seq(Statements) /\ failure \in Nat /\ env \in Gates /\ stage \in {"main", "gated"}
      /\ pc \in {"probe", "send", "queued"} => todo # <<>>
  BY DEF CountInv, TypeOK, Where
<1>a. ASSUME UNCHANGED <<objects, todo, env, stage, failure, misread>> PROVE MadeInv'
  BY <1>a DEF MadeInv, MainMade, GatedMade, Promise
<1>b. ASSUME failure' # 0 PROVE MadeInv'
  BY <1>b DEF MadeInv
<1>c. ASSUME Error PROVE MadeInv'
  <2>1. failure' # 0
    BY <1>c, <1>0 DEF Error
  <2> QED  BY <2>1, <1>b
<1>1. CASE SetLockTimeout \/ Retry \/ Reset \/ Crash \/ BeginLong \/ EndLong \/ ReaderArrives \/ CalmDown \/ UNCHANGED vars
  BY <1>1, <1>a DEF SetLockTimeout, Retry, Reset, Crash, BeginLong, EndLong, ReaderArrives, CalmDown, vars, run
<1>2. CASE Probe
  <2>1. PICK answered : IF Noop(answered) THEN success' = success + 1 /\ Advance
                        ELSE pc' = "send" /\ UNCHANGED <<success, todo, attempt>>
    BY <1>2 DEF Probe
  <2>2. pc = "probe" /\ UNCHANGED <<objects, env, stage, failure, misread>>
    BY <1>2 DEF Probe
  <2>3. CASE Noop(answered)
    <3>1. CrossedOff
      BY <2>1, <2>2, <2>3 DEF Noop, Advance, CrossedOff
    <3> QED  BY <3>1, <2>2, <1>0, NextMade
  <2>4. CASE ~Noop(answered)
    BY <2>1, <2>2, <2>4, <1>a
  <2> QED  BY <2>3, <2>4
<1>3. CASE Send
  <2>1. CASE Blocked(Current)
    BY <1>3, <2>1, <1>a DEF Send, run
  <2>2. CASE ~Blocked(Current)
    <3>1. pc = "send" /\ (Succeed \/ Error)
      BY <1>3, <2>2 DEF Send
    <3> QED  BY <3>1, <1>0, <1>c, AppliedMade
  <2> QED  BY <2>1, <2>2
<1>4. CASE Granted
  <2>1. pc = "queued" /\ (Succeed \/ Error)
    BY <1>4 DEF Granted
  <2> QED  BY <2>1, <1>0, <1>c, AppliedMade
<1>5. CASE TimeOut
  <2>1. CASE stage # "gated" /\ ~TriedEnough
    BY <1>5, <2>1, <1>a DEF TimeOut
  <2>2. CASE stage = "gated"
    <3>1. failure' = failure + 1
      BY <1>5, <2>2 DEF TimeOut
    <3>2. failure' # 0
      BY <3>1, <1>0
    <3> QED  BY <3>2, <1>b
  <2>3. CASE stage # "gated" /\ TriedEnough
    <3>1. failure' = failure + 1 + (Len(todo) - 1) /\ todo # <<>>
      BY <1>5, <2>3, <1>0 DEF TimeOut, Skipped
    <3>2. Len(todo) \in Nat /\ Len(todo) >= 1
      BY <3>1, <1>0, HeadAndTail
    <3>3. failure' # 0
      BY <3>1, <3>2, <1>0
    <3> QED  BY <3>3, <1>b
  <2> QED  BY <2>1, <2>2, <2>3
<1>6. CASE OpenGates
  <2> SUFFICES ASSUME failure = 0 PROVE MainMade' /\ GatedMade'
    BY <1>6 DEF MadeInv, OpenGates
  <2>1. PICK answered : LET statements == Gated(env.preprovisioned, VectorGate(answered), RoleGate(answered))
                        IN misread' = (answered # Queries) /\ todo' = statements
    BY <1>6 DEF OpenGates
  <2>2. stage' = "gated" /\ pc = "gates" /\ UNCHANGED <<objects, env, failure>>
    BY <1>6 DEF OpenGates
  <2>3. stage = "main" /\ todo = <<>>
    BY <2>2 DEF CountInv, Where
  <2>4. MadeBy(MainFor(env.preprovisioned)) \subseteq objects
    BY <2>3, NothingMade DEF MadeInv, MainMade
  <2>5. VectorGate(answered) \in BOOLEAN /\ RoleGate(answered) \in BOOLEAN /\ env.preprovisioned \in BOOLEAN
    BY <1>0, ListLengths DEF VectorGate, RoleGate, Gates
  <2>v. PICK v \in BOOLEAN, r \in BOOLEAN : v = VectorGate(answered) /\ r = RoleGate(answered)
    BY <2>5
  <2>6. todo' = Gated(env.preprovisioned, v, r) /\ todo' \in Seq(Harmless)
    BY <2>1, <2>5, <2>v, GatedList
  <2>7. misread' = FALSE => answered = Queries
    BY <2>1
  <2>8. answered = Queries /\ ~v => VectorExtension \notin objects
    BY <2>v DEF Queries, VectorGate
  <2>9. answered = Queries /\ ~r => IF env.preprovisioned THEN PipelineRole \notin objects ELSE ~env.createrole
    BY <2>v DEF Queries, RoleGate
  <2>10. Promise(v, r)'
    BY <2>1, <2>2, <2>6, <2>7, <2>8, <2>9 DEF Promise
  <2> QED  BY <2>2, <2>4, <2>5, <2>6, <2>10 DEF MainMade, GatedMade
<1>7. CASE Fault
  BY <1>7, <1>c DEF Fault
<1>8. CASE Rerun
  <2>1. todo' = MainFor(env'.preprovisioned) /\ stage' = "main"
    BY <1>8 DEF Rerun
  <2>2. todo' \in Seq(Statements)
    BY <1>8, <1>0, ListLengths DEF Rerun
  <2>3. EndOf(todo', todo')
    BY <2>2 DEF EndOf
  <2> QED  BY <2>1, <2>3 DEF MadeInv, MainMade, GatedMade
<1> QED
  BY <1>1, <1>2, <1>3, <1>4, <1>5, <1>6, <1>7, <1>8 DEF Next, Step, Stopped

\* A run that reports no failure is done with the gated list, so what the gates promised is made.
LEMMA MadeEnough == CountInv /\ MadeInv => ZeroFailuresMeansApplied
<1> SUFFICES ASSUME CountInv, MadeInv, pc = "done", failure = 0, ~misread
             PROVE  /\ MadeBy(MainFor(env.preprovisioned)) \subseteq objects
                    /\ VectorExtension \in objects =>
                         MadeBy(Allowed(env.preprovisioned, VectorStatements)) \subseteq objects
                    /\ PipelineRole \in objects /\ VectorExtension \in objects
                         /\ (env.createrole \/ env.preprovisioned)
                       => MadeBy(EmbeddingGrant) \subseteq objects
  BY DEF ZeroFailuresMeansApplied
<1>1. stage = "gated" /\ todo = <<>> /\ env.preprovisioned \in BOOLEAN
  BY ListLengths DEF CountInv, Where, TypeOK
<1>2. PICK v \in BOOLEAN, r \in BOOLEAN : Promise(v, r)
  BY <1>1 DEF MadeInv, GatedMade
<1>3. MadeBy(Gated(env.preprovisioned, v, r)) \subseteq objects
  BY <1>1, <1>2, NothingMade DEF Promise
<1>4. /\ v => MadeBy(Allowed(env.preprovisioned, VectorStatements)) \subseteq objects
      /\ v /\ r => MadeBy(EmbeddingGrant) \subseteq objects
  BY <1>1, <1>3, GatedList
<1>5. /\ ~v => VectorExtension \notin objects
      /\ ~r => IF env.preprovisioned THEN PipelineRole \notin objects ELSE ~env.createrole
  BY <1>2 DEF Promise
<1> QED  BY <1>1, <1>4, <1>5 DEF MadeInv, GatedMade

\* Whatever failed, waited, crashed or was run again, what a run reports is what it did: every
\* statement is in one of its counts, no failure means that all it promises is in the catalog, and
\* each failure it reports stands for a bounded wait.
THEOREM ReportsTrue == Spec => []CountsTellTheTruth
<1>1. CountInv => WaitBounded
  BY DEF CountInv, WaitInv, WaitBounded
<1>2. CountInv /\ MadeInv => CountsTellTheTruth
  BY <1>1, MadeEnough DEF CountsTellTheTruth, CountInv
<1> QED  BY CountInit, CountStep, MadeInit, MadeStep, <1>2, PTL DEF Spec
=============================================================================
