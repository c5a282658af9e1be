------------------------ MODULE EmbeddingReleaseProofs ------------------------
(***************************************************************************)
(* Theorems about EmbeddingRelease, for any callers, ids, versions, limits *)
(* and lengths that satisfy its assumptions: types, the limit K, and the   *)
(* flip of the pointer.                                                    *)
(*                                                                         *)
(* The argument is about locks.  Whoever holds the table exclusively works *)
(* on releases nobody else writes (TableOk), so what it has read is still  *)
(* so when it commits (PublishOk, RetireOk).  Creators share the table     *)
(* and are kept apart by the unique version (CreateOk, VersionOk); a       *)
(* limit and the lists under it are kept apart by the row locks (RowOk,    *)
(* LimitOk, WriteOk).                                                      *)
(***************************************************************************)
EXTENDS EmbeddingRelease, TLAPS

At(c, kind) == pc[c] = "commit" /\ call[c].kind = kind

(* ---- the inductive invariant, caller by caller ---- *)
\* Only publishers have more than one statement behind the lock.
StageOk(c) == pc[c] \in {"clear", "set"} => call[c].kind = "publish"

TableOk(c, d) ==
  HoldsTable(c) /\ HoldsTable(d) /\ call[c].kind \in Exclusive
    => call[d].kind = "write"

PublishOk(c) ==
  pc[c] \in {"clear", "set", "commit"} /\ call[c].kind = "publish" =>
    /\ call[c].row = Named(call[c].ref) /\ call[c].row # {}
    /\ call[c].was <=> call[c].row \subseteq Current
    /\ pc[c] # "clear" => call[c].cleared = Current

RetireOk(c) == At(c, "retire") => call[c].row \intersect Current = {}

CreateOk(c) ==
  At(c, "create") =>
    \E i \in Id :
      /\ call[c].row = {i}
      /\ release[i] = None =>
           \A j \in Live : release[j].version # call[c].version

VersionOk(c, d) ==
  At(c, "create") /\ At(d, "create") => call[c].version # call[d].version

LimitOk(c) ==
  At(c, "limit") =>
    \A i \in call[c].row :
      /\ release[i] # None
      /\ \A a \in Artist : list[i, a] # None => list[i, a] <= call[c].k

WriteOk(c) ==
  At(c, "write") =>
    \A i \in call[c].row : release[i] # None /\ call[c].length <= release[i].k

RowOk(c, d) ==
  (At(c, "limit") \/ At(c, "retire")) /\ At(d, "write")
    => call[c].row \intersect call[d].row = {}

Alone(c) == /\ StageOk(c) /\ PublishOk(c) /\ RetireOk(c) /\ CreateOk(c)
            /\ LimitOk(c) /\ WriteOk(c)
Apart(c, d) == TableOk(c, d) /\ VersionOk(c, d) /\ RowOk(c, d)

IInv == /\ TypeOK
        /\ \A c \in Caller : Alone(c)
        /\ \A c, d \in Caller : c # d => Apart(c, d)
        /\ OneCurrent /\ ListsWithinK

(* ---- calls are records ---- *)
LEMMA CallFields ==
  ASSUME NEW r \in Calls
  PROVE  /\ r.kind \in {"create", "publish", "retire", "limit", "write"}
         /\ r.row \in SUBSET Id
         /\ r.kind = "create" => r.version \in Version /\ r.lineage \in Lineage
                                 /\ r.k \in K
         /\ r.kind = "publish" => r.ref \in Reference /\ r.cleared \in SUBSET Id
                                  /\ r.was \in BOOLEAN
         /\ r.kind = "retire" => r.ref \in Version /\ r.cascade \in BOOLEAN
         /\ r.kind = "limit" => r.k \in K
         /\ r.kind = "write" => r.artist \in Artist /\ r.length \in Length
  BY DEF Calls

LEMMA RowField ==
  ASSUME NEW r \in Calls, NEW x \in SUBSET Id
  PROVE  LET n == [r EXCEPT !.row = x] IN
           /\ n \in Calls /\ n.kind = r.kind /\ n.row = x
           /\ n.kind = "create" => n.version = r.version
  BY DEF Calls

Found(r, x, w) == [r EXCEPT !.row = x, !.was = w]
LEMMA FoundFields ==
  ASSUME NEW r \in Calls, r.kind = "publish", NEW x \in SUBSET Id, NEW w \in BOOLEAN
  PROVE  LET n == Found(r, x, w) IN
           /\ n \in Calls /\ n.kind = "publish" /\ n.ref = r.ref
           /\ n.row = x /\ n.was = w
  BY DEF Calls, Found

LEMMA ClearedField ==
  ASSUME NEW r \in Calls, r.kind = "publish", NEW x \in SUBSET Id
  PROVE  LET n == [r EXCEPT !.cleared = x] IN
           /\ n \in Calls /\ n.kind = "publish" /\ n.ref = r.ref
           /\ n.row = r.row /\ n.was = r.was /\ n.cleared = x
  BY DEF Calls

LEMMA ReleaseFields ==
  ASSUME NEW r \in Release
  PROVE  /\ r # None /\ r.version \in Version /\ r.k \in Nat
         /\ r.current \in BOOLEAN /\ r.stamp \in BOOLEAN
  BY NoneAssumption, NumbersAssumption DEF Release

Flip(r, x, s) == [r EXCEPT !.current = x, !.stamp = s]
LEMMA FlipFields ==
  ASSUME NEW r \in Release, NEW x \in BOOLEAN, NEW s \in BOOLEAN
  PROVE  LET n == Flip(r, x, s) IN
           /\ n \in Release /\ n.version = r.version /\ n.k = r.k
           /\ n.current = x /\ n.stamp = s
  BY DEF Release, Flip

LEMMA CurrentField ==
  ASSUME NEW r \in Release, NEW x \in BOOLEAN
  PROVE  LET n == [r EXCEPT !.current = x] IN
           /\ n \in Release /\ n.version = r.version /\ n.k = r.k
           /\ n.current = x /\ n.stamp = r.stamp
  BY DEF Release

LEMMA LimitField ==
  ASSUME NEW r \in Release, NEW x \in K
  PROVE  LET n == [r EXCEPT !.k = x] IN
           /\ n \in Release /\ n.version = r.version /\ n.k = x
           /\ n.current = r.current /\ n.stamp = r.stamp
  BY DEF Release

(* ---- steps that write no table ---- *)
Quiet(c) ==
  /\ UNCHANGED <<release, list>>
  /\ used' \subseteq Id
  /\ \E where, what : /\ pc' = [pc EXCEPT ![c] = where]
                      /\ call' = [call EXCEPT ![c] = what]

\* Such a step has only its own caller's part of the invariant to show.
LEMMA QuietStep ==
  ASSUME IInv, NEW c \in Caller, Quiet(c),
         pc'[c] \in {"idle", "table", "row", "clear", "set", "commit"},
         IF pc'[c] = "idle" THEN call'[c] = None ELSE call'[c] \in Calls,
         Alone(c)',
         \A d \in Caller \ {c} : Apart(c, d)' /\ Apart(d, c)'
  PROVE  IInv'
<1>1. \A d \in Caller \ {c} : pc'[d] = pc[d] /\ call'[d] = call[d]
  BY DEF Quiet, IInv, TypeOK
<1>2. TypeOK'
  <2>1. pc' \in [Caller -> {"idle", "table", "row", "clear", "set", "commit"}]
    BY DEF Quiet, IInv, TypeOK
  <2>2. call' \in [Caller -> Calls \union {None}]
    BY DEF Quiet, IInv, TypeOK
  <2>3. \A d \in Caller : call'[d] = None <=> pc'[d] = "idle"
    BY <1>1, NoneAssumption DEF IInv, TypeOK
  <2>4. release' \in [Id -> Release \union {None}]
           /\ list' \in [Id \X Artist -> Length \union {None}] /\ used' \subseteq Id
    BY DEF Quiet, IInv, TypeOK
  <2> QED BY <2>1, <2>2, <2>3, <2>4 DEF TypeOK
<1>3. ASSUME NEW d \in Caller \ {c} PROVE Alone(d)'
  <2>1. Alone(d) /\ release' = release /\ list' = list
    BY DEF IInv, Quiet
  <2>2. StageOk(d)'
    BY <2>1, <1>1 DEF Alone, StageOk
  <2>3. PublishOk(d)'
    BY <2>1, <1>1 DEF Alone, PublishOk, Named, Live, Current
  <2>4. RetireOk(d)'
    BY <2>1, <1>1 DEF Alone, RetireOk, At, Live, Current
  <2>5. CreateOk(d)'
    BY <2>1, <1>1 DEF Alone, CreateOk, At, Live
  <2>6. LimitOk(d)' /\ WriteOk(d)'
    BY <2>1, <1>1 DEF Alone, LimitOk, WriteOk, At
  <2> QED BY <2>2, <2>3, <2>4, <2>5, <2>6 DEF Alone
<1>4. ASSUME NEW d \in Caller \ {c}, NEW e \in Caller \ {c}, d # e PROVE Apart(d, e)'
  <2>1. Apart(d, e)
    BY <1>4 DEF IInv
  <2>2. TableOk(d, e)'
    BY <2>1, <1>1 DEF Apart, TableOk, HoldsTable
  <2>3. VersionOk(d, e)' /\ RowOk(d, e)'
    BY <2>1, <1>1 DEF Apart, VersionOk, RowOk, At
  <2> QED BY <2>2, <2>3 DEF Apart
<1>5. OneCurrent' /\ ListsWithinK'
  BY DEF IInv, Quiet, OneCurrent, ListsWithinK, Current, Live
<1> QED BY <1>2, <1>3, <1>4, <1>5 DEF IInv

\* A caller that is not in its transaction's last statements has nothing to
\* show but its table lock.
LEMMA Early ==
  ASSUME NEW c \in Caller, pc'[c] \in {"idle", "table", "row"}
  PROVE  /\ Alone(c)'
         /\ \A d \in Caller :
              /\ VersionOk(c, d)' /\ VersionOk(d, c)'
              /\ RowOk(c, d)' /\ RowOk(d, c)'
  BY DEF Alone, StageOk, PublishOk, RetireOk, CreateOk, LimitOk, WriteOk,
         VersionOk, RowOk, At

LEMMA RollbackStep ==
  ASSUME IInv, NEW c \in Caller, Rollback(c)
  PROVE  IInv'
<1>1. pc'[c] = "idle" /\ call'[c] = None /\ Quiet(c)
  BY DEF Rollback, Goto, tables, Quiet, IInv, TypeOK
<1>2. \A d \in Caller \ {c} : TableOk(c, d)' /\ TableOk(d, c)'
  BY <1>1 DEF TableOk, HoldsTable
<1> QED BY <1>1, <1>2, QuietStep, Early DEF Apart

LEMMA BeginStep ==
  ASSUME IInv, NEW c \in Caller, NEW request \in Calls,
         NEW where \in {"table", "row"}, where = "row" => request.kind = "write",
         Begin(c, request, where)
  PROVE  IInv'
<1>1. pc'[c] = where /\ call'[c] = request /\ Quiet(c)
  BY DEF Begin, Goto, tables, Quiet, IInv, TypeOK
<1>2. \A d \in Caller \ {c} : TableOk(c, d)' /\ TableOk(d, c)'
  BY <1>1 DEF TableOk, HoldsTable, Exclusive
<1> QED BY <1>1, <1>2, QuietStep, Early DEF Apart

LEMMA RequestStep ==
  ASSUME IInv, NEW c \in Caller, Request(c)
  PROVE  IInv'
<1>1. ASSUME NEW v \in Version, NEW l \in Lineage, NEW k \in K, Create(c, v, l, k)
      PROVE  IInv'
  <2>1. [kind |-> "create", version |-> v, lineage |-> l, k |-> k, row |-> {}] \in Calls
    BY DEF Calls
  <2> QED BY <1>1, <2>1, BeginStep DEF Create
<1>2. ASSUME NEW ref \in Reference, Publish(c, ref) PROVE IInv'
  <2>1. [kind |-> "publish", ref |-> ref, row |-> {}, cleared |-> {},
         was |-> FALSE] \in Calls
    BY DEF Calls
  <2> QED BY <1>2, <2>1, BeginStep DEF Publish
<1>3. ASSUME NEW v \in Version, NEW cascade \in BOOLEAN, Retire(c, v, cascade)
      PROVE  IInv'
  <2>1. [kind |-> "retire", ref |-> v, cascade |-> cascade, row |-> {}] \in Calls
    BY DEF Calls
  <2> QED BY <1>3, <2>1, BeginStep DEF Retire
<1>4. ASSUME NEW i \in Id, NEW k \in K, ChangeLimit(c, i, k) PROVE IInv'
  <2>1. [kind |-> "limit", row |-> {i}, k |-> k] \in Calls
    BY DEF Calls
  <2> QED BY <1>4, <2>1, BeginStep DEF ChangeLimit
<1>5. ASSUME NEW i \in Id, NEW a \in Artist, NEW n \in Length, WriteList(c, i, a, n)
      PROVE  IInv'
  <2>1. [kind |-> "write", row |-> {i}, artist |-> a, length |-> n] \in Calls
           /\ [kind |-> "write", row |-> {i}, artist |-> a, length |-> n].kind = "write"
    BY DEF Calls
  <2> QED BY <1>5, <2>1, BeginStep DEF WriteList
<1> QED BY <1>1, <1>2, <1>3, <1>4, <1>5 DEF Request

(* ---- statements behind the lock ---- *)
LEMMA LockStep ==
  ASSUME IInv, NEW c \in Caller, LockTable(c)
  PROVE  IInv'
<1>1. pc'[c] = "row" /\ call'[c] = call[c] /\ call[c] \in Calls /\ Quiet(c)
  <2>1. call' = [call EXCEPT ![c] = call[c]] /\ used' \subseteq Id
    BY DEF LockTable, tables, IInv, TypeOK
  <2> QED BY <2>1 DEF LockTable, Goto, tables, Quiet, IInv, TypeOK
<1>2. ASSUME NEW d \in Caller \ {c} PROVE TableOk(c, d)' /\ TableOk(d, c)'
  <2>1. HoldsTable(d)' <=> HoldsTable(d)
    BY DEF LockTable, Goto, HoldsTable, IInv, TypeOK
  <2>2. call'[d] = call[d]
    BY DEF LockTable
  <2> QED BY <1>1, <2>1, <2>2 DEF LockTable, TableFree, TableOk, Exclusive
<1> QED BY <1>1, <1>2, QuietStep, Early DEF Apart

\* A caller that holds the table keeps it in the same mode.
LEMMA TableKept ==
  ASSUME IInv, NEW c \in Caller, HoldsTable(c), Quiet(c), call'[c].kind = call[c].kind
  PROVE  \A d \in Caller \ {c} : TableOk(c, d)' /\ TableOk(d, c)'
<1> SUFFICES ASSUME NEW d \in Caller \ {c} PROVE TableOk(c, d)' /\ TableOk(d, c)'
  OBVIOUS
<1>1. pc'[d] = pc[d] /\ call'[d] = call[d]
  BY DEF Quiet, IInv, TypeOK
<1>2. TableOk(c, d) /\ TableOk(d, c)
  BY DEF IInv, Apart
<1> QED BY <1>1, <1>2 DEF TableOk, HoldsTable

\* Publishers in mid-flip share nothing else with other callers.
LEMMA MidFlip ==
  ASSUME NEW c \in Caller, call'[c].kind = "publish"
  PROVE  /\ \A d \in Caller : VersionOk(c, d)' /\ VersionOk(d, c)'
                              /\ RowOk(c, d)' /\ RowOk(d, c)'
         /\ PublishOk(c)' => Alone(c)'
  BY DEF Alone, StageOk, PublishOk, RetireOk, CreateOk, LimitOk, WriteOk,
         VersionOk, RowOk, At

LEMMA CreateRowStep ==
  ASSUME IInv, NEW c \in Caller, CreateRow(c)
  PROVE  IInv'
<1> USE DEF HoldsTable
<1>1. pc[c] = "row" /\ call[c] \in Calls /\ call[c].kind = "create"
  BY DEF CreateRow, IInv, TypeOK
<1>2. CASE Rollback(c)
  BY <1>2, RollbackStep
<1>3. ASSUME NEW i \in Id, call' = [call EXCEPT ![c].row = {i}], Goto(c, "commit"),
             UNCHANGED <<release, list>>, used' \subseteq Id,
             release[i] = None => Named(call[c].version) = {}
      PROVE  IInv'
  <2>1. call'[c] = [call[c] EXCEPT !.row = {i}] /\ pc'[c] = "commit"
    BY <1>3 DEF Goto, IInv, TypeOK
  <2>2. /\ call'[c] \in Calls /\ call'[c].kind = "create"
        /\ call'[c].row = {i} /\ call'[c].version = call[c].version
    BY <1>1, <2>1, RowField
  <2>3. Quiet(c)
    BY <1>3 DEF Quiet, Goto
  <2>4. Alone(c)'
    BY <1>3, <2>1, <2>2 DEF Alone, StageOk, PublishOk, RetireOk, CreateOk, LimitOk,
                            WriteOk, At, Named, Live
  <2>5. ASSUME NEW d \in Caller \ {c} PROVE VersionOk(c, d)' /\ VersionOk(d, c)'
    <3>1. pc'[d] = pc[d] /\ call'[d] = call[d]
      BY <1>3 DEF Goto, IInv, TypeOK
    <3> QED BY <2>2, <3>1 DEF CreateRow, VersionOk, At
  <2>6. \A d \in Caller : RowOk(c, d)' /\ RowOk(d, c)'
    BY <2>2 DEF RowOk, At
  <2> QED BY <1>1, <2>1, <2>2, <2>3, <2>4, <2>5, <2>6, TableKept, QuietStep DEF Apart
<1>4. used \subseteq Id
  BY DEF IInv, TypeOK
<1> DEFINE same == Named(call[c].version)
<1>5. CASE \E i \in same : /\ release[i].lineage = call[c].lineage
                           /\ release[i].k = call[c].k
                           /\ call' = [call EXCEPT ![c].row = {i}]
                           /\ Goto(c, "commit")
                           /\ UNCHANGED tables
  BY <1>3, <1>4, <1>5 DEF Named, Live, tables
<1>6. CASE /\ same = {}
           /\ \E i \in Id \ used : used' = used \union {i}
                                   /\ call' = [call EXCEPT ![c].row = {i}]
           /\ Goto(c, "commit")
           /\ UNCHANGED <<release, list>>
  BY <1>3, <1>4, <1>6
<1> QED BY <1>2, <1>5, <1>6 DEF CreateRow

LEMMA FindToPublishStep ==
  ASSUME IInv, NEW c \in Caller, FindToPublish(c)
  PROVE  IInv'
<1> USE DEF HoldsTable
<1> DEFINE found == Named(call[c].ref)
           was == found \subseteq Current
           new == [call[c] EXCEPT !.row = found, !.was = was]
<1>1. /\ pc[c] = "row" /\ call[c] \in Calls /\ call[c].kind = "publish"
      /\ found \in SUBSET Id /\ was \in BOOLEAN
  BY DEF FindToPublish, IInv, TypeOK, Named, Live
<1>2. CASE found = {}
  BY <1>2, RollbackStep DEF FindToPublish
<1>3. CASE found # {}
  <2>1. call' = [call EXCEPT ![c] = new] /\ Goto(c, "clear") /\ UNCHANGED tables
    BY <1>3 DEF FindToPublish
  <2>2. call'[c] = new /\ pc'[c] = "clear"
    BY <2>1 DEF Goto, IInv, TypeOK
  <2>3. Quiet(c)
    <3> HIDE DEF new
    <3> QED BY <2>1 DEF Quiet, Goto, tables, IInv, TypeOK
  <2>4. /\ call'[c] \in Calls /\ call'[c].kind = "publish"
        /\ call'[c].ref = call[c].ref /\ call'[c].row = found /\ call'[c].was = was
    <3>1. was \in BOOLEAN /\ new = Found(call[c], found, was)
      BY <1>1 DEF Found
    <3> HIDE DEF found, was, new
    <3> QED BY <1>1, <2>2, <3>1, FoundFields
  <2>5. Named(call[c].ref)' = found /\ Current' = Current
    BY <2>1, <2>4 DEF Named, Current, Live, tables
  <2>6. PublishOk(c)'
    <3>1. was <=> found \subseteq Current
      OBVIOUS
    <3> HIDE DEF found, was
    <3> QED BY <1>3, <2>2, <2>4, <2>5, <3>1 DEF PublishOk
  <2> QED BY <1>1, <2>2, <2>3, <2>4, <2>6, MidFlip, TableKept, QuietStep DEF Apart
<1> QED BY <1>2, <1>3

LEMMA ClearCurrentStep ==
  ASSUME IInv, NEW c \in Caller, ClearCurrent(c)
  PROVE  IInv'
<1> USE DEF HoldsTable
<1>1. /\ pc[c] = "clear" /\ call[c] \in Calls /\ call[c].kind = "publish"
      /\ Current \in SUBSET Id /\ PublishOk(c)
  BY DEF ClearCurrent, IInv, TypeOK, Alone, StageOk, Current, Live
<1>2. call' = [call EXCEPT ![c].cleared = Current] /\ Goto(c, "set") /\ UNCHANGED tables
  BY DEF ClearCurrent
<1>3. call'[c] = [call[c] EXCEPT !.cleared = Current] /\ pc'[c] = "set"
  BY <1>2 DEF Goto, IInv, TypeOK
<1>4. /\ call'[c] \in Calls /\ call'[c].kind = "publish"
      /\ call'[c].ref = call[c].ref /\ call'[c].row = call[c].row
      /\ call'[c].was = call[c].was /\ call'[c].cleared = Current
  BY <1>1, <1>3, ClearedField
<1>5. Quiet(c)
  BY <1>2 DEF Quiet, Goto, tables, IInv, TypeOK
<1>6. Named(call[c].ref)' = Named(call[c].ref) /\ Current' = Current
  BY <1>2, <1>4 DEF Named, Current, Live, tables
<1>7. PublishOk(c)'
  BY <1>1, <1>3, <1>4, <1>6 DEF PublishOk
<1> QED BY <1>1, <1>3, <1>4, <1>5, <1>7, MidFlip, TableKept, QuietStep DEF Apart

LEMMA SetCurrentStep ==
  ASSUME IInv, NEW c \in Caller, SetCurrent(c)
  PROVE  IInv'
<1> USE DEF HoldsTable
<1>1. CASE Rollback(c)
  BY <1>1, RollbackStep
<1>2. CASE Goto(c, "commit") /\ UNCHANGED <<call, tables>>
  <2>1. /\ pc[c] = "set" /\ call[c] \in Calls /\ call[c].kind = "publish"
        /\ PublishOk(c)
    BY DEF SetCurrent, IInv, TypeOK, Alone, StageOk
  <2>2. call'[c] = call[c] /\ pc'[c] = "commit" /\ Quiet(c)
    BY <1>2 DEF Quiet, Goto, tables, IInv, TypeOK
  <2>3. PublishOk(c)'
    BY <1>2, <2>1, <2>2 DEF PublishOk, Named, Current, Live, tables
  <2> QED BY <2>1, <2>2, <2>3, MidFlip, TableKept, QuietStep DEF Apart
<1> QED BY <1>1, <1>2 DEF SetCurrent

\* The row locks: at its commit a writer shares none of its rows with a caller
\* that took them for itself.
LEMMA RowsApart ==
  ASSUME IInv, NEW c \in Caller, NEW d \in Caller \ {c}, Goto(c, "commit"),
         call'[d] = call[d],
         \/ \A i \in call'[c].row : RowFree(c, i)
         \/ call'[c].kind = "write" /\ \A i \in call'[c].row : RowShareable(c, i)
  PROVE  RowOk(c, d)' /\ RowOk(d, c)'
<1>1. pc'[d] = pc[d]
  BY DEF Goto, IInv, TypeOK
<1> QED BY <1>1 DEF RowOk, At, RowFree, RowShareable, HoldsRow

LEMMA FindToRetireStep ==
  ASSUME IInv, NEW c \in Caller, FindToRetire(c)
  PROVE  IInv'
<1> USE DEF HoldsTable
<1> DEFINE found == Named(call[c].ref)
<1>1. /\ pc[c] = "row" /\ call[c] \in Calls /\ call[c].kind = "retire"
      /\ found \in SUBSET Id
  BY DEF FindToRetire, IInv, TypeOK, Named, Live
<1>2. CASE found \intersect Current # {}
  BY <1>2, RollbackStep DEF FindToRetire
<1>3. CASE found \intersect Current = {}
  <2>1. /\ call' = [call EXCEPT ![c].row = found]
        /\ Goto(c, "commit") /\ UNCHANGED tables
        /\ \A i \in found : RowFree(c, i)
    BY <1>3 DEF FindToRetire
  <2>2. call'[c] = [call[c] EXCEPT !.row = found] /\ pc'[c] = "commit"
    BY <2>1 DEF Goto, IInv, TypeOK
  <2>3. call'[c] \in Calls /\ call'[c].kind = "retire" /\ call'[c].row = found
    BY <1>1, <2>2, RowField
  <2>4. Quiet(c)
    BY <2>1 DEF Quiet, Goto, tables, IInv, TypeOK
  <2>5. Alone(c)'
    <3>1. Current' = Current
      BY <2>1 DEF Current, Live, tables
    <3> QED BY <1>3, <2>2, <2>3, <3>1 DEF Alone, StageOk, PublishOk, RetireOk,
                                        CreateOk, LimitOk, WriteOk, At
  <2>6. ASSUME NEW d \in Caller \ {c}
        PROVE  RowOk(c, d)' /\ RowOk(d, c)' /\ VersionOk(c, d)' /\ VersionOk(d, c)'
    <3>1. call'[d] = call[d]
      BY <2>1
    <3>2. VersionOk(c, d)' /\ VersionOk(d, c)'
      BY <2>3 DEF VersionOk, At
    <3> QED BY <2>1, <2>3, <3>1, <3>2, RowsApart
  <2> QED BY <1>1, <2>2, <2>3, <2>4, <2>5, <2>6, TableKept, QuietStep DEF Apart
<1> QED BY <1>2, <1>3

LEMMA SetLimitStep ==
  ASSUME IInv, NEW c \in Caller, SetLimit(c)
  PROVE  IInv'
<1> USE DEF HoldsTable
<1>1. /\ pc[c] = "row" /\ call[c] \in Calls /\ call[c].kind = "limit"
      /\ \A i \in call[c].row : RowFree(c, i)
  BY DEF SetLimit, IInv, TypeOK
<1>2. CASE Rollback(c)
  BY <1>2, RollbackStep
<1>3. CASE /\ \A i \in call[c].row :
                /\ i \in Live
                /\ call[c].k < release[i].k =>
                     \A a \in Artist : list[i, a] # None => list[i, a] <= call[c].k
           /\ Goto(c, "commit") /\ UNCHANGED <<call, tables>>
  <2>1. call'[c] = call[c] /\ pc'[c] = "commit" /\ Quiet(c)
    BY <1>3 DEF Quiet, Goto, tables, IInv, TypeOK
  <2>2. ASSUME NEW i \in call[c].row, NEW a \in Artist, list[i, a] # None
        PROVE  release[i] # None /\ list[i, a] <= call[c].k
    <3>1. release[i] \in Release /\ list[i, a] \in Length /\ call[c].k \in K
      BY <1>1, <1>3, <2>2, CallFields DEF Live, IInv, TypeOK
    <3>2. list[i, a] <= release[i].k
      BY <1>1, <2>2, CallFields DEF IInv, ListsWithinK
    <3>3. release[i].k \in Nat /\ list[i, a] \in Nat /\ call[c].k \in Nat
      BY <3>1, ReleaseFields, NumbersAssumption
    <3>4. release[i] # None
      BY <3>1, ReleaseFields
    <3>5. call[c].k < release[i].k => list[i, a] <= call[c].k
      BY <1>3, <2>2
    <3>6. \A x, y, z \in Nat : x <= z /\ (y < z => x <= y) => x <= y
      OBVIOUS
    <3> QED BY <3>2, <3>3, <3>4, <3>5, <3>6
  <2>3. \A i \in call[c].row : release[i] # None
    BY <1>3 DEF Live
  <2>4. Alone(c)'
    BY <1>1, <1>3, <2>1, <2>2, <2>3 DEF tables, Alone, StageOk, PublishOk, RetireOk,
                                CreateOk, LimitOk, WriteOk, At
  <2>5. ASSUME NEW d \in Caller \ {c}
        PROVE  RowOk(c, d)' /\ RowOk(d, c)' /\ VersionOk(c, d)' /\ VersionOk(d, c)'
    <3>1. VersionOk(c, d)' /\ VersionOk(d, c)'
      BY <1>1, <2>1 DEF VersionOk, At
    <3> QED BY <1>1, <1>3, <2>1, <3>1, RowsApart
  <2> QED BY <1>1, <2>1, <2>4, <2>5, TableKept, QuietStep DEF Apart
<1> QED BY <1>2, <1>3 DEF SetLimit

LEMMA PutListStep ==
  ASSUME IInv, NEW c \in Caller, PutList(c)
  PROVE  IInv'
<1> USE DEF HoldsTable
<1>1. /\ pc[c] = "row" /\ call[c] \in Calls /\ call[c].kind = "write"
      /\ \A i \in call[c].row : RowShareable(c, i)
  BY DEF PutList, IInv, TypeOK
<1>2. CASE Rollback(c)
  BY <1>2, RollbackStep
<1>3. CASE /\ \A i \in call[c].row : i \in Live /\ call[c].length <= release[i].k
           /\ Goto(c, "commit") /\ UNCHANGED <<call, tables>>
  <2>1. call'[c] = call[c] /\ pc'[c] = "commit" /\ Quiet(c)
    BY <1>3 DEF Quiet, Goto, tables, IInv, TypeOK
  <2>2. Alone(c)'
    BY <1>1, <1>3, <2>1 DEF tables, Alone, StageOk, PublishOk, RetireOk,
                                CreateOk, LimitOk, WriteOk, At, Live
  <2>3. ASSUME NEW d \in Caller \ {c}
        PROVE  RowOk(c, d)' /\ RowOk(d, c)' /\ VersionOk(c, d)' /\ VersionOk(d, c)'
    <3>1. VersionOk(c, d)' /\ VersionOk(d, c)'
      BY <1>1, <2>1 DEF VersionOk, At
    <3> QED BY <1>1, <1>3, <2>1, <3>1, RowsApart
  <2> QED BY <1>1, <2>1, <2>2, <2>3, TableKept, QuietStep DEF Apart
<1> QED BY <1>2, <1>3 DEF PutList

(* ---- commits ---- *)
\* What a commit may do to the pointer, its lists and the time stamps.
FlipStep ==
  /\ Current # {} => Current' # {}
  /\ \A i \in Current \intersect Current', a \in Artist :
       list[i, a] # None => list'[i, a] # None
  /\ \A i \in Live \intersect Live' :
       release'[i].stamp # release[i].stamp
         <=> release'[i].current /\ ~release[i].current

\* Each other caller keeps its place; what it has read must still be so.
Stands(d) == PublishOk(d) /\ RetireOk(d) /\ CreateOk(d) /\ LimitOk(d) /\ WriteOk(d)

LEMMA CommitFrame ==
  ASSUME IInv, NEW c \in Caller, Commit(c)
  PROVE  /\ call[c] \in Calls /\ pc[c] = "commit" /\ HoldsTable(c) /\ Alone(c)
         /\ \A d \in Caller \ {c} : /\ pc'[d] = pc[d] /\ call'[d] = call[d]
                                    /\ TableOk(c, d) /\ TableOk(d, c)
                                    /\ RowOk(c, d) /\ RowOk(d, c) /\ VersionOk(c, d)
                                    /\ Alone(d)
                                    /\ pc[d] # "idle" => call[d] \in Calls
         /\ /\ release' \in [Id -> Release \union {None}]
            /\ list' \in [Id \X Artist -> Length \union {None}]
            /\ \A d \in Caller \ {c} : Stands(d)'
            /\ OneCurrent' /\ ListsWithinK'
            => IInv'
<1>1. call[c] \in Calls /\ pc[c] = "commit" /\ HoldsTable(c) /\ Alone(c)
  BY DEF Commit, HoldsTable, IInv, TypeOK
<1>2. pc'[c] = "idle" /\ call'[c] = None
  BY DEF Commit, Goto, IInv, TypeOK
<1>3. ASSUME NEW d \in Caller \ {c}
      PROVE  /\ pc'[d] = pc[d] /\ call'[d] = call[d]
             /\ Apart(c, d) /\ Apart(d, c) /\ Alone(d)
             /\ pc[d] # "idle" => call[d] \in Calls
  BY DEF Commit, Goto, IInv, TypeOK
<1>4. ASSUME NEW d \in Caller, NEW e \in Caller, d # e PROVE Apart(d, e)'
  <2>1. CASE d = c \/ e = c
    BY <1>2, <2>1 DEF Apart, TableOk, VersionOk, RowOk, HoldsTable, At
  <2>2. CASE d # c /\ e # c
    <3>1. Apart(d, e)
      BY <1>4 DEF IInv
    <3>2. TableOk(d, e)'
      BY <1>3, <2>2, <3>1 DEF Apart, TableOk, HoldsTable
    <3>3. VersionOk(d, e)' /\ RowOk(d, e)'
      BY <1>3, <2>2, <3>1 DEF Apart, VersionOk, RowOk, At
    <3> QED BY <3>2, <3>3 DEF Apart
  <2> QED BY <2>1, <2>2
<1>5. Alone(c)'
  BY <1>2, Early
<1>6. ASSUME NEW d \in Caller \ {c} PROVE StageOk(d)'
  BY <1>3 DEF Alone, StageOk
<1>7. /\ pc' \in [Caller -> {"idle", "table", "row", "clear", "set", "commit"}]
      /\ call' \in [Caller -> Calls \union {None}]
      /\ used' \subseteq Id
  BY DEF Commit, Goto, IInv, TypeOK
<1>8. \A d \in Caller : call'[d] = None <=> pc'[d] = "idle"
  BY <1>2, <1>3 DEF IInv, TypeOK
<1>9. ASSUME release' \in [Id -> Release \union {None}],
             list' \in [Id \X Artist -> Length \union {None}],
             \A d \in Caller \ {c} : Stands(d)', OneCurrent', ListsWithinK'
      PROVE  IInv'
  <2>1. \A d \in Caller : Alone(d)'
    BY <1>5, <1>6, <1>9 DEF Alone, Stands
  <2> QED BY <1>4, <1>7, <1>8, <1>9, <2>1 DEF IInv, TypeOK
<1> QED BY <1>1, <1>3, <1>9 DEF Apart

\* A name finds one release.
LEMMA NamedOne ==
  ASSUME IInv, NEW ref \in Reference
  PROVE  \A i, j \in Named(ref) : i = j
<1>1. \A i \in Named(ref) : release[i].version \in Version
  BY ReleaseFields DEF Named, Live, IInv, TypeOK
<1>2. CASE ref \in Version
  <2>1. \A i \in Named(ref) : i \in Live /\ release[i].version = ref
    BY <1>2, ReferenceAssumption DEF Named, Live
  <2> QED BY <2>1 DEF IInv, OneCurrent
<1>3. CASE ref \in Id
  BY <1>1, <1>3, ReferenceAssumption DEF Named
<1> QED BY <1>2, <1>3 DEF Reference

\* Behind an exclusive committer there are only list writers.
LEMMA OnlyWriters ==
  ASSUME IInv, NEW c \in Caller, Commit(c), call[c].kind \in Exclusive,
         NEW d \in Caller \ {c}, WriteOk(d)'
  PROVE  Stands(d)'
<1>1. pc'[d] = pc[d] /\ call'[d] = call[d] /\ TableOk(c, d) /\ HoldsTable(c)
  BY CommitFrame
<1> QED BY <1>1 DEF Stands, PublishOk, RetireOk, CreateOk, LimitOk, TableOk, HoldsTable, At

\* Beside one that shares the table there is no publisher or retirer.
LEMMA NoExclusive ==
  ASSUME IInv, NEW c \in Caller, Commit(c), call[c].kind \in {"create", "limit"},
         NEW d \in Caller \ {c}, CreateOk(d)', LimitOk(d)', WriteOk(d)'
  PROVE  Stands(d)'
<1>1. pc'[d] = pc[d] /\ call'[d] = call[d] /\ TableOk(d, c) /\ HoldsTable(c)
  BY CommitFrame
<1> QED BY <1>1 DEF Stands, PublishOk, RetireOk, TableOk, HoldsTable, At, Exclusive

LEMMA PublishedStep ==
  ASSUME IInv, NEW c \in Caller, Commit(c), Published(c)
  PROVE  IInv' /\ FlipStep
<1>1. /\ call[c] \in Calls /\ call[c].kind = "publish" /\ call[c].ref \in Reference
      /\ call[c].was \in BOOLEAN
      /\ call[c].row = Named(call[c].ref) /\ call[c].row # {}
      /\ call[c].was <=> call[c].row \subseteq Current
      /\ call[c].cleared = Current
  <2>1. call[c] \in Calls /\ call[c].kind = "publish" /\ pc[c] = "commit" /\ PublishOk(c)
    BY CommitFrame DEF Published, Alone
  <2> QED BY <2>1, CallFields DEF PublishOk
<1>2. PICK i0 \in Id : call[c].row = {i0} /\ release[i0] # None
  BY <1>1, NamedOne DEF Named, Live
<1>3. \A i \in Live : release[i] \in Release
  BY DEF Live, IInv, TypeOK
<1>4. /\ release'[i0] \in Release /\ release'[i0].version = release[i0].version
      /\ release'[i0].k = release[i0].k /\ release'[i0].current = TRUE
      /\ release'[i0].stamp # release[i0].stamp <=> ~release[i0].current
  <2> DEFINE s == IF call[c].was THEN release[i0].stamp ELSE ~release[i0].stamp
  <2>1. release[i0] \in Release /\ release[i0].stamp \in BOOLEAN
    BY <1>2, <1>3, ReleaseFields DEF Live
  <2>2. s \in BOOLEAN /\ (s # release[i0].stamp <=> ~call[c].was)
    BY <1>1, <2>1
  <2>3. release'[i0] = Flip(release[i0], TRUE, s)
    BY <1>2 DEF Published, Flip
  <2>4. call[c].was <=> release[i0].current
    BY <1>1, <1>2 DEF Current, Live
  <2> HIDE DEF s
  <2>5. LET n == Flip(release[i0], TRUE, s) IN
          /\ n \in Release /\ n.version = release[i0].version
          /\ n.k = release[i0].k /\ n.current = TRUE /\ n.stamp = s
    BY <2>1, <2>2, FlipFields
  <2> QED BY <2>2, <2>3, <2>4, <2>5
<1>5. ASSUME NEW i \in Live, i # i0
      PROVE  /\ release'[i] \in Release /\ release'[i].version = release[i].version
             /\ release'[i].k = release[i].k /\ ~release'[i].current
             /\ release'[i].stamp = release[i].stamp
  <2>1. i \in Id /\ release[i] \in Release /\ release[i].current \in BOOLEAN
    BY <1>3, ReleaseFields DEF Live
  <2>2. CASE i \in Current
    <3>1. release'[i] = [release[i] EXCEPT !.current = FALSE]
      BY <1>1, <1>2, <1>5, <2>1, <2>2 DEF Published
    <3> QED BY <2>1, <3>1, CurrentField
  <2>3. CASE i \notin Current
    <3>1. release'[i] = release[i]
      BY <1>1, <1>2, <1>5, <2>1, <2>3 DEF Published
    <3> QED BY <2>1, <2>3, <3>1 DEF Current
  <2> QED BY <2>2, <2>3
<1>6. \A i \in Id : release[i] = None => release'[i] = None
  BY <1>1, <1>2 DEF Published, Current, Live
<1>7. \A i \in Live : release'[i] # None
  BY <1>4, <1>5, ReleaseFields
<1>8. Live' = Live /\ i0 \in Live
  BY <1>2, <1>6, <1>7 DEF Live
<1>9. Current' = {i0}
  BY <1>4, <1>5, <1>8 DEF Current
<1>10. list' = list
  BY DEF Published
<1>11. release' \in [Id -> Release \union {None}]
  <2>1. \A i \in Id : release'[i] \in Release \union {None}
    BY <1>4, <1>5, <1>6 DEF Live
  <2> QED BY <2>1 DEF Published
<1>12. OneCurrent'
  BY <1>4, <1>5, <1>8, <1>9 DEF OneCurrent, IInv
<1>13. ListsWithinK'
  BY <1>4, <1>5, <1>8, <1>10 DEF ListsWithinK, IInv
<1>14. ASSUME NEW d \in Caller \ {c} PROVE WriteOk(d)'
  <2>1. pc'[d] = pc[d] /\ call'[d] = call[d] /\ Alone(d)
    BY CommitFrame
  <2>2. ASSUME At(d, "write"), NEW i \in call[d].row
        PROVE  release'[i] # None /\ call[d].length <= release'[i].k
    <3>1. call[d].row \subseteq Id
      BY <2>2, CommitFrame, CallFields DEF At
    <3>2. i \in Live /\ call[d].length <= release[i].k
      BY <2>1, <2>2, <3>1 DEF Alone, WriteOk, Live
    <3> QED BY <1>4, <1>5, <1>7, <3>2
  <2> QED BY <2>1, <2>2 DEF WriteOk, At
<1>15. IInv'
  <2>1. list' \in [Id \X Artist -> Length \union {None}]
    BY <1>10 DEF IInv, TypeOK
  <2> QED BY <1>1, <1>11, <1>12, <1>13, <1>14, <2>1, CommitFrame, OnlyWriters DEF Exclusive
<1>16. FlipStep
  BY <1>4, <1>5, <1>8, <1>9, <1>10 DEF FlipStep, Current
<1> QED BY <1>15, <1>16

LEMMA RetiredStep ==
  ASSUME IInv, NEW c \in Caller, Commit(c), Retired(c)
  PROVE  IInv' /\ FlipStep
<1>1. /\ call[c] \in Calls /\ At(c, "retire") /\ call[c].row \in SUBSET Id
      /\ call[c].row \intersect Current = {}
  BY CommitFrame, CallFields DEF Retired, Alone, RetireOk, At
<1>2. \A i \in Id : \/ release'[i] = release[i]
                    \/ i \in call[c].row /\ release'[i] = None
  BY DEF Retired
<1>3. \A i \in Id, a \in Artist :
        list'[i, a] = IF i \in call[c].row THEN None ELSE list[i, a]
  BY DEF Retired
<1>4. Live' \subseteq Live /\ Current' = Current
  BY <1>1, <1>2 DEF Live, Current
<1>5. \A i \in Live' : release'[i] = release[i]
  BY <1>2 DEF Live
<1>6. /\ release' \in [Id -> Release \union {None}]
      /\ list' \in [Id \X Artist -> Length \union {None}]
  BY DEF Retired, IInv, TypeOK
<1>7. OneCurrent'
  <2>1. \A i, j \in Current' : i = j
    BY <1>4 DEF OneCurrent, IInv
  <2>2. \A i, j \in Live' : release'[i].version = release'[j].version => i = j
    BY <1>4, <1>5 DEF OneCurrent, IInv
  <2> QED BY <2>1, <2>2 DEF OneCurrent
<1>8. ListsWithinK'
  BY <1>2, <1>3 DEF ListsWithinK, Live, IInv
<1>9. ASSUME NEW d \in Caller \ {c} PROVE WriteOk(d)'
  <2>1. pc'[d] = pc[d] /\ call'[d] = call[d] /\ Alone(d) /\ RowOk(c, d)
    BY CommitFrame
  <2>2. ASSUME At(d, "write"), NEW i \in call[d].row PROVE i \in Id /\ release'[i] = release[i]
    <3>1. call[d].row \subseteq Id
      BY <2>2, CommitFrame, CallFields DEF At
    <3> QED BY <1>1, <1>2, <2>1, <2>2, <3>1 DEF RowOk
  <2> QED BY <2>1, <2>2 DEF Alone, WriteOk, At
<1>10. IInv'
  BY <1>1, <1>6, <1>7, <1>8, <1>9, CommitFrame, OnlyWriters DEF Exclusive, At
<1>11. FlipStep
  BY <1>1, <1>3, <1>4, <1>5 DEF FlipStep, Current, Live
<1> QED BY <1>10, <1>11

\* Two facts of every live release that a commit leaves as it is.
LEMMA UntouchedLists ==
  ASSUME IInv, list' = list,
         \A i \in Live : i \in Live' /\ release'[i].k = release[i].k
  PROVE  ListsWithinK'
BY DEF IInv, ListsWithinK, Live

LEMMA CreatedStep ==
  ASSUME IInv, NEW c \in Caller, Commit(c), Created(c)
  PROVE  IInv' /\ FlipStep
<1>1. /\ call[c] \in Calls /\ At(c, "create") /\ CreateOk(c)
      /\ call[c].version \in Version /\ call[c].lineage \in Lineage /\ call[c].k \in K
  BY CommitFrame, CallFields DEF Created, Alone, At
<1>2. PICK i0 \in Id :
        /\ call[c].row = {i0}
        /\ release[i0] = None => \A j \in Live : release[j].version # call[c].version
  BY <1>1 DEF CreateOk
<1> DEFINE new == [version |-> call[c].version, lineage |-> call[c].lineage,
                   k |-> call[c].k, current |-> FALSE, stamp |-> FALSE]
<1>3. new \in Release /\ new.version = call[c].version /\ ~new.current
  BY <1>1 DEF Release
<1>4. \A i \in Id : release'[i] = IF i = i0 /\ release[i] = None THEN new ELSE release[i]
  BY <1>2 DEF Created
<1> HIDE DEF new
<1>5. \A i \in Live : i \in Live' /\ release'[i] = release[i]
  BY <1>4 DEF Live
<1>6. \A i \in Live' \ Live : i = i0 /\ release[i] = None /\ release'[i] = new
  BY <1>4 DEF Live
<1>7. list' = list
  BY DEF Created
<1>8. /\ release' \in [Id -> Release \union {None}]
      /\ list' \in [Id \X Artist -> Length \union {None}]
  <2>1. \A i \in Id : release'[i] \in Release \union {None}
    BY <1>3, <1>4 DEF IInv, TypeOK
  <2> QED BY <1>7, <2>1 DEF Created, IInv, TypeOK
<1>9. Current' = Current
  BY <1>3, <1>5, <1>6 DEF Current
<1>10. OneCurrent'
  <2>1. \A i, j \in Current' : i = j
    BY <1>9 DEF IInv, OneCurrent
  <2>2. ASSUME NEW i \in Live', NEW j \in Live', release'[i].version = release'[j].version
        PROVE  i = j
    <3>1. CASE i \in Live /\ j \in Live
      BY <1>5, <2>2, <3>1 DEF IInv, OneCurrent
    <3>2. CASE i \in Live' \ Live /\ j \in Live
      BY <1>2, <1>3, <1>5, <1>6, <2>2, <3>2
    <3>3. CASE i \in Live /\ j \in Live' \ Live
      BY <1>2, <1>3, <1>5, <1>6, <2>2, <3>3
    <3>4. CASE i \in Live' \ Live /\ j \in Live' \ Live
      BY <1>6, <3>4
    <3> QED BY <3>1, <3>2, <3>3, <3>4
  <2> QED BY <2>1, <2>2 DEF OneCurrent
<1>11. ASSUME NEW d \in Caller \ {c} PROVE Stands(d)'
  <2>1. pc'[d] = pc[d] /\ call'[d] = call[d] /\ Alone(d) /\ VersionOk(c, d)
    BY CommitFrame
  <2>2. At(d, "create") => call[d].version # call[c].version
    BY <1>1, <2>1 DEF VersionOk
  <2>3. CreateOk(d)'
    <3> SUFFICES ASSUME At(d, "create") PROVE CreateOk(d)'
      BY <2>1 DEF CreateOk, At
    <3>1. PICK i \in Id :
            /\ call[d].row = {i}
            /\ release[i] = None =>
                 \A j \in Live : release[j].version # call[d].version
      BY <2>1 DEF Alone, CreateOk
    <3>2. release'[i] = None => release[i] = None
      BY <1>5, <3>1 DEF Live
    <3>3. ASSUME release'[i] = None, NEW j \in Live' PROVE release'[j].version # call[d].version
      BY <1>3, <1>5, <1>6, <2>2, <3>1, <3>2, <3>3
    <3> QED BY <2>1, <3>1, <3>3 DEF CreateOk
  <2>4. \A i \in Id : release[i] # None => release'[i] = release[i]
    BY <1>4
  <2>5. pc[d] # "idle" => call[d].row \subseteq Id
    BY CommitFrame, CallFields
  <2>6. LimitOk(d)' /\ WriteOk(d)'
    BY <1>7, <2>1, <2>4, <2>5 DEF Alone, LimitOk, WriteOk, At
  <2> QED BY <1>1, <2>3, <2>6, NoExclusive DEF At
<1>12. IInv'
  BY <1>5, <1>7, <1>8, <1>10, <1>11, CommitFrame, UntouchedLists
<1>13. FlipStep
  BY <1>5, <1>7, <1>9 DEF FlipStep, Current
<1> QED BY <1>12, <1>13

LEMMA LimitedStep ==
  ASSUME IInv, NEW c \in Caller, Commit(c), Limited(c)
  PROVE  IInv' /\ FlipStep
<1>1. /\ call[c] \in Calls /\ At(c, "limit") /\ LimitOk(c)
      /\ call[c].k \in K /\ call[c].row \subseteq Id
  BY CommitFrame, CallFields DEF Limited, Alone, At
<1>2. ASSUME NEW i \in Live
      PROVE  /\ release'[i] \in Release /\ release'[i].version = release[i].version
             /\ release'[i].current = release[i].current
             /\ release'[i].stamp = release[i].stamp
             /\ release'[i].k = IF i \in call[c].row THEN call[c].k ELSE release[i].k
  <2>1. i \in Id /\ release[i] \in Release
    BY DEF Live, IInv, TypeOK
  <2>2. CASE i \in call[c].row
    <3>1. release'[i] = [release[i] EXCEPT !.k = call[c].k]
      BY <2>1, <2>2 DEF Limited
    <3> QED BY <1>1, <2>1, <2>2, <3>1, LimitField
  <2>3. CASE i \notin call[c].row
    BY <2>1, <2>3 DEF Limited
  <2> QED BY <2>2, <2>3
<1>3. \A i \in Id : release[i] = None => release'[i] = None
  BY <1>1 DEF Limited, LimitOk
<1>4. Live' = Live /\ Current' = Current
  <2>1. Live' = Live
    BY <1>2, <1>3, ReleaseFields DEF Live
  <2> QED BY <1>2, <2>1 DEF Current
<1>5. list' = list
  BY DEF Limited
<1>6. /\ release' \in [Id -> Release \union {None}]
      /\ list' \in [Id \X Artist -> Length \union {None}]
  <2>1. \A i \in Id : release'[i] \in Release \union {None}
    BY <1>2, <1>3 DEF Live
  <2> QED BY <1>5, <2>1 DEF Limited, IInv, TypeOK
<1>7. OneCurrent'
  BY <1>2, <1>4 DEF OneCurrent, IInv
<1>8. ListsWithinK'
  <2> SUFFICES ASSUME NEW i \in Id, NEW a \in Artist, list[i, a] # None
               PROVE  i \in Live' /\ list[i, a] <= release'[i].k
    BY <1>5 DEF ListsWithinK
  <2>1. i \in Live /\ list[i, a] <= release[i].k
    BY DEF IInv, ListsWithinK
  <2>2. i \in call[c].row => list[i, a] <= call[c].k
    BY <1>1 DEF LimitOk
  <2> QED BY <1>2, <1>4, <2>1, <2>2
<1>9. ASSUME NEW d \in Caller \ {c} PROVE Stands(d)'
  <2>1. pc'[d] = pc[d] /\ call'[d] = call[d] /\ Alone(d) /\ RowOk(c, d)
    BY CommitFrame
  <2>2. pc[d] # "idle" => call[d].row \subseteq Id
    BY CommitFrame, CallFields
  <2>3. CreateOk(d)'
    BY <1>2, <1>3, <1>4, <2>1 DEF Alone, CreateOk, At, Live
  <2>4. LimitOk(d)'
    BY <1>4, <1>5, <2>1, <2>2 DEF Alone, LimitOk, At, Live
  <2>5. ASSUME At(d, "write"), NEW i \in call[d].row
        PROVE  release'[i] # None /\ call[d].length <= release'[i].k
    <3>1. i \in Live /\ call[d].length <= release[i].k
      BY <2>1, <2>2, <2>5 DEF Alone, WriteOk, At, Live
    <3>2. i \notin call[c].row
      BY <1>1, <2>1, <2>5 DEF RowOk
    <3> QED BY <1>2, <3>1, <3>2, ReleaseFields
  <2>6. WriteOk(d)'
    BY <2>1, <2>5 DEF WriteOk, At
  <2> QED BY <1>1, <2>3, <2>4, <2>6, NoExclusive DEF At
<1>10. IInv'
  BY <1>6, <1>7, <1>8, <1>9, CommitFrame
<1>11. FlipStep
  BY <1>2, <1>4, <1>5 DEF FlipStep, Current
<1> QED BY <1>10, <1>11

LEMMA WrittenStep ==
  ASSUME IInv, NEW c \in Caller, Commit(c), Written(c)
  PROVE  IInv' /\ FlipStep
<1>1. /\ call[c] \in Calls /\ At(c, "write") /\ WriteOk(c)
      /\ call[c].length \in Length /\ call[c].row \subseteq Id
  BY CommitFrame, CallFields DEF Written, Alone, At
<1>2. release' = release /\ Live' = Live /\ Current' = Current
  BY DEF Written, Live, Current
<1>3. \A i \in Id, a \in Artist :
        list'[i, a] = IF i \in call[c].row /\ a = call[c].artist
                      THEN call[c].length ELSE list[i, a]
  BY DEF Written
<1>4. /\ release' \in [Id -> Release \union {None}]
      /\ list' \in [Id \X Artist -> Length \union {None}]
  BY <1>1 DEF Written, IInv, TypeOK
<1>5. OneCurrent'
  BY <1>2 DEF OneCurrent, IInv
<1>6. ListsWithinK'
  <2> SUFFICES ASSUME NEW i \in Id, NEW a \in Artist, list'[i, a] # None
               PROVE  i \in Live' /\ list'[i, a] <= release'[i].k
    BY DEF ListsWithinK
  <2>1. CASE i \in call[c].row /\ a = call[c].artist
    BY <1>1, <1>2, <1>3, <2>1 DEF WriteOk, Live
  <2>2. CASE ~(i \in call[c].row /\ a = call[c].artist)
    BY <1>2, <1>3, <2>2 DEF IInv, ListsWithinK
  <2> QED BY <2>1, <2>2
<1>7. ASSUME NEW d \in Caller \ {c} PROVE Stands(d)'
  <2>1. pc'[d] = pc[d] /\ call'[d] = call[d] /\ Alone(d) /\ RowOk(d, c)
    BY CommitFrame
  <2>2. PublishOk(d)'
    BY <1>2, <2>1 DEF Alone, PublishOk, Named, Live
  <2>3. RetireOk(d)' /\ CreateOk(d)' /\ WriteOk(d)'
    BY <1>2, <2>1 DEF Alone, RetireOk, CreateOk, WriteOk, At
  <2>4. ASSUME At(d, "limit"), NEW i \in call[d].row, NEW a \in Artist
        PROVE  release'[i] # None /\ (list'[i, a] # None => list'[i, a] <= call[d].k)
    <3>1. i \in Id
      BY <2>4, CommitFrame, CallFields DEF At
    <3>2. list'[i, a] = list[i, a]
      BY <1>1, <1>3, <2>1, <2>4, <3>1 DEF RowOk
    <3> QED BY <1>2, <2>1, <2>4, <3>2 DEF Alone, LimitOk
  <2>5. ASSUME At(d, "limit"), NEW i \in call[d].row PROVE release'[i] # None
    BY <1>2, <2>1, <2>5 DEF Alone, LimitOk
  <2>6. LimitOk(d)'
    BY <2>1, <2>4, <2>5 DEF LimitOk, At
  <2> QED BY <2>2, <2>3, <2>6 DEF Stands
<1>8. IInv'
  BY <1>4, <1>5, <1>6, <1>7, CommitFrame
<1>9. FlipStep
  <2>1. \A i \in Current, a \in Artist : list[i, a] # None => list'[i, a] # None
    BY <1>1, <1>3, NoneAssumption DEF Current, Live
  <2> QED BY <1>2, <2>1 DEF FlipStep, Current
<1> QED BY <1>8, <1>9

(* ---- the theorems ---- *)
LEMMA InitOk == Init => IInv
<1> SUFFICES ASSUME Init PROVE IInv
  OBVIOUS
<1>1. TypeOK
  BY DEF Init, TypeOK
<1>2. \A c \in Caller : pc[c] = "idle"
  BY DEF Init
<1>3. Live = {}
  BY DEF Init, Live
<1>4. \A c, d \in Caller : Alone(c) /\ Apart(c, d)
  BY <1>2 DEF Alone, Apart, StageOk, PublishOk, RetireOk, CreateOk, LimitOk, WriteOk,
              TableOk, VersionOk, RowOk, HoldsTable, At
<1>5. OneCurrent /\ ListsWithinK
  BY <1>3 DEF Init, OneCurrent, ListsWithinK, Current
<1> QED BY <1>1, <1>4, <1>5 DEF IInv

\* A step that writes no table moves nothing.
LEMMA QuietFlip ==
  ASSUME release' = release, list' = list
  PROVE  FlipStep
BY DEF FlipStep, Current, Live

LEMMA Step ==
  ASSUME IInv, Next
  PROVE  IInv' /\ FlipStep
<1>1. PICK c \in Caller : Request(c) \/ Statement(c) \/ Fail(c)
  BY DEF Next
<1>2. CASE Request(c)
  <2>1. release' = release /\ list' = list
    BY <1>2 DEF Request, Create, Publish, Retire, ChangeLimit, WriteList, Begin, tables
  <2> QED BY <1>2, <2>1, RequestStep, QuietFlip
<1>3. CASE Fail(c)
  <2>1. release' = release /\ list' = list
    BY <1>3 DEF Fail, Rollback, tables
  <2> QED BY <1>3, <2>1, RollbackStep, QuietFlip DEF Fail
<1>4. CASE Statement(c) /\ ~Commit(c)
  <2>1. release' = release /\ list' = list
    BY <1>4 DEF Statement, LockTable, CreateRow, FindToPublish, ClearCurrent, SetCurrent,
                FindToRetire, SetLimit, PutList, Rollback, tables
  <2>2. IInv'
    BY <1>4, LockStep, CreateRowStep, FindToPublishStep, ClearCurrentStep, SetCurrentStep,
       FindToRetireStep, SetLimitStep, PutListStep DEF Statement
  <2> QED BY <2>1, <2>2, QuietFlip
<1>5. CASE Commit(c)
  <2>1. Created(c) \/ Published(c) \/ Retired(c) \/ Limited(c) \/ Written(c)
    BY <1>5 DEF Commit
  <2> QED BY <1>5, <2>1, CreatedStep, PublishedStep, RetiredStep, LimitedStep, WrittenStep
<1> QED BY <1>1, <1>2, <1>3, <1>4, <1>5

LEMMA Invariant == Spec => []IInv
<1>1. IInv /\ UNCHANGED vars => IInv'
  <2> SUFFICES ASSUME IInv, UNCHANGED vars PROVE IInv'
    OBVIOUS
  <2> USE DEF vars
  <2>1. TypeOK' /\ OneCurrent' /\ ListsWithinK'
    BY DEF IInv, TypeOK, OneCurrent, ListsWithinK, Current, Live
  <2>2. ASSUME NEW c \in Caller PROVE Alone(c)'
    <3> USE DEF At
    <3>1. Alone(c) /\ Live' = Live /\ Current' = Current
      BY DEF IInv, Live, Current
    <3>2. StageOk(c)' /\ PublishOk(c)'
      BY <3>1 DEF Alone, StageOk, PublishOk, Named
    <3>3. RetireOk(c)' /\ CreateOk(c)'
      BY <3>1 DEF Alone, RetireOk, CreateOk
    <3>4. LimitOk(c)' /\ WriteOk(c)'
      BY <3>1 DEF Alone, LimitOk, WriteOk
    <3> QED BY <3>2, <3>3, <3>4 DEF Alone
  <2>3. \A c, d \in Caller : c # d => Apart(c, d)'
    BY DEF IInv, Apart, TableOk, VersionOk, RowOk, HoldsTable, At
  <2> QED BY <2>1, <2>2, <2>3 DEF IInv
<1> QED BY <1>1, InitOk, Step, PTL DEF Spec

\* Types: whatever the interleaving, rows, lists and calls keep their shape.
THEOREM TypeCorrect == Spec => []TypeOK
<1>1. IInv => TypeOK
  BY DEF IInv
<1> QED BY <1>1, Invariant, PTL

\* The K guards (postgres.py:7338-7363) hold against every interleaving of
\* limit changes, list writes, flips and retirements.
THEOREM ListsCorrect == Spec => []ListsWithinK
<1>1. IInv => ListsWithinK
  BY DEF IInv
<1> QED BY <1>1, Invariant, PTL

\* The flip of the release pointer (postgres.py:8011-8018, 8060-8061,
\* 8104-8106) is atomic for any number of callers and releases.
THEOREM FlipsAtomic == Spec => FlipIsAtomic
<1>1. IInv => OneCurrent /\ FlipsNeverCollide
  BY DEF IInv, Alone, PublishOk, StageOk, FlipsNeverCollide
<1>2. IInv /\ IInv' /\ [Next]_vars =>
        [/\ OneCurrent' /\ FlipsNeverCollide'
         /\ Current # {} => Current' # {}
         /\ \A i \in Current \intersect Current', a \in Artist :
              list[i, a] # None => list'[i, a] # None
         /\ \A i \in Live \intersect Live' :
              release'[i].stamp # release[i].stamp
                <=> release'[i].current /\ ~release[i].current]_vars
  <2>1. IInv' => OneCurrent' /\ FlipsNeverCollide'
    BY <1>1, PTL
  <2> QED BY <2>1, Step DEF FlipStep
<1> QED BY <1>2, Invariant, PTL DEF Spec, FlipIsAtomic
===============================================================================
