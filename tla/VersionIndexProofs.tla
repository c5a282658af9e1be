--------------------------- MODULE VersionIndexProofs ---------------------------
(***************************************************************************)
(* Theorems about VersionIndex.  For any number of operators: types, the   *)
(* session's memory setting, and who may take a usable index away.  For    *)
(* one operator at a time, which is what the procedures ask for: that the  *)
(* reports are true of the index.                                          *)
(***************************************************************************)
EXTENDS VersionIndex, TLAPS

\* Which kinds of call reach which statement.
KindOk(o) ==
  /\ pc[o] \in {"set", "create", "reset"} => call[o].kind # "retire"
  /\ pc[o] = "building" => call[o].kind = "build"
  /\ pc[o] = "drop" => call[o].kind # "whole"
  /\ pc[o] = "delete" => call[o].kind = "retire"

\* Where no RESET is still to come, a raised setting is accounted for.
MemoryOk(o) ==
  raised[o] /\ (pc[o] \in {"idle", "returned", "check", "set"} \/ call[o].kind = "retire")
    => o \in cutShort

CleanupOk(o) == pc[o] = "drop" /\ call[o].kind = "build" => failures[o] = 1

\* One build at a time, and the catalogue shows it.
BuildOk ==
  /\ \A o, q \in Operator : pc[o] = "building" /\ pc[q] = "building" => o = q
  /\ \A o \in Operator : pc[o] = "building" => index[On(o)] = "building"
  /\ \A i \in Index : index[i] = "building" =>
       \E o \in Operator : pc[o] = "building" /\ On(o) = i

\* An INVALID index is a cleanup that is still to run or was cut short.
LeftoverOk ==
  /\ index[Whole] \in {"none", "valid"}
  /\ \A v \in Version : index[v] = "invalid" =>
       \/ v \in cutShort
       \/ \E o \in Operator : pc[o] = "drop" /\ call[o].kind = "build" /\ On(o) = v

IInv == /\ TypeOK
        /\ \A o \in Operator : KindOk(o) /\ MemoryOk(o) /\ CleanupOk(o)
        /\ BuildOk /\ LeftoverOk

(* ---- calls are records ---- *)
LEMMA CallFields ==
  ASSUME NEW r \in Calls
  PROVE  /\ r.kind \in {"build", "retire", "whole"} /\ r.valid \in BOOLEAN
         /\ r.kind = "whole" => r.on = Whole
         /\ r.kind # "whole" => r.on \in Version
         /\ r.on \in Index
  BY DEF Calls, Index

LEMMA InitOk == Init => IInv
<1> SUFFICES ASSUME Init PROVE IInv
  OBVIOUS
<1>1. TypeOK
  BY DEF Init, TypeOK
<1>2. \A o \in Operator : KindOk(o) /\ MemoryOk(o) /\ CleanupOk(o)
  BY DEF Init, KindOk, MemoryOk, CleanupOk
<1>3. BuildOk /\ LeftoverOk
  BY DEF Init, BuildOk, LeftoverOk, Index
<1> QED BY <1>1, <1>2, <1>3 DEF IInv

\* A step of one operator, as the others see it: theirs is as before, and at
\* most their own entry of cutShort could be at stake, which no step touches.
Mine(o) ==
  \A q \in Operator \ {o} :
    /\ pc'[q] = pc[q] /\ call'[q] = call[q] /\ raised'[q] = raised[q]
    /\ failures'[q] = failures[q] /\ (q \in cutShort => q \in cutShort')

LEMMA Others ==
  ASSUME IInv, NEW o \in Operator, TypeOK', Mine(o),
         KindOk(o)', MemoryOk(o)', CleanupOk(o)', BuildOk', LeftoverOk'
  PROVE  IInv'
<1>1. ASSUME NEW q \in Operator \ {o} PROVE KindOk(q)' /\ MemoryOk(q)' /\ CleanupOk(q)'
  BY DEF IInv, Mine, KindOk, MemoryOk, CleanupOk
<1> QED BY <1>1 DEF IInv

\* A step that leaves every index alone and is not in the middle of a build
\* or of a cleanup.
LEMMA CatalogueKept ==
  ASSUME IInv, NEW o \in Operator, Mine(o), UNCHANGED index,
         pc[o] \notin {"building", "drop"}, pc'[o] # "building",
         \A v \in Version : v \in cutShort => v \in cutShort'
  PROVE  BuildOk' /\ LeftoverOk'
<1>1. BuildOk'
  BY DEF IInv, BuildOk, Mine, On
<1>2. LeftoverOk'
  BY DEF IInv, LeftoverOk, Mine, On
<1> QED BY <1>1, <1>2

(* ---- steps that leave the catalogue alone ---- *)
LEMMA LoadStep ==
  ASSUME IInv, NEW v \in Version, Load(v)
  PROVE  IInv'
<1> USE DEF Load
<1>1. TypeOK'
  BY DEF IInv, TypeOK
<1>2. \A o \in Operator : KindOk(o)' /\ MemoryOk(o)' /\ CleanupOk(o)'
  BY DEF IInv, KindOk, MemoryOk, CleanupOk
<1>3. BuildOk' /\ LeftoverOk'
  BY DEF IInv, BuildOk, LeftoverOk, On
<1> QED BY <1>1, <1>2, <1>3 DEF IInv

LEMMA BeginStep ==
  ASSUME IInv, NEW o \in Operator, Begin(o)
  PROVE  IInv'
<1>1. PICK request \in Calls : call' = [call EXCEPT ![o] = request]
  BY DEF Begin
<1> USE DEF Begin, Goto
<1>2. TypeOK'
  BY <1>1 DEF IInv, TypeOK
<1>3. Mine(o)
  BY <1>1 DEF Mine, IInv, TypeOK
<1>4. KindOk(o)' /\ MemoryOk(o)' /\ CleanupOk(o)' /\ pc'[o] = "check"
  BY DEF IInv, TypeOK, KindOk, MemoryOk, CleanupOk
<1>5. BuildOk' /\ LeftoverOk'
  BY <1>3, <1>4, CatalogueKept
<1> QED BY <1>2, <1>3, <1>4, <1>5, Others

LEMMA CheckStep ==
  ASSUME IInv, NEW o \in Operator, Check(o)
  PROVE  IInv'
<1> USE DEF Check, Goto, Return
<1>1. call[o] \in Calls
  BY DEF IInv, TypeOK
<1>2. TypeOK'
  BY DEF IInv, TypeOK
<1>3. Mine(o)
  BY DEF Mine, IInv, TypeOK
<1>4. KindOk(o)' /\ CleanupOk(o)' /\ pc'[o] # "building"
  BY DEF IInv, TypeOK, KindOk, CleanupOk
<1>5. MemoryOk(o)'
  BY DEF IInv, TypeOK, MemoryOk
<1>6. BuildOk' /\ LeftoverOk'
  BY <1>3, <1>4, CatalogueKept
<1> QED BY <1>2, <1>3, <1>4, <1>5, <1>6, Others

LEMMA SetMemoryStep ==
  ASSUME IInv, NEW o \in Operator, SetMemory(o) \/ CancelSet(o)
  PROVE  IInv'
<1> USE DEF SetMemory, CancelSet, Goto, Return
<1>1. pc[o] = "set" /\ call[o].kind # "retire"
  BY DEF IInv, KindOk
<1>2. raised' \in [Operator -> BOOLEAN] /\ \A q \in Operator \ {o} : raised'[q] = raised[q]
  BY DEF IInv, TypeOK
<1>3. TypeOK'
  BY <1>2 DEF IInv, TypeOK
<1>4. Mine(o)
  BY <1>2 DEF Mine, IInv, TypeOK
<1>5. KindOk(o)' /\ CleanupOk(o)' /\ pc'[o] # "building"
  BY <1>1 DEF IInv, TypeOK, KindOk, CleanupOk
<1>6. MemoryOk(o)'
  BY <1>1 DEF IInv, TypeOK, MemoryOk
<1>7. BuildOk' /\ LeftoverOk'
  BY <1>1, <1>4, <1>5, CatalogueKept
<1> QED BY <1>3, <1>4, <1>5, <1>6, <1>7, Others

LEMMA DeleteStep ==
  ASSUME IInv, NEW o \in Operator, Delete(o)
  PROVE  IInv'
<1> USE DEF Delete, Goto, Return
<1>1. pc[o] = "delete" /\ call[o].kind = "retire"
  BY DEF IInv, KindOk
<1>2. TypeOK'
  BY DEF IInv, TypeOK
<1>3. Mine(o)
  BY DEF Mine, IInv, TypeOK
<1>4. KindOk(o)' /\ CleanupOk(o)' /\ MemoryOk(o)' /\ pc'[o] # "building"
  BY <1>1 DEF IInv, TypeOK, KindOk, CleanupOk, MemoryOk
<1>5. BuildOk' /\ LeftoverOk'
  BY <1>1, <1>3, <1>4, CatalogueKept
<1> QED BY <1>2, <1>3, <1>4, <1>5, Others

LEMMA ResetMemoryStep ==
  ASSUME IInv, NEW o \in Operator, ResetMemory(o)
  PROVE  IInv'
<1> USE DEF ResetMemory, Goto
<1>1. pc[o] = "reset" /\ call[o].kind # "retire"
  BY DEF IInv, KindOk
<1>2. TypeOK'
  BY DEF IInv, TypeOK
<1>3. Mine(o)
  BY DEF Mine, IInv, TypeOK
<1>4. KindOk(o)' /\ CleanupOk(o)' /\ MemoryOk(o)' /\ pc'[o] # "building"
  BY <1>1 DEF IInv, TypeOK, KindOk, CleanupOk, MemoryOk
<1>5. \A v \in Version : v \in cutShort => v \in cutShort'
  BY OperatorAssumption
<1>6. BuildOk' /\ LeftoverOk'
  BY <1>1, <1>3, <1>4, <1>5, CatalogueKept
<1> QED BY <1>2, <1>3, <1>4, <1>6, Others

(* ---- steps of a build ---- *)
LEMMA CreateStep ==
  ASSUME IInv, NEW o \in Operator, Create(o)
  PROVE  IInv'
<1> USE DEF Create, Goto
<1>1. /\ pc[o] = "create" /\ call[o].kind = "build" /\ call[o] \in Calls
      /\ On(o) \in Version /\ On(o) \in Index
  BY CallFields DEF IInv, TypeOK, On
<1>2. TypeOK'
  BY <1>1 DEF IInv, TypeOK
<1>3. Mine(o)
  BY DEF Mine, IInv, TypeOK
<1>4. KindOk(o)' /\ CleanupOk(o)' /\ MemoryOk(o)'
  BY <1>1 DEF IInv, TypeOK, KindOk, CleanupOk, MemoryOk
<1>5. BuildOk' /\ LeftoverOk'
  <2>1. CASE index[On(o)] # "none"
    BY <1>1, <1>3, <2>1, CatalogueKept DEF IInv, TypeOK
  <2>2. CASE index[On(o)] = "none"
    <3>1. /\ index' = [index EXCEPT ![On(o)] = "building"] /\ pc'[o] = "building"
          /\ \A q \in Operator : pc[q] # "building"
          /\ \A q \in Operator : On(q)' = On(q)
      BY <2>2 DEF TableFree, On, IInv, TypeOK
    <3>2. \A i \in Index : i # On(o) => index'[i] = index[i] /\ index[i] # "building"
      BY <3>1 DEF IInv, TypeOK, BuildOk
    <3>3. index'[On(o)] = "building"
      BY <1>1, <3>1 DEF IInv, TypeOK
    <3>4. BuildOk'
      BY <1>3, <3>1, <3>2, <3>3 DEF BuildOk, Mine
    <3>5. LeftoverOk'
      <4>1. Whole # On(o) /\ Whole \in Index /\ \A v \in Version : v \in Index
        BY <1>1, WholeAssumption DEF Index
      <4>2. ASSUME NEW v \in Version, index'[v] = "invalid"
            PROVE  \/ v \in cutShort'
                   \/ \E q \in Operator : pc'[q] = "drop" /\ call'[q].kind = "build"
                                            /\ On(q)' = v
        BY <1>1, <1>3, <3>1, <3>2, <3>3, <4>1, <4>2 DEF LeftoverOk, Mine, IInv
      <4> QED BY <3>2, <4>1, <4>2 DEF LeftoverOk, IInv
    <3> QED BY <3>4, <3>5
  <2> QED BY <2>1, <2>2
<1> QED BY <1>2, <1>3, <1>4, <1>5, Others

\* One index settles, and its build or cleanup, if there was one, is over.
LEMMA Settles ==
  ASSUME IInv, NEW o \in Operator, Mine(o), TypeOK', On(o)' = On(o), On(o) \in Index,
         NEW state \in {"none", "invalid", "valid"},
         index' = [index EXCEPT ![On(o)] = state], pc'[o] # "building",
         pc[o] = "building" \/ \A q \in Operator : pc[q] # "building",
         \A v \in Version : v # On(o) /\ v \in cutShort => v \in cutShort',
         state = "invalid" =>
           /\ On(o) \in Version
           /\ \/ On(o) \in cutShort'
              \/ pc'[o] = "drop" /\ call'[o].kind = "build"
  PROVE  BuildOk' /\ LeftoverOk'
<1>1. \A i \in Index : i # On(o) => index'[i] = index[i]
  BY DEF IInv, TypeOK
<1>2. index'[On(o)] = state
  BY DEF IInv, TypeOK
<1>3. \A q \in Operator : On(q)' = On(q)
  BY DEF Mine, On
<1>4. \A q \in Operator : pc[q] = "building" => q = o
  BY DEF IInv, BuildOk
<1>5. \A q \in Operator : pc'[q] # "building"
  BY <1>4 DEF Mine
<1>6. BuildOk'
  BY <1>1, <1>2, <1>4, <1>5 DEF BuildOk, IInv
<1>7. index'[Whole] \in {"none", "valid"}
  BY <1>1, <1>2, WholeAssumption DEF Index, IInv, LeftoverOk
<1>8. ASSUME NEW v \in Version, index'[v] = "invalid"
      PROVE  \/ v \in cutShort'
             \/ \E q \in Operator : pc'[q] = "drop" /\ call'[q].kind = "build" /\ On(q)' = v
  <2>1. CASE v = On(o)
    BY <1>2, <1>3, <1>8, <2>1
  <2>2. CASE v # On(o)
    <3>1. index[v] = "invalid"
      BY <1>1, <1>8, <2>2 DEF Index
    <3>2. CASE v \in cutShort
      BY <2>2, <3>2
    <3>3. CASE \E q \in Operator : pc[q] = "drop" /\ call[q].kind = "build" /\ On(q) = v
      BY <1>3, <2>2, <3>3 DEF Mine
    <3> QED BY <3>1, <3>2, <3>3 DEF IInv, LeftoverOk
  <2> QED BY <2>1, <2>2
<1> QED BY <1>6, <1>7, <1>8 DEF LeftoverOk

LEMMA BuiltStep ==
  ASSUME IInv, NEW o \in Operator, Built(o)
  PROVE  IInv'
<1> USE DEF Built, Goto
<1>1. pc[o] = "building" /\ call[o].kind = "build" /\ call[o] \in Calls /\ On(o) \in Index
  BY CallFields DEF IInv, TypeOK, KindOk, On
<1>2. TypeOK' /\ Mine(o) /\ On(o)' = On(o)
  BY <1>1 DEF IInv, TypeOK, Mine, On
<1>3. KindOk(o)' /\ CleanupOk(o)' /\ MemoryOk(o)' /\ pc'[o] = "reset"
  BY <1>1 DEF IInv, TypeOK, KindOk, CleanupOk, MemoryOk
<1>4. BuildOk' /\ LeftoverOk'
  BY <1>1, <1>2, <1>3, Settles
<1> QED BY <1>2, <1>3, <1>4, Others

LEMMA CreateFailsStep ==
  ASSUME IInv, NEW o \in Operator, CreateFails(o)
  PROVE  IInv'
<1> USE DEF CreateFails, Goto, Fail
<1>1. /\ pc[o] \in {"create", "building"} /\ call[o].kind = "build"
      /\ call[o] \in Calls /\ On(o) \in Version /\ On(o) \in Index
  BY CallFields DEF IInv, TypeOK, On
<1>2. TypeOK' /\ Mine(o) /\ On(o)' = On(o)
  BY <1>1 DEF IInv, TypeOK, Mine, On, Interrupted
<1>3. /\ KindOk(o)' /\ CleanupOk(o)' /\ MemoryOk(o)' /\ pc'[o] = "drop"
      /\ call'[o].kind = "build"
  BY <1>1 DEF IInv, TypeOK, KindOk, CleanupOk, MemoryOk
<1>4. BuildOk' /\ LeftoverOk'
  <2>1. CASE pc[o] # "building" /\ UNCHANGED index
    BY <1>1, <1>2, <1>3, <2>1, CatalogueKept
  <2>2. CASE pc[o] = "building" /\ index' = [index EXCEPT ![On(o)] = "invalid"]
    BY <1>1, <1>2, <1>3, <2>2, Settles
  <2> QED BY <1>1, <2>1, <2>2 DEF Interrupted
<1> QED BY <1>2, <1>3, <1>4, Others

LEMMA CreateWholeStep ==
  ASSUME IInv, NEW o \in Operator, CreateWhole(o)
  PROVE  IInv'
<1> USE DEF CreateWhole, Goto, Fail
<1>1. /\ pc[o] = "create" /\ call[o].kind = "whole"
      /\ call[o] \in Calls /\ On(o) = Whole /\ On(o) \in Index
  BY CallFields DEF IInv, TypeOK, On
<1>2. TypeOK' /\ Mine(o) /\ On(o)' = On(o)
  BY <1>1 DEF IInv, TypeOK, Mine, On
<1>3. KindOk(o)' /\ CleanupOk(o)' /\ MemoryOk(o)' /\ pc'[o] = "reset"
  BY <1>1 DEF IInv, TypeOK, KindOk, CleanupOk, MemoryOk
<1>4. BuildOk' /\ LeftoverOk'
  <2>1. CASE UNCHANGED index
    BY <1>1, <1>2, <1>3, <2>1, CatalogueKept
  <2>2. CASE TableFree /\ index' = [index EXCEPT ![Whole] = "valid"]
    BY <1>1, <1>2, <1>3, <2>2, Settles DEF TableFree
  <2> QED BY <2>1, <2>2
<1> QED BY <1>2, <1>3, <1>4, Others

(* ---- cleanups, retirements, cancellations ---- *)
LEMMA DropStep ==
  ASSUME IInv, NEW o \in Operator, Drop(o)
  PROVE  IInv'
<1> USE DEF Drop, Goto
<1>1. /\ pc[o] = "drop" /\ call[o].kind # "whole"
      /\ call[o] \in Calls /\ On(o) \in Version /\ On(o) \in Index
  BY CallFields DEF IInv, TypeOK, KindOk, On
<1>2. TypeOK' /\ On(o)' = On(o)
  BY <1>1 DEF IInv, TypeOK, On
<1>3. Mine(o)
  BY <1>1, OperatorAssumption DEF Mine, IInv, TypeOK
<1>4. KindOk(o)' /\ CleanupOk(o)' /\ pc'[o] \in {"delete", "reset"}
  BY <1>1 DEF IInv, TypeOK, KindOk, CleanupOk
<1>5. MemoryOk(o)'
  BY <1>1, OperatorAssumption DEF IInv, TypeOK, MemoryOk
<1>6. BuildOk' /\ LeftoverOk'
  BY <1>1, <1>2, <1>3, <1>4, Settles DEF TableFree
<1> QED BY <1>2, <1>3, <1>4, <1>5, <1>6, Others

\* A statement that stops where it is and owns up to what it leaves.
LEMMA Stopped ==
  ASSUME IInv, NEW o \in Operator, Interrupted(o), TypeOK', Mine(o), On(o)' = On(o),
         On(o) \in Index, pc[o] \in {"building", "drop"} => On(o) \in Version,
         pc'[o] # "building", cutShort \subseteq cutShort',
         pc[o] \in {"building", "drop"} => On(o) \in cutShort'
  PROVE  BuildOk' /\ LeftoverOk'
<1>1. CASE pc[o] # "building" /\ UNCHANGED index
  <2>1. CASE pc[o] # "drop"
    BY <1>1, <2>1, CatalogueKept
  <2>2. CASE pc[o] = "drop"
    <3>1. BuildOk'
      BY <1>1 DEF IInv, BuildOk, Mine, On
    <3>2. ASSUME NEW v \in Version, index'[v] = "invalid"
          PROVE  \/ v \in cutShort'
                 \/ \E q \in Operator : pc'[q] = "drop" /\ call'[q].kind = "build" /\ On(q)' = v
      <4>1. CASE v = On(o)
        BY <2>2, <4>1
      <4>2. CASE v # On(o)
        BY <1>1, <3>2, <4>2 DEF IInv, LeftoverOk, Mine, On
      <4> QED BY <4>1, <4>2
    <3> QED BY <1>1, <3>1, <3>2 DEF IInv, LeftoverOk
  <2> QED BY <2>1, <2>2
<1>2. CASE /\ \/ pc[o] = "building"
              \/ pc[o] = "drop" /\ index[On(o)] = "valid" /\ TableFree
           /\ index' = [index EXCEPT ![On(o)] = "invalid"]
  BY <1>2, Settles DEF TableFree
<1> QED BY <1>1, <1>2 DEF Interrupted

LEMMA DropFailsStep ==
  ASSUME IInv, NEW o \in Operator, DropFails(o)
  PROVE  IInv'
<1> USE DEF DropFails, Goto, Return
<1>1. /\ pc[o] = "drop" /\ call[o].kind # "whole"
      /\ call[o] \in Calls /\ On(o) \in Version /\ On(o) \in Index
  BY CallFields DEF IInv, TypeOK, KindOk, On
<1>2. TypeOK' /\ On(o)' = On(o) /\ Mine(o)
  BY <1>1 DEF IInv, TypeOK, On, Mine, Interrupted
<1>3. KindOk(o)' /\ CleanupOk(o)' /\ MemoryOk(o)' /\ pc'[o] \in {"returned", "reset"}
  BY <1>1 DEF IInv, TypeOK, KindOk, CleanupOk, MemoryOk
<1>4. BuildOk' /\ LeftoverOk'
  BY <1>1, <1>2, <1>3, Stopped
<1> QED BY <1>2, <1>3, <1>4, Others

LEMMA CancelStep ==
  ASSUME IInv, NEW o \in Operator, Cancel(o)
  PROVE  IInv'
<1> USE DEF Cancel, Goto, Fail
<1>1. /\ pc[o] \in {"create", "building", "drop", "delete"}
      /\ call[o] \in Calls /\ On(o) \in Index
      /\ pc[o] \in {"building", "drop"} => On(o) \in Version
  BY CallFields DEF IInv, TypeOK, KindOk, On
<1>2. TypeOK'
  BY <1>1 DEF IInv, TypeOK, Interrupted
<1>3. On(o)' = On(o) /\ Mine(o)
  BY DEF IInv, TypeOK, On, Mine
<1>4. KindOk(o)' /\ CleanupOk(o)' /\ MemoryOk(o)' /\ pc'[o] \in {"returned", "reset"}
  BY <1>1 DEF IInv, TypeOK, KindOk, CleanupOk, MemoryOk
<1>5. BuildOk' /\ LeftoverOk'
  BY <1>1, <1>2, <1>3, <1>4, Stopped
<1> QED BY <1>2, <1>3, <1>4, <1>5, Others

LEMMA NextOk ==
  ASSUME IInv, [Next]_vars
  PROVE  IInv'
<1>1. CASE UNCHANGED vars
  <2> USE <1>1 DEF vars
  <2>1. TypeOK'
    BY DEF IInv, TypeOK
  <2>2. \A o \in Operator : KindOk(o)' /\ MemoryOk(o)' /\ CleanupOk(o)'
    BY DEF IInv, KindOk, MemoryOk, CleanupOk
  <2>3. BuildOk' /\ LeftoverOk'
    BY DEF IInv, BuildOk, LeftoverOk, On
  <2> QED BY <2>1, <2>2, <2>3 DEF IInv
<1>2. CASE \E v \in Version : Load(v)
  BY <1>2, LoadStep
<1>3. ASSUME NEW o \in Operator,
             \/ Begin(o) \/ Check(o) \/ SetMemory(o)
             \/ Create(o) \/ Built(o) \/ CreateFails(o) \/ CreateWhole(o)
             \/ Drop(o) \/ DropFails(o) \/ Delete(o) \/ ResetMemory(o)
             \/ Cancel(o) \/ CancelSet(o)
      PROVE  IInv'
  BY <1>3, BeginStep, CheckStep, SetMemoryStep, CreateStep, BuiltStep, CreateFailsStep,
     CreateWholeStep, DropStep, DropFailsStep, DeleteStep, ResetMemoryStep, CancelStep
<1> QED BY <1>1, <1>2, <1>3 DEF Next

(* ---- the theorems ---- *)
LEMMA Invariant == Spec => []IInv
BY InitOk, NextOk, PTL DEF Spec

\* The catalogue's states and the calls keep their types.
THEOREM TypeCorrect == Spec => []TypeOK
<1>1. IInv => TypeOK
  BY DEF IInv
<1> QED BY <1>1, Invariant, PTL

\* "never a standing setting change" (postgres.py:7864-7866), whatever fails
\* or is cancelled in whichever operator's call.
THEOREM MemoryIsReset == Spec => []MemoryNeverStanding
<1>1. IInv => MemoryNeverStanding
  BY DEF IInv, MemoryOk, MemoryNeverStanding
<1> QED BY <1>1, Invariant, PTL

\* Whoever else is at work, a usable index goes only by a retirement or a
\* failed build's cleanup of its own name (postgres.py:7857-7861, 7995).
LEMMA LossStep ==
  ASSUME IInv, Next, NEW i \in Index, index[i] = "valid", index'[i] # "valid"
  PROVE  \E o \in Operator : /\ pc[o] = "drop" /\ On(o) = i
                             /\ call[o].kind = "build" => failures'[o] > 0
<1>1. PICK o \in Operator :
        \/ Create(o) \/ Built(o) \/ CreateFails(o) \/ CreateWhole(o)
        \/ Drop(o) \/ DropFails(o) \/ Cancel(o)
  BY DEF Next, Load, Begin, Check, SetMemory, Delete, ResetMemory, CancelSet
<1>2. CASE Create(o)
  BY <1>2 DEF Create, IInv, TypeOK
<1>3. CASE Built(o)
  BY <1>3 DEF Built, IInv, TypeOK
<1>4. CASE CreateFails(o)
  BY <1>4 DEF CreateFails, Interrupted, IInv, TypeOK, BuildOk
<1>5. CASE CreateWhole(o)
  BY <1>5 DEF CreateWhole, IInv, TypeOK
<1>6. CASE Drop(o)
  BY <1>6 DEF Drop, IInv, TypeOK, CleanupOk
<1>7. CASE DropFails(o)
  BY <1>7 DEF DropFails, Interrupted, Return, IInv, TypeOK, CleanupOk, BuildOk
<1>8. CASE Cancel(o)
  BY <1>8 DEF Cancel, Interrupted, Fail, IInv, TypeOK, BuildOk
<1> QED BY <1>1, <1>2, <1>3, <1>4, <1>5, <1>6, <1>7, <1>8

\* A version whose rows are about to go has lost its index.
GoneInv == \A o \in Operator : pc[o] = "delete" => index[On(o)] = "none"

LEMMA GoneInvStep ==
  ASSUME IInv, [Next]_vars, GoneInv, \A o, q \in Operator : o = q
  PROVE  GoneInv'
<1> SUFFICES ASSUME NEW o \in Operator, pc'[o] = "delete" PROVE index'[On(o)'] = "none"
  BY DEF GoneInv
<1>1. CASE UNCHANGED vars \/ \E v \in Version : Load(v)
  BY <1>1 DEF vars, Load, GoneInv, On
<1>2. CASE Drop(o)
  <2>1. call[o] \in Calls /\ On(o) \in Index
    BY CallFields DEF IInv, TypeOK, On
  <2> QED BY <1>2, <2>1 DEF Drop, On, IInv, TypeOK
<1>3. CASE \/ Begin(o) \/ Check(o) \/ SetMemory(o)
           \/ Create(o) \/ Built(o) \/ CreateFails(o) \/ CreateWhole(o)
           \/ DropFails(o) \/ Delete(o) \/ ResetMemory(o)
           \/ Cancel(o) \/ CancelSet(o)
  <2>1. pc'[o] # "delete"
    BY <1>3 DEF Begin, Check, SetMemory, Create, Built, CreateFails, CreateWhole, DropFails,
                Delete, ResetMemory, Cancel, CancelSet, Goto, Return, Fail, IInv, TypeOK
  <2> QED BY <2>1
<1> QED BY <1>1, <1>2, <1>3 DEF Next

LEMMA UsableStep ==
  ASSUME IInv, Next, \A o, q \in Operator : o = q, NEW o \in Operator, Building(o),
         pc'[o] = "reset", failures'[o] = 0
  PROVE  index'[On(o)] = "valid" \/ On(o) \in cutShort
<1>1. call[o] \in Calls /\ On(o) \in Index /\ On(o) \in Version
  BY CallFields DEF Building, IInv, TypeOK, On
<1>2. Create(o) \/ Built(o)
  BY DEF Building, Next, Load, Begin, Check, SetMemory, CreateFails, CreateWhole, Drop,
         DropFails, Delete, ResetMemory, Cancel, CancelSet, Goto, Return, Fail, IInv, TypeOK
<1>3. CASE Built(o)
  BY <1>1, <1>3 DEF Built, IInv, TypeOK
<1>4. CASE Create(o)
  <2>1. index' = index /\ index[On(o)] # "none" /\ TableFree /\ pc[o] = "create"
    BY <1>4 DEF Create, Goto, IInv, TypeOK
  <2>2. index[On(o)] # "building"
    BY <1>1, <2>1 DEF TableFree, IInv, BuildOk
  <2>3. index[On(o)] = "invalid" => On(o) \in cutShort
    BY <1>1, <2>1 DEF IInv, LeftoverOk
  <2> QED BY <1>1, <2>1, <2>2, <2>3 DEF IInv, TypeOK
<1> QED BY <1>2, <1>3, <1>4

\* One operator at a time reads true reports (postgres.py:7853-7863,
\* 7971-7972) and keeps no memory raised (postgres.py:7864-7866), for any
\* number of versions and whatever fails.
THEOREM ReportsAreTrue ==
  ASSUME \A o, q \in Operator : o = q
  PROVE  Spec => ReportsHold
<1>1. Init => GoneInv
  BY DEF Init, GoneInv
<1>2. IInv /\ GoneInv /\ [Next]_vars => GoneInv'
  BY GoneInvStep
<1>3. IInv /\ GoneInv /\ [Next]_vars
        => [/\ \A o \in Operator : Usable(o) /\ Gone(o)
            /\ \A i \in Index : Lost(i)
            /\ MemoryNeverStanding']_vars
  <2> SUFFICES ASSUME IInv, GoneInv, Next
               PROVE  /\ \A o \in Operator : Usable(o) /\ Gone(o)
                      /\ \A i \in Index : Lost(i)
                      /\ MemoryNeverStanding'
    OBVIOUS
  <2>1. ASSUME NEW o \in Operator PROVE Usable(o)
    BY <2>1, UsableStep DEF Usable
  <2>2. ASSUME NEW o \in Operator PROVE Gone(o)
    <3> SUFFICES ASSUME pc[o] = "delete", pc'[o] = "returned", failures'[o] = 0
                 PROVE  index'[On(o)] = "none" /\ On(o) \notin rows'
      BY DEF Gone
    <3>1. Delete(o)
      BY DEF Next, Load, Begin, Check, SetMemory, Create, Built, CreateFails, CreateWhole,
             Drop, DropFails, ResetMemory, Cancel, CancelSet, Goto, Return, Fail, IInv, TypeOK
    <3> QED BY <3>1 DEF Delete, Return, GoneInv, IInv, TypeOK
  <2>3. ASSUME NEW i \in Index PROVE Lost(i)
    BY <2>3, LossStep DEF Lost
  <2>4. MemoryNeverStanding'
    <3>1. IInv'
      BY NextOk
    <3> QED BY <3>1 DEF IInv, MemoryOk, MemoryNeverStanding
  <2> QED BY <2>1, <2>2, <2>3, <2>4
<1> QED BY <1>1, <1>2, <1>3, Invariant, PTL DEF Spec, ReportsHold
================================================================================
