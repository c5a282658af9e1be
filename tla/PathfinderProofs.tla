-------------------------- MODULE PathfinderProofs --------------------------
(***************************************************************************)
(* Proofs about Pathfinder: type correctness, and that both searches       *)
(* answer exactly whatever a loader commits while they run.                *)
(*                                                                         *)
(* Within and Trace are recursive functions.  What they compute is shown   *)
(* by induction on the number of hops, with the set of the numbers that    *)
(* satisfy the claim: Counting below.                                      *)
(***************************************************************************)
EXTENDS Pathfinder, TLAPS, WellFoundedInduction, FiniteSetTheorems

-----------------------------------------------------------------------------
(* The invariant of a search.  While a call runs, the rows of each side    *)
(* are a tree over edges of the call (Trees), deep enough to hold all that *)
(* has always been near its end (Closed), and the two sides have nothing   *)
(* in common that an edge which was always there would join (Apart).       *)

\* The end of the graph that side s starts from.
Root(s) == IF s = 0 THEN call.from ELSE call.to
\* A level is being expanded.
Inside == pc \in {"probe", "expand", "walk", "nearest"}
\* The rows of side s whose neighbours have been inserted.
Done(s) ==
  {r \in Rows(s) : \/ r.depth < complete[s]
                   \/ Inside /\ s = side /\ r.depth = complete[s] /\ r.vertex \notin todo}
\* Its end and the neighbours it has by edges that were always there.
Near(s) == {Root(s)} \cup {w \in Vertex : \E r \in Done(s) : {r.vertex, w} \in always}

\* Where each kind of call can be, and how deep.
PathStage ==
  /\ call.from # call.to
  /\ pc \in {"level", "probe", "expand"}
  /\ IF pc = "level" THEN complete[0] + complete[1] <= call.cap
                     ELSE complete[0] + complete[1] < call.cap
  /\ pc = "expand" => at \in todo /\ \A w \in SeenBy(1 - side) : {at, w} \notin always
ExploreStage ==
  /\ pc \in {"level", "walk", "nearest"} /\ side = 0
  /\ IF pc = "level" THEN complete[0] <= call.cap ELSE complete[0] < call.cap
  /\ call.limit > 0
  /\ pc = "nearest" => Cardinality(Discovered) >= call.limit
Stage ==
  /\ IF call.kind = "path" THEN PathStage ELSE ExploreStage
  /\ Inside => todo \subseteq Frontier(side)
  /\ Inside /\ pc # "nearest" => todo # {}

\* The rows are trees: each hangs from one of the depth before it by an edge of the call.
Trees ==
  /\ IsFiniteSet(seen)
  /\ \A s \in Sides : s = 0 \/ call.kind = "path" => Start(s, Root(s)) \in seen
  /\ \A r \in seen :
       /\ call.kind = "path" \/ r.side = 0
       /\ r.depth <= complete[r.side] + (IF Inside /\ r.side = side THEN 1 ELSE 0)
       /\ r.depth = 0 => r.vertex = Root(r.side)
       /\ r.depth > 0 => \E q \in Rows(r.side) : /\ q.vertex = r.parent /\ q.depth = r.depth - 1
                                                /\ {r.parent, r.vertex} \in ever
Closed ==
  \A s \in Sides : \A r \in Done(s) : \A w \in Vertex : {r.vertex, w} \in always =>
    \E q \in Rows(s) : q.vertex = w /\ q.depth <= r.depth + 1
Apart == call.kind = "path" => Near(0) \cap Near(1) = {}

Searching ==
  /\ always \subseteq edges /\ edges \subseteq ever
  /\ Stage /\ Trees /\ Closed /\ Apart
SearchInv == TypeOK /\ (Running => Searching)

-----------------------------------------------------------------------------
(* Balls and hops.                                                         *)

\* Induction, with the set of the numbers that satisfy the claim.
LEMMA Counting ==
  ASSUME NEW T, 0 \in T, \A n \in Nat : n \in T => n + 1 \in T
  PROVE  \A n \in Nat : n \in T
<1> DEFINE R == OpToRel(<, Nat)
           missing == {n \in Nat : n \notin T}
<1> SUFFICES ASSUME missing # {} PROVE FALSE
  OBVIOUS
<1>1. \A m, n \in Nat : m < n => <<m, n>> \in R
  BY Zenon DEF OpToRel
<1>2. IsWellFoundedOn(R, Nat)
  BY NatLessThanWellFounded, Zenon
<1> HIDE DEF R
<1>3. \E n \in missing : \A m \in missing : ~ <<m, n>> \in R
  <2> missing \subseteq Nat
    OBVIOUS
  <2> HIDE DEF missing
  <2> QED
    BY <1>2, WFMin
<1>4. PICK n \in missing : \A m \in missing : ~ <<m, n>> \in R
  BY <1>3
<1>5. n \in Nat /\ n # 0 /\ n - 1 \in Nat /\ n - 1 < n
  BY <1>4
<1>6. n - 1 \notin missing
  BY <1>1, <1>4, <1>5
<1>7. n - 1 \in T
  BY <1>5, <1>6
<1>8. (n - 1) + 1 \in T
  BY <1>5, <1>7
<1>9. (n - 1) + 1 = n
  BY <1>5
<1> QED
  BY <1>4, <1>8, <1>9

\* The vertices next to those of a set.
Beside(E, S) == {w \in Vertex : \E u \in S : {u, w} \in E}
IsBall(f, E, v, n) == f = [i \in 0..n |-> IF i = 0 THEN {v} ELSE f[i - 1] \cup Beside(E, f[i - 1])]

LEMMA WithinChoose ==
  ASSUME NEW E, NEW v, NEW n \in Nat
  PROVE  Within(E, v, n) = (CHOOSE f : IsBall(f, E, v, n))[n]
BY Zenon DEF Within, IsBall, Beside

LEMMA BallExists ==
  ASSUME NEW E, NEW v
  PROVE  \A n \in Nat : \E f : IsBall(f, E, v, n)
<1> DEFINE T == {n \in Nat : \E f : IsBall(f, E, v, n)}
<1>1. 0 \in T
  <2> DEFINE f == [i \in 0..0 |-> {v}]
  <2>1. f = [i \in 0..0 |-> IF i = 0 THEN {v} ELSE f[i - 1] \cup Beside(E, f[i - 1])]
    OBVIOUS
  <2>2. IsBall(f, E, v, 0)
    BY <2>1, Zenon DEF IsBall
  <2> QED
    BY <2>2
<1>2. ASSUME NEW n \in Nat, n \in T PROVE n + 1 \in T
  <2>1. PICK f : IsBall(f, E, v, n)
    BY <1>2
  <2> DEFINE g == [i \in 0..n + 1 |-> IF i <= n THEN f[i] ELSE f[n] \cup Beside(E, f[n])]
  <2>2. f = [i \in 0..n |-> IF i = 0 THEN {v} ELSE f[i - 1] \cup Beside(E, f[i - 1])]
    BY <2>1, Zenon DEF IsBall
  <2>3. ASSUME NEW i \in 0..n + 1
        PROVE  g[i] = IF i = 0 THEN {v} ELSE g[i - 1] \cup Beside(E, g[i - 1])
    <3>1. CASE i = 0
      BY <2>2, <3>1
    <3>2. CASE i > 0 /\ i <= n
      <4>1. g[i] = f[i] /\ g[i - 1] = f[i - 1]
        BY <3>2
      <4>2. i \in 0..n /\ i # 0
        BY <3>2
      <4>3. f[i] = f[i - 1] \cup Beside(E, f[i - 1])
        BY <2>2, <4>2, Zenon
      <4> QED
        BY <4>1, <4>2, <4>3, Zenon
    <3>3. CASE i = n + 1
      <4>1. g[i] = f[n] \cup Beside(E, f[n]) /\ g[i - 1] = f[n]
        BY <3>3
      <4>2. i # 0
        BY <3>3
      <4> QED
        BY <4>1, <4>2, Zenon
    <3> QED
      BY <3>1, <3>2, <3>3
  <2>4. g = [i \in 0..n + 1 |-> IF i = 0 THEN {v} ELSE g[i - 1] \cup Beside(E, g[i - 1])]
    <3> HIDE DEF g
    <3>1. g = [i \in 0..n + 1 |-> g[i]]
      BY DEF g
    <3> QED
      BY <2>3, <3>1
  <2>5. IsBall(g, E, v, n + 1)
    <3> HIDE DEF g
    <3> QED
      BY <2>4, Zenon DEF IsBall
  <2> QED
    BY <2>5
<1> HIDE DEF T
<1>3. \A n \in Nat : n \in T
  BY <1>1, <1>2, Counting
<1> QED
  BY <1>3 DEF T

LEMMA BallsAgree ==
  ASSUME NEW E, NEW v, NEW n \in Nat, NEW m \in Nat, NEW f, NEW g,
         IsBall(f, E, v, n), IsBall(g, E, v, m), n <= m
  PROVE  \A i \in 0..n : f[i] = g[i]
<1> DEFINE T == {i \in Nat : i <= n => f[i] = g[i]}
<1>1. /\ \A i \in 0..n : f[i] = IF i = 0 THEN {v} ELSE f[i - 1] \cup Beside(E, f[i - 1])
      /\ \A i \in 0..m : g[i] = IF i = 0 THEN {v} ELSE g[i - 1] \cup Beside(E, g[i - 1])
  BY Zenon DEF IsBall
<1>2. 0 \in T
  <2>1. 0 \in 0..n /\ 0 \in 0..m
    OBVIOUS
  <2>2. f[0] = {v} /\ g[0] = {v}
    BY <1>1, <2>1, Zenon
  <2> QED
    BY <2>2
<1>3. ASSUME NEW i \in Nat, i \in T PROVE i + 1 \in T
  <2> SUFFICES ASSUME i + 1 <= n PROVE f[i + 1] = g[i + 1]
    OBVIOUS
  <2>1. i + 1 \in 0..n /\ i + 1 \in 0..m /\ i + 1 # 0 /\ (i + 1) - 1 = i /\ f[i] = g[i]
    BY <1>3
  <2>2. f[i + 1] = f[i] \cup Beside(E, f[i]) /\ g[i + 1] = g[i] \cup Beside(E, g[i])
    BY <1>1, <2>1, Zenon
  <2> QED
    BY <2>1, <2>2, Zenon
<1> HIDE DEF T
<1>4. \A i \in Nat : i \in T
  BY <1>2, <1>3, Counting
<1> QED
  BY <1>4 DEF T

\* What Within computes: its own vertex, then everything one hop further.
LEMMA WithinNone ==
  ASSUME NEW E, NEW v
  PROVE  Within(E, v, 0) = {v}
<1>1. \E f : IsBall(f, E, v, 0)
  BY BallExists
<1> DEFINE ball == CHOOSE f : IsBall(f, E, v, 0)
<1>2. IsBall(ball, E, v, 0)
  BY <1>1, Zenon
<1>3. Within(E, v, 0) = ball[0]
  BY WithinChoose
<1> HIDE DEF ball
<1>4. 0 \in 0..0
  OBVIOUS
<1>5. ball[0] = {v}
  BY <1>2, <1>4, Zenon DEF IsBall
<1> QED
  BY <1>3, <1>5

LEMMA WithinMore ==
  ASSUME NEW E, NEW v, NEW n \in Nat
  PROVE  Within(E, v, n + 1) = Within(E, v, n) \cup Beside(E, Within(E, v, n))
<1> DEFINE small == CHOOSE f : IsBall(f, E, v, n)
           large == CHOOSE f : IsBall(f, E, v, n + 1)
<1>0. n + 1 \in Nat /\ n <= n + 1 /\ n \in 0..n /\ n + 1 \in 0..n + 1 /\ n + 1 # 0 /\ (n + 1) - 1 = n
  OBVIOUS
<1>1. IsBall(small, E, v, n)
  <2>1. \E f : IsBall(f, E, v, n)
    BY BallExists
  <2> QED
    BY <2>1, Zenon
<1>2. IsBall(large, E, v, n + 1)
  <2>1. \E f : IsBall(f, E, v, n + 1)
    BY <1>0, BallExists
  <2> QED
    BY <2>1, Zenon
<1>3. Within(E, v, n) = small[n]
  BY WithinChoose
<1>4. Within(E, v, n + 1) = large[n + 1]
  BY <1>0, WithinChoose
<1> HIDE DEF small, large
<1>5. small[n] = large[n]
  BY <1>0, <1>1, <1>2, BallsAgree
<1>6. large[n + 1] = large[n] \cup Beside(E, large[n])
  BY <1>0, <1>2, Zenon DEF IsBall
<1> QED
  BY <1>3, <1>4, <1>5, <1>6, Zenon

LEMMA InWithin ==
  ASSUME NEW E, NEW v, NEW n \in Nat, NEW w, w \in Within(E, v, n + 1)
  PROVE  w \in Within(E, v, n) \/ (w \in Vertex /\ \E u \in Within(E, v, n) : {u, w} \in E)
<1>1. Within(E, v, n + 1) = Within(E, v, n) \cup Beside(E, Within(E, v, n))
  BY WithinMore
<1> QED
  BY <1>1 DEF Beside

LEMMA WithinStep ==
  ASSUME NEW E, NEW v, NEW n \in Nat, NEW u \in Within(E, v, n)
  PROVE  u \in Within(E, v, n + 1) /\ \A w \in Vertex : {u, w} \in E => w \in Within(E, v, n + 1)
<1>1. Within(E, v, n + 1) = Within(E, v, n) \cup Beside(E, Within(E, v, n))
  BY WithinMore
<1> QED
  BY <1>1 DEF Beside

\* A ball around a vertex holds only vertices.
LEMMA WithinVertex ==
  ASSUME NEW E, NEW v \in Vertex
  PROVE  \A n \in Nat : Within(E, v, n) \subseteq Vertex
<1> DEFINE T == {n \in Nat : Within(E, v, n) \subseteq Vertex}
<1>1. 0 \in T
  BY WithinNone
<1>2. ASSUME NEW n \in Nat, n \in T PROVE n + 1 \in T
  <2>1. Within(E, v, n) \subseteq Vertex
    BY <1>2
  <2>2. Within(E, v, n + 1) \subseteq Vertex
    BY <2>1, InWithin
  <2> QED
    BY <2>2
<1> HIDE DEF T
<1>3. \A n \in Nat : n \in T
  BY <1>1, <1>2, Counting
<1> QED
  BY <1>3 DEF T

\* A vertex m + n hops away is reached from both ends: m hops from one, n from the other.
LEMMA Meeting ==
  ASSUME NEW E, NEW a \in Vertex, NEW b \in Vertex
  PROVE  \A n \in Nat : \A m \in Nat : b \in Within(E, a, m + n) =>
           \E x : x \in Within(E, a, m) /\ x \in Within(E, b, n)
<1> DEFINE T == {n \in Nat : \A m \in Nat : b \in Within(E, a, m + n) =>
                   \E x : x \in Within(E, a, m) /\ x \in Within(E, b, n)}
<1>1. 0 \in T
  <2> SUFFICES ASSUME NEW m \in Nat, b \in Within(E, a, m + 0)
               PROVE  \E x : x \in Within(E, a, m) /\ x \in Within(E, b, 0)
    OBVIOUS
  <2>1. m + 0 = m
    OBVIOUS
  <2>2. b \in Within(E, a, m)
    BY <2>1
  <2>3. b \in Within(E, b, 0)
    BY WithinNone
  <2> QED
    BY <2>2, <2>3
<1>2. ASSUME NEW n \in Nat, n \in T PROVE n + 1 \in T
  <2> SUFFICES ASSUME NEW m \in Nat, b \in Within(E, a, m + (n + 1))
               PROVE  \E x : x \in Within(E, a, m) /\ x \in Within(E, b, n + 1)
    OBVIOUS
  <2>1. m + (n + 1) = (m + 1) + n /\ m + 1 \in Nat
    OBVIOUS
  <2>2. b \in Within(E, a, (m + 1) + n)
    BY <2>1
  <2>3. PICK y : y \in Within(E, a, m + 1) /\ y \in Within(E, b, n)
    BY <1>2, <2>1, <2>2
  <2>4. CASE y \in Within(E, a, m)
    <3>1. y \in Within(E, b, n + 1)
      BY <2>3, WithinStep
    <3> QED
      BY <2>4, <3>1
  <2>5. CASE \E u \in Within(E, a, m) : {u, y} \in E
    <3>1. PICK u \in Within(E, a, m) : {u, y} \in E
      BY <2>5
    <3>2. u \in Vertex
      BY WithinVertex
    <3>3. {y, u} = {u, y}
      OBVIOUS
    <3>4. {y, u} \in E
      BY <3>1, <3>3
    <3>5. u \in Within(E, b, n + 1)
      BY <2>3, <3>2, <3>4, WithinStep
    <3> QED
      BY <3>5
  <2> QED
    BY <2>3, <2>4, <2>5, InWithin
<1> HIDE DEF T
<1>3. \A n \in Nat : n \in T
  BY <1>1, <1>2, Counting
<1> QED
  BY <1>3 DEF T

-----------------------------------------------------------------------------
(* The state of a search.                                                  *)

LEMMA CallTyped ==
  ASSUME TypeOK
  PROVE  /\ call.kind \in {"path", "explore"}
         /\ call.from \in Vertex /\ call.cap \in Nat /\ call.cap <= PATH_MAX_DEPTH
         /\ call.kind = "path" => call.to \in Vertex
         /\ call.kind = "explore" => call.limit \in Nat
BY DEF TypeOK, Calls, PATH_MIN_DEPTH, PATH_MAX_DEPTH, EXPLORE_MIN_HOPS, EXPLORE_MAX_HOPS

\* What is known of the rows of a side.
LEMMA RowTyped ==
  ASSUME TypeOK, NEW s, NEW r \in Rows(s)
  PROVE  /\ r \in seen /\ r.side = s /\ s \in Sides /\ r.vertex \in Vertex /\ r.depth \in Nat
         /\ r.vertex \in SeenBy(s)
         /\ \A q \in Rows(s) : q.vertex = r.vertex => q = r
BY DEF TypeOK, Rows, Seen, SeenBy

LEMMA SideTyped ==
  ASSUME TypeOK
  PROVE  /\ side \in Sides /\ 1 - side \in Sides /\ 1 - side # side
         /\ \A s \in Sides : complete[s] \in Nat /\ (s = side \/ s = 1 - side)
BY DEF TypeOK, Sides

LEMMA SearchInit == Init => SearchInv
<1> SUFFICES ASSUME Init PROVE SearchInv
  OBVIOUS
<1>1. call \in Calls
  BY GraphAssumption DEF Init, Calls, EXPLORE_MIN_HOPS, EXPLORE_MAX_HOPS
<1>2. TypeOK
  BY <1>1, GraphAssumption, ArgumentAssumption DEF Init, TypeOK, Fresh, Sides, Seen, PATH_MAX_DEPTH
<1> QED
  BY <1>2 DEF Init, SearchInv, Running

-----------------------------------------------------------------------------
(* A call begins.                                                          *)
\* Rows of a start, one a side.
LEMMA StartRows ==
  ASSUME NEW v \in Vertex, NEW s \in Sides
  PROVE  Start(s, v) \in Seen /\ Start(s, v).side = s /\ Start(s, v).vertex = v /\ Start(s, v).depth = 0
BY DEF Start, Seen, Sides

LEMMA BeginTyped ==
  ASSUME SearchInv, NEW c \in Calls, NEW rows \in SUBSET Seen, Begin(c, rows),
         \A r, q \in rows : r.side = q.side /\ r.vertex = q.vertex => r = q,
         pc' \in {"level", "answered"}
  PROVE  TypeOK'
BY DEF SearchInv, TypeOK, Begin, Fill, Fresh, Sides, PATH_MAX_DEPTH

LEMMA FindShortestPathStep ==
  ASSUME SearchInv, NEW from \in Asked, NEW to \in Asked, NEW max \in Depths,
         FindShortestPath(from, to, max)
  PROVE  SearchInv'
<1> DEFINE cap == Clamped(max, PATH_MIN_DEPTH, PATH_MAX_DEPTH, PATH_DEFAULT_DEPTH)
           c == [kind |-> "path", from |-> from, to |-> to, cap |-> cap]
<1>1. cap \in PATH_MIN_DEPTH..PATH_MAX_DEPTH
  BY ArgumentAssumption DEF Clamped, PATH_MIN_DEPTH, PATH_MAX_DEPTH, PATH_DEFAULT_DEPTH
<1>2. from \in Vertex /\ to \in Vertex
  BY GraphAssumption
<1>3. IF from = to
      THEN Begin(c, {}) /\ pc' = "answered"
      ELSE Begin(c, {Start(0, from), Start(1, to)}) /\ pc' = "level"
  BY DEF FindShortestPath, Return
<1> HIDE DEF cap
<1>4. c \in Calls
  BY <1>1, <1>2 DEF Calls
<1>5. CASE from = to
  <2>1. Begin(c, {}) /\ pc' = "answered"
    BY <1>3, <1>5
  <2>2. TypeOK'
    BY <2>1, <1>4, BeginTyped
  <2> QED
    BY <2>1, <2>2 DEF SearchInv, Running
<1>6. CASE from # to
  <2> DEFINE a == Start(0, from)
             b == Start(1, to)
  <2>1. Begin(c, {a, b}) /\ pc' = "level"
    BY <1>3, <1>6
  <2>2. /\ a \in Seen /\ a.side = 0 /\ a.vertex = from /\ a.depth = 0
        /\ b \in Seen /\ b.side = 1 /\ b.vertex = to /\ b.depth = 0
    BY <1>2, StartRows DEF Sides
  <2>3. TypeOK'
    <3> HIDE DEF a, b, c
    <3>1. {a, b} \in SUBSET Seen /\ \A r, q \in {a, b} : r.side = q.side /\ r.vertex = q.vertex => r = q
      BY <2>2
    <3> QED
      BY <3>1, <2>1, <1>4, BeginTyped
  <2>4. /\ call' = c /\ seen' = {a, b} /\ complete' = Fresh
        /\ ever' = edges /\ always' = edges /\ edges' = edges /\ pc' = "level"
    BY <2>1 DEF Begin, Fill
  <2>5. call'.kind = "path" /\ call'.from = from /\ call'.to = to /\ call'.cap = cap
    BY <2>4
  <2>6. complete'[0] = 0 /\ complete'[1] = 0
    BY <2>4 DEF Fresh, Sides
  <2>7. Root(0)' = from /\ Root(1)' = to
    BY <2>5 DEF Root
  <2>8. Stage'
    <3>1. 0 + 0 <= cap
      BY <1>1 DEF PATH_MIN_DEPTH, PATH_MAX_DEPTH
    <3> QED
      BY <3>1, <2>4, <2>5, <2>6, <1>6 DEF Stage, PathStage, Inside
  <2>9. Trees'
    <3>1. IsFiniteSet(seen')
      <4>1. IsFiniteSet({a}) /\ IsFiniteSet({b})
        BY FS_Singleton
      <4>2. IsFiniteSet({a} \cup {b})
        BY <4>1, FS_Union
      <4>3. {a} \cup {b} = {a, b}
        OBVIOUS
      <4> QED
        BY <4>2, <4>3, <2>4
    <3>2. \A s \in Sides : Start(s, Root(s))' \in seen'
      BY <2>4, <2>7 DEF Sides, Start
    <3>3. ASSUME NEW r \in seen'
          PROVE  r.depth = 0 /\ r.vertex = Root(r.side)' /\ complete'[r.side] = 0
      BY <2>2, <2>4, <2>6, <2>7
    <3> QED
      BY <3>1, <3>2, <3>3, <2>4, <2>5 DEF Trees, Inside, Start
  <2>10. \A s \in Sides : Done(s)' = {}
    BY <2>2, <2>4, <2>6 DEF Done, Inside, Rows, Sides
  <2>11. Closed' /\ Apart'
    BY <2>10, <2>7, <1>6 DEF Closed, Apart, Near, Sides
  <2> QED
    BY <2>3, <2>4, <2>8, <2>9, <2>11 DEF SearchInv, Searching
<1> QED
  BY <1>5, <1>6

LEMMA ExploreStep ==
  ASSUME SearchInv, NEW from \in Asked, NEW hops \in Hops, NEW limit \in Limits,
         Explore(from, hops, limit)
  PROVE  SearchInv'
<1> DEFINE cap == Clamped(hops, EXPLORE_MIN_HOPS, EXPLORE_MAX_HOPS, EXPLORE_DEFAULT_HOPS)
           c == [kind |-> "explore", from |-> from, cap |-> cap, limit |-> limit]
           a == Start(0, from)
<1>1. cap \in EXPLORE_MIN_HOPS..EXPLORE_MAX_HOPS
  BY ArgumentAssumption DEF Clamped, EXPLORE_MIN_HOPS, EXPLORE_MAX_HOPS, EXPLORE_DEFAULT_HOPS
<1>2. from \in Vertex /\ limit \in Nat
  BY GraphAssumption, ArgumentAssumption
<1>3. Begin(c, {a}) /\ pc' = IF limit = 0 THEN "answered" ELSE "level"
  BY DEF Explore, Return
<1> HIDE DEF cap
<1>4. c \in Calls
  BY <1>1, <1>2 DEF Calls
<1>5. a \in Seen /\ a.side = 0 /\ a.vertex = from /\ a.depth = 0
  BY <1>2, StartRows DEF Sides
<1>6. TypeOK'
  <2> HIDE DEF a, c
  <2> QED
    BY <1>3, <1>4, <1>5, BeginTyped
<1>7. /\ call' = c /\ seen' = {a} /\ complete' = Fresh /\ side' = 0
      /\ ever' = edges /\ always' = edges /\ edges' = edges
  BY <1>3 DEF Begin, Fill
<1>8. call'.kind = "explore" /\ call'.from = from /\ call'.cap = cap /\ call'.limit = limit
  BY <1>7
<1>9. complete'[0] = 0 /\ complete'[1] = 0
  BY <1>7 DEF Fresh, Sides
<1>10. CASE limit = 0
  BY <1>3, <1>6, <1>10 DEF SearchInv, Running
<1>11. CASE limit # 0
  <2>1. pc' = "level" /\ limit > 0
    BY <1>3, <1>2, <1>11
  <2>2. Root(0)' = from
    BY <1>8 DEF Root
  <2>3. Stage'
    <3>1. 0 <= cap
      BY <1>1 DEF EXPLORE_MIN_HOPS, EXPLORE_MAX_HOPS
    <3> QED
      BY <3>1, <2>1, <1>7, <1>8, <1>9 DEF Stage, ExploreStage, Inside
  <2>4. Trees'
    <3>1. IsFiniteSet(seen')
      BY <1>7, FS_Singleton
    <3>2. Start(0, Root(0))' \in seen'
      BY <1>7, <2>2 DEF Start
    <3>3. ASSUME NEW r \in seen'
          PROVE  r.side = 0 /\ r.depth = 0 /\ r.vertex = Root(r.side)' /\ complete'[r.side] = 0
      BY <1>5, <1>7, <1>9, <2>2
    <3> QED
      BY <3>1, <3>2, <3>3, <2>1, <1>8 DEF Trees, Inside, Start
  <2>5. \A s \in Sides : Done(s)' = {}
    BY <1>5, <1>7, <1>9, <2>1 DEF Done, Inside, Rows, Sides
  <2>6. Closed' /\ Apart'
    BY <2>5, <1>8 DEF Closed, Apart
  <2> QED
    BY <1>6, <1>7, <2>1, <2>3, <2>4, <2>6 DEF SearchInv, Searching
<1> QED
  BY <1>10, <1>11

-----------------------------------------------------------------------------
(* A vertex is expanded.                                                   *)

\* What Expand and Walk have in common: the neighbours of v are inserted, and the level goes on or
\* is over.
Grows(v) ==
  /\ v \in todo
  /\ seen' = seen \cup Reached(v) /\ todo' = todo \ {v}
  /\ UNCHANGED <<side, call, graph>>
  /\ \/ pc' = "level" /\ todo' = {} /\ complete' = [complete EXCEPT ![side] = @ + 1]
     \/ pc' \in {"probe", "walk", "nearest"} /\ complete' = complete

\* The rows that are inserted.
LEMMA ReachedRows ==
  ASSUME TypeOK, NEW v \in Vertex
  PROVE  /\ \A r \in Reached(v) : /\ r \in Seen /\ r.side = side /\ r.depth = complete[side] + 1
                                  /\ r.parent = v /\ r.vertex \in Vertex \ SeenBy(side)
                                  /\ {v, r.vertex} \in edges
         /\ \A r, q \in Reached(v) : r.vertex = q.vertex => r = q
         /\ \A w \in Vertex \ SeenBy(side) : {v, w} \in edges =>
              \E r \in Reached(v) : r.vertex = w
<1> DEFINE row(w) == [side |-> side, vertex |-> w, depth |-> complete[side] + 1, parent |-> v]
<1>1. complete[side] + 1 \in Nat /\ side \in Sides
  BY SideTyped
<1>2. Reached(v) = {row(w) : w \in {x \in Vertex \ SeenBy(side) : {v, x} \in edges}}
  BY DEF Reached, Neighbours
<1>3. \A w \in Vertex : row(w) \in Seen
  BY <1>1 DEF Seen
<1>4. \A w : /\ row(w).side = side /\ row(w).vertex = w
             /\ row(w).depth = complete[side] + 1 /\ row(w).parent = v
  OBVIOUS
<1>5. \A r \in Reached(v) : r.vertex \in Vertex \ SeenBy(side) /\ {v, r.vertex} \in edges /\ r = row(r.vertex)
  <2> SUFFICES ASSUME NEW r \in Reached(v)
               PROVE  r.vertex \in Vertex \ SeenBy(side) /\ {v, r.vertex} \in edges /\ r = row(r.vertex)
    OBVIOUS
  <2>1. PICK w \in Vertex \ SeenBy(side) : {v, w} \in edges /\ r = row(w)
    BY <1>2
  <2>2. r.vertex = w
    BY <2>1
  <2> QED
    BY <2>1, <2>2
<1>6. \A w \in Vertex \ SeenBy(side) : {v, w} \in edges => row(w) \in Reached(v)
  BY <1>2
<1> HIDE DEF row
<1>7. \A r \in Reached(v) : /\ r \in Seen /\ r.side = side /\ r.depth = complete[side] + 1
                            /\ r.parent = v
  BY <1>3, <1>4, <1>5
<1>8. \A r, q \in Reached(v) : r.vertex = q.vertex => r = q
  BY <1>5
<1>9. \A w \in Vertex \ SeenBy(side) : {v, w} \in edges => \E r \in Reached(v) : r.vertex = w
  BY <1>4, <1>6
<1> QED
  BY <1>5, <1>7, <1>8, <1>9

LEMMA GrowTyped ==
  ASSUME TypeOK, NEW v \in Vertex
  PROVE  /\ seen \cup Reached(v) \in SUBSET Seen
         /\ \A r, q \in seen \cup Reached(v) : r.side = q.side /\ r.vertex = q.vertex => r = q
<1>1. \A r \in Reached(v) : r \in Seen
  BY ReachedRows
<1>2. ASSUME NEW r \in seen, NEW q \in Reached(v), r.side = q.side
      PROVE  r.vertex # q.vertex
  <2>1. q.side = side /\ q.vertex \notin SeenBy(side)
    BY ReachedRows
  <2>2. r.vertex \in SeenBy(side)
    BY <1>2, <2>1 DEF SeenBy, Rows
  <2> QED
    BY <2>1, <2>2
<1>3. \A r, q \in Reached(v) : r.vertex = q.vertex => r = q
  BY ReachedRows
<1>4. seen \in SUBSET Seen /\ \A r, q \in seen : r.side = q.side /\ r.vertex = q.vertex => r = q
  BY DEF TypeOK
<1> QED
  BY <1>1, <1>2, <1>3, <1>4

LEMMA GrowFinite ==
  ASSUME TypeOK, IsFiniteSet(seen), NEW v \in Vertex
  PROVE  IsFiniteSet(seen \cup Reached(v))
<1> DEFINE f == [r \in Reached(v) |-> r.vertex]
<1>1. f \in Injection(Reached(v), Vertex)
  BY ReachedRows DEF Injection, IsInjective
<1> HIDE DEF f
<1>2. IsFiniteSet(Reached(v))
  BY <1>1, FS_Injection, GraphAssumption
<1> QED
  BY <1>2, FS_Union

\* The row of a vertex of the level.
LEMMA LevelRow ==
  ASSUME SearchInv, Running, Inside, NEW v \in todo
  PROVE  /\ v \in Vertex
         /\ \E r \in Rows(side) : r.vertex = v /\ r.depth = complete[side]
BY DEF SearchInv, Searching, Stage, Frontier, TypeOK

LEMMA GrownRows ==
  ASSUME SearchInv, Running, Inside, NEW v, Grows(v)
  PROVE  /\ side' = side
         /\ \A s : Rows(s) \subseteq Rows(s)'
         /\ Rows(side)' = Rows(side) \cup Reached(v)
         /\ \A s : s # side => Rows(s)' = Rows(s)
<1>1. v \in Vertex
  BY LevelRow DEF Grows
<1>2. \A r \in Reached(v) : r.side = side
  BY <1>1, ReachedRows DEF SearchInv
<1>3. side' = side /\ seen' = seen \cup Reached(v)
  BY DEF Grows
<1>4. \A s : Rows(s)' = {r \in seen' : r.side = s}
  BY DEF Rows
<1> QED
  BY <1>2, <1>3, <1>4 DEF Rows

LEMMA TreesGrow ==
  ASSUME SearchInv, Running, Inside, NEW v, Grows(v)
  PROVE  Trees'
<1> USE DEF SearchInv, Searching
<1>0. v \in Vertex /\ v \in todo /\ edges \subseteq ever
  BY LevelRow DEF Grows
<1>1. /\ call' = call /\ side' = side /\ ever' = ever /\ seen' = seen \cup Reached(v)
      /\ \A s : Root(s)' = Root(s)
  BY DEF Grows, Root, graph
<1>2. complete[side] \in Nat /\ \A s \in Sides : complete[s] \in Nat
  BY SideTyped
<1>3. \/ ~Inside' /\ complete'[side] = complete[side] + 1
      \/ Inside' /\ complete'[side] = complete[side]
  BY SideTyped DEF Grows, Inside, TypeOK
<1>4. \A s \in Sides : s # side => complete'[s] = complete[s]
  BY DEF Grows, TypeOK
<1>5. IsFiniteSet(seen')
  <2>1. IsFiniteSet(seen)
    BY DEF Trees
  <2>2. IsFiniteSet(seen \cup Reached(v))
    BY <1>0, <2>1, GrowFinite
  <2> QED
    BY <1>1, <2>2
<1>6. \A s \in Sides : s = 0 \/ call'.kind = "path" => Start(s, Root(s))' \in seen'
  BY <1>1 DEF Trees, Start
<1>7. ASSUME NEW r \in seen
      PROVE  /\ call'.kind = "path" \/ r.side = 0
             /\ r.depth <= complete'[r.side] + (IF Inside' /\ r.side = side' THEN 1 ELSE 0)
             /\ r.depth = 0 => r.vertex = Root(r.side)'
             /\ r.depth > 0 => \E q \in Rows(r.side)' : /\ q.vertex = r.parent /\ q.depth = r.depth - 1
                                                       /\ {r.parent, r.vertex} \in ever'
  <2>0. r.side \in Sides /\ r.depth \in Nat
    BY DEF TypeOK, Seen
  <2>1. r.depth <= complete[r.side] + (IF r.side = side THEN 1 ELSE 0)
    BY DEF Trees
  <2>2. r.depth <= complete'[r.side] + (IF Inside' /\ r.side = side' THEN 1 ELSE 0)
    <3>1. CASE r.side = side
      BY <3>1, <1>1, <1>2, <1>3, <2>0, <2>1
    <3>2. CASE r.side # side
      BY <3>2, <1>1, <1>2, <1>4, <2>0, <2>1
    <3> QED
      BY <3>1, <3>2
  <2>3. Rows(r.side) \subseteq Rows(r.side)'
    BY GrownRows
  <2> QED
    BY <1>1, <2>2, <2>3 DEF Trees
<1>8. ASSUME NEW r \in Reached(v)
      PROVE  /\ call'.kind = "path" \/ r.side = 0
             /\ r.depth <= complete'[r.side] + (IF Inside' /\ r.side = side' THEN 1 ELSE 0)
             /\ r.depth # 0
             /\ \E q \in Rows(r.side)' : /\ q.vertex = r.parent /\ q.depth = r.depth - 1
                                         /\ {r.parent, r.vertex} \in ever'
  <2>1. /\ r.side = side /\ r.depth = complete[side] + 1 /\ r.parent = v /\ {v, r.vertex} \in ever
    BY <1>0, ReachedRows
  <2>2. call.kind = "path" \/ side = 0
    BY DEF Stage, ExploreStage
  <2>3. PICK q \in Rows(side) : q.vertex = v /\ q.depth = complete[side]
    BY <1>0, LevelRow
  <2>4. q \in Rows(side)'
    BY GrownRows
  <2>5. q.depth = r.depth - 1 /\ r.depth # 0
    BY <2>1, <2>3, <1>2
  <2> QED
    BY <2>1, <2>2, <2>3, <2>4, <2>5, <1>1, <1>2, <1>3
<1>9. \A r \in seen' :
       /\ call'.kind = "path" \/ r.side = 0
       /\ r.depth <= complete'[r.side] + (IF Inside' /\ r.side = side' THEN 1 ELSE 0)
       /\ r.depth = 0 => r.vertex = Root(r.side)'
       /\ r.depth > 0 => \E q \in Rows(r.side)' : /\ q.vertex = r.parent /\ q.depth = r.depth - 1
                                                 /\ {r.parent, r.vertex} \in ever'
  <2> SUFFICES ASSUME NEW r \in seen'
               PROVE  /\ call'.kind = "path" \/ r.side = 0
                      /\ r.depth <= complete'[r.side] + (IF Inside' /\ r.side = side' THEN 1 ELSE 0)
                      /\ r.depth = 0 => r.vertex = Root(r.side)'
                      /\ r.depth > 0 =>
                           \E q \in Rows(r.side)' : /\ q.vertex = r.parent /\ q.depth = r.depth - 1
                                                    /\ {r.parent, r.vertex} \in ever'
    OBVIOUS
  <2>1. CASE r \in seen
    BY <2>1, <1>7
  <2>2. CASE r \in Reached(v)
    BY <2>2, <1>8
  <2> QED
    BY <2>1, <2>2, <1>1
<1> QED
  BY <1>5, <1>6, <1>9 DEF Trees

\* The rows that are done: v has joined them.
LEMMA DoneGrows ==
  ASSUME SearchInv, Running, Inside, NEW v, Grows(v), NEW s \in Sides
  PROVE  Done(s)' = Done(s) \cup {r \in Rows(side) : r.side = s /\ r.vertex = v}
<1> USE DEF SearchInv, Searching
<1>0. v \in Vertex /\ v \in todo /\ TypeOK /\ todo' = todo \ {v} /\ side' = side
  BY LevelRow DEF Grows
<1>1. complete[side] \in Nat /\ complete[s] \in Nat
  BY SideTyped
<1>2. PICK q \in Rows(side) : q.vertex = v /\ q.depth = complete[side]
  BY <1>0, LevelRow
<1>3. \A r \in Rows(side) : r.vertex = v => r = q
  BY <1>0, <1>2, RowTyped
<1>4. CASE s # side
  <2>1. Rows(s)' = Rows(s) /\ complete'[s] = complete[s]
    BY <1>4, GrownRows DEF Grows, TypeOK
  <2>2. \A r : r \in Done(s)' <=> r \in Rows(s) /\ r.depth < complete[s]
    BY <1>0, <1>4, <2>1 DEF Done
  <2>3. \A r : r \in Done(s) <=> r \in Rows(s) /\ r.depth < complete[s]
    BY <1>4 DEF Done
  <2>4. {r \in Rows(side) : r.side = s /\ r.vertex = v} = {}
    BY <1>4 DEF Rows
  <2> QED
    BY <2>2, <2>3, <2>4
<1>5. CASE s = side
  <2>1. Rows(s)' = Rows(side) \cup Reached(v)
    BY <1>5, GrownRows
  <2>2. \A r \in Reached(v) : r.depth = complete[side] + 1 /\ r \notin Rows(side)
    <3>1. \A r \in Reached(v) : r.depth = complete[side] + 1 /\ r.vertex \notin SeenBy(side)
      BY <1>0, ReachedRows
    <3> QED
      BY <3>1 DEF SeenBy
  <2>3. \A r \in Rows(side) : r.depth \in Nat /\ r.side = side /\ r.depth <= complete[side] + 1
    BY RowTyped DEF Trees
  <2>4. \A r \in Rows(side) : r.vertex \in todo => r.depth = complete[side]
    <3> SUFFICES ASSUME NEW r \in Rows(side), r.vertex \in todo PROVE r.depth = complete[side]
      OBVIOUS
    <3>1. PICK x \in Rows(side) : x.vertex = r.vertex /\ x.depth = complete[side]
      BY LevelRow
    <3>2. x = r
      BY <3>1, <1>0, RowTyped
    <3> QED
      BY <3>1, <3>2
  <2>5. \A r : r \in Done(side) <=> /\ r \in Rows(side)
                                    /\ \/ r.depth < complete[side]
                                       \/ r.depth = complete[side] /\ r.vertex \notin todo
    BY DEF Done
  <2>6. \A r : r \in Done(s)' <=> /\ r \in Rows(side)
                                  /\ \/ r.depth < complete[side]
                                     \/ r.depth = complete[side] /\ r.vertex \notin todo \ {v}
    <3>1. CASE pc' = "level" /\ todo' = {} /\ complete' = [complete EXCEPT ![side] = @ + 1]
      <4>1. ~Inside' /\ complete'[s] = complete[side] + 1 /\ todo \ {v} = {}
        BY <3>1, <1>0, <1>5 DEF Inside, TypeOK
      <4>2. \A r : r \in Done(s)' <=> r \in Rows(s)' /\ r.depth < complete[side] + 1
        BY <4>1 DEF Done
      <4> QED
        BY <4>1, <4>2, <2>1, <2>2, <2>3, <1>1
    <3>2. CASE pc' \in {"probe", "walk", "nearest"} /\ complete' = complete
      <4>1. Inside'
        BY <3>2 DEF Inside
      <4>2. \A r : r \in Done(s)' <=> /\ r \in Rows(s)'
                                      /\ \/ r.depth < complete[side]
                                         \/ r.depth = complete[side] /\ r.vertex \notin todo \ {v}
        BY <3>2, <4>1, <1>0, <1>5 DEF Done
      <4> QED
        BY <4>2, <2>1, <2>2, <2>3, <1>1
    <3> QED
      BY <3>1, <3>2 DEF Grows
  <2>7. \A r : r \in Done(s)' <=> r \in Done(side) \/ (r \in Rows(side) /\ r.vertex = v)
    BY <2>4, <2>5, <2>6, <1>0, <1>2, <1>3
  <2>8. {r \in Rows(side) : r.side = s /\ r.vertex = v} = {r \in Rows(side) : r.vertex = v}
    BY <2>3, <1>5
  <2> QED
    BY <2>7, <2>8, <1>5
<1> QED
  BY <1>4, <1>5

LEMMA ClosedGrows ==
  ASSUME SearchInv, Running, Inside, NEW v, Grows(v)
  PROVE  Closed'
<1> USE DEF SearchInv, Searching
<1>0. v \in Vertex /\ TypeOK /\ always \subseteq edges
  BY LevelRow DEF Grows
<1>1. always' = always
  BY DEF Grows, graph
<1>2. ASSUME NEW s \in Sides, NEW r \in Done(s)', NEW w \in Vertex, {r.vertex, w} \in always
      PROVE  \E q \in Rows(s)' : q.vertex = w /\ q.depth <= r.depth + 1
  <2>1. CASE r \in Done(s)
    <3>1. \E q \in Rows(s) : q.vertex = w /\ q.depth <= r.depth + 1
      BY <2>1, <1>2 DEF Closed
    <3> QED
      BY <3>1, GrownRows
  <2>2. CASE r \in Rows(side) /\ r.side = s /\ r.vertex = v
    <3>1. r.depth = complete[side] /\ s = side
      <4>1. PICK q \in Rows(side) : q.vertex = v /\ q.depth = complete[side]
        BY LevelRow DEF Grows
      <4>2. q = r
        BY <2>2, <4>1, <1>0, RowTyped
      <4> QED
        BY <2>2, <4>1, <4>2 DEF Rows
    <3>2. {v, w} \in edges
      BY <2>2, <1>0, <1>2
    <3>3. CASE w \in SeenBy(side)
      <4>1. PICK q \in Rows(side) : q.vertex = w
        BY <3>3 DEF SeenBy
      <4>2. q.depth <= complete[side] + 1
        <5>1. q \in seen /\ q.side = side /\ q.depth \in Nat /\ complete[side] \in Nat
          BY <4>1, <1>0, RowTyped, SideTyped
        <5> QED
          BY <5>1 DEF Trees
      <4> QED
        BY <4>1, <4>2, <3>1, GrownRows
    <3>4. CASE w \notin SeenBy(side)
      <4>1. PICK q \in Reached(v) : q.vertex = w
        BY <3>2, <3>4, <1>0, ReachedRows
      <4>2. q.depth = complete[side] + 1 /\ complete[side] \in Nat
        BY <1>0, ReachedRows, SideTyped
      <4> QED
        BY <4>1, <4>2, <3>1, GrownRows
    <3> QED
      BY <3>3, <3>4
  <2> QED
    BY <2>1, <2>2, DoneGrows
<1> QED
  BY <1>1, <1>2 DEF Closed

\* What the other side is near to, it has seen.
LEMMA NearSeen ==
  ASSUME SearchInv, Running, NEW s \in Sides, s = 0 \/ call.kind = "path"
  PROVE  Near(s) \subseteq SeenBy(s)
<1> USE DEF SearchInv, Searching
<1>1. Root(s) \in SeenBy(s)
  <2>1. Start(s, Root(s)) \in seen
    BY DEF Trees
  <2> QED
    BY <2>1 DEF SeenBy, Rows, Start
<1>2. ASSUME NEW w \in Vertex, NEW r \in Done(s), {r.vertex, w} \in always PROVE w \in SeenBy(s)
  BY <1>2 DEF Closed, SeenBy
<1> QED
  BY <1>1, <1>2 DEF Near

LEMMA ApartGrows ==
  ASSUME SearchInv, Running, Inside, NEW v, Grows(v), (pc = "expand" /\ at = v) \/ call.kind # "path"
  PROVE  Apart'
<1> USE DEF SearchInv, Searching
<1> SUFFICES ASSUME call.kind = "path" PROVE Near(0)' \cap Near(1)' = {}
  BY DEF Apart, Grows
<1>0. v \in Vertex /\ TypeOK /\ side \in Sides /\ 1 - side \in Sides
  BY LevelRow, SideTyped DEF Grows
<1>1. always' = always /\ \A s : Root(s)' = Root(s)
  BY DEF Grows, Root, graph
<1>2. \A w \in SeenBy(1 - side) : {v, w} \notin always
  BY DEF Stage, PathStage
<1>3. Near(0) \cap Near(1) = {}
  BY DEF Apart
<1>4. \A s \in Sides : Near(s)' \subseteq Near(s) \cup (IF s = side THEN {w \in Vertex : {v, w} \in always} ELSE {})
  <2> SUFFICES ASSUME NEW s \in Sides, NEW w \in Near(s)', w \notin Near(s)
               PROVE  s = side /\ w \in Vertex /\ {v, w} \in always
    OBVIOUS
  <2>1. w \in Vertex /\ \E r \in Done(s)' : {r.vertex, w} \in always
    BY <1>1 DEF Near
  <2>2. PICK r \in Done(s)' : {r.vertex, w} \in always
    BY <2>1
  <2>3. r \notin Done(s)
    BY <2>1, <2>2 DEF Near
  <2>4. r \in Rows(side) /\ r.side = s /\ r.vertex = v
    BY <2>3, DoneGrows
  <2> QED
    BY <2>1, <2>2, <2>4 DEF Rows
<1>5. Near(1 - side) \subseteq SeenBy(1 - side)
  BY <1>0, NearSeen
<1>6. (side = 0 /\ 1 - side = 1) \/ (side = 1 /\ 1 - side = 0)
  BY <1>0 DEF Sides
<1>7. ASSUME NEW s \in Sides, NEW o \in Sides, s = side, o # side, NEW w \in Near(s)', w \in Near(o)'
      PROVE  FALSE
  <2>1. o = 1 - side
    BY <1>7, <1>6 DEF Sides
  <2>2. w \in Near(o) /\ w \notin Near(s) /\ w \in SeenBy(o)
    BY <1>3, <1>4, <1>5, <1>6, <1>7, <2>1
  <2>3. {v, w} \in always
    BY <1>4, <1>7, <2>2
  <2> QED
    BY <1>2, <2>1, <2>2, <2>3
<1> QED
  BY <1>6, <1>7 DEF Sides

\* After an expansion the invariant holds again, when the type and the stage do.
LEMMA GrowStep ==
  ASSUME SearchInv, Running, Inside, NEW v, Grows(v), (pc = "expand" /\ at = v) \/ call.kind # "path",
         TypeOK', Stage'
  PROVE  SearchInv'
<1>1. Trees' /\ Closed' /\ Apart'
  BY TreesGrow, ClosedGrows, ApartGrows
<1>2. always' \subseteq edges' /\ edges' \subseteq ever'
  BY DEF Grows, graph, SearchInv, Searching
<1> QED
  BY <1>1, <1>2 DEF SearchInv, Searching

\* What an expansion leaves of the level.
LEMMA GrowLevel ==
  ASSUME SearchInv, Running, Inside, NEW v, Grows(v)
  PROVE  /\ edges' = edges /\ changes' = changes /\ ever' = ever /\ always' = always
         /\ side' = side /\ call' = call
         /\ seen' \in SUBSET Seen
         /\ \A r, q \in seen' : r.side = q.side /\ r.vertex = q.vertex => r = q
         /\ todo' \subseteq todo
         /\ complete' = complete => todo' \subseteq Frontier(side)'
<1> USE DEF SearchInv, Searching
<1>0. v \in Vertex /\ TypeOK
  BY LevelRow DEF Grows
<1>1. seen' = seen \cup Reached(v)
  BY DEF Grows
<1>2. /\ seen' \in SUBSET Seen
      /\ \A r, q \in seen' : r.side = q.side /\ r.vertex = q.vertex => r = q
  BY <1>0, <1>1, GrowTyped
<1>3. ASSUME complete' = complete PROVE Frontier(side) \subseteq Frontier(side)'
  BY <1>3, GrownRows DEF Frontier
<1>4. todo' \subseteq todo /\ todo \subseteq Frontier(side)
  BY DEF Grows, Stage
<1> QED
  BY <1>2, <1>3, <1>4 DEF Grows, graph

LEMMA ExpandStep == SearchInv /\ Expand => SearchInv'
<1> SUFFICES ASSUME SearchInv, Expand PROVE SearchInv'
  OBVIOUS
<1> USE DEF SearchInv, Searching
<1>1. Running /\ Inside /\ pc = "expand" /\ Searching /\ TypeOK
  BY DEF Running, Inside, Expand
<1>2. call.kind = "path" /\ PathStage
  BY <1>1 DEF Stage, ExploreStage
<1>3. at \in todo /\ complete[0] + complete[1] < call.cap /\ call.cap <= 10 /\ call.cap \in Nat
  BY <1>1, <1>2, CallTyped DEF PathStage, PATH_MAX_DEPTH
<1>4. Grows(at)
  BY <1>3 DEF Expand, Grows, graph, FinishLevel
<1>5. /\ edges' = edges /\ changes' = changes /\ ever' = ever /\ always' = always
      /\ side' = side /\ call' = call
      /\ seen' \in SUBSET Seen
      /\ \A r, q \in seen' : r.side = q.side /\ r.vertex = q.vertex => r = q
      /\ todo' \subseteq todo
      /\ complete' = complete => todo' \subseteq Frontier(side)'
  BY <1>1, <1>4, GrowLevel
<1>6. /\ complete[0] \in Nat /\ complete[1] \in Nat /\ side \in {0, 1}
      /\ complete[0] <= 10 /\ complete[1] <= 10
      /\ DOMAIN complete = {0, 1}
  BY <1>1 DEF TypeOK, Sides, PATH_MAX_DEPTH
<1>7. \/ pc' = "level" /\ todo' = {} /\ complete' = [complete EXCEPT ![side] = @ + 1]
      \/ pc' = "probe" /\ todo' # {} /\ complete' = complete
  BY DEF Expand, FinishLevel
<1>8. /\ complete' \in [Sides -> 0..PATH_MAX_DEPTH]
      /\ IF pc' = "level" THEN complete'[0] + complete'[1] <= call.cap
                          ELSE complete'[0] + complete'[1] < call.cap
  <2>1. CASE pc' = "level"
    <3>1. complete' = [complete EXCEPT ![side] = @ + 1]
      BY <1>7, <2>1
    <3>2. PICK c \in [Sides -> Nat] : c = complete'
      <4>1. complete \in [Sides -> Nat] /\ complete[side] + 1 \in Nat
        BY <1>1, <1>6 DEF TypeOK, PATH_MAX_DEPTH
      <4>2. complete' \in [Sides -> Nat]
        BY <3>1, <4>1
      <4> QED
        BY <4>2
    <3>3. c[0] + c[1] = complete[0] + complete[1] + 1
      <4>1. CASE side = 0
        BY <4>1, <3>1, <3>2, <1>6
      <4>2. CASE side = 1
        BY <4>2, <3>1, <3>2, <1>6
      <4> QED
        BY <4>1, <4>2, <1>6
    <3>4. c[0] \in 0..10 /\ c[1] \in 0..10
      BY <3>2, <3>3, <1>3, <1>6 DEF Sides
    <3>5. c[0] + c[1] <= call.cap
      BY <3>3, <1>3, <1>6
    <3> QED
      BY <2>1, <3>2, <3>4, <3>5 DEF Sides, PATH_MAX_DEPTH
  <2>2. CASE pc' # "level"
    BY <1>1, <1>3, <1>7, <2>2 DEF TypeOK
  <2> QED
    BY <2>1, <2>2
<1>9. TypeOK'
  <2>1. at' \in Vertex \cup {Null} /\ todo' \in SUBSET Vertex
    BY <1>1, <1>5 DEF TypeOK, Expand
  <2> QED
    BY <1>1, <1>5, <1>7, <1>8, <2>1 DEF TypeOK
<1>10. Stage'
  <2>1. PathStage'
    BY <1>2, <1>5, <1>7, <1>8 DEF PathStage
  <2> QED
    BY <2>1, <1>2, <1>5, <1>7 DEF Stage, Inside
<1> QED
  BY <1>1, <1>4, <1>9, <1>10, GrowStep

LEMMA WalkStep ==
  ASSUME SearchInv, NEW v \in todo, Walk(v)
  PROVE  SearchInv'
<1> USE DEF SearchInv, Searching
<1>1. Running /\ Inside /\ pc = "walk" /\ Searching /\ TypeOK
  BY DEF Running, Inside, Walk
<1>2. call.kind # "path" /\ ExploreStage
  BY <1>1 DEF Stage, PathStage
<1>3. side = 0 /\ complete[0] < call.cap /\ call.cap <= 10 /\ call.cap \in Nat /\ complete[0] \in Nat
  BY <1>1, <1>2, CallTyped, SideTyped DEF ExploreStage, PATH_MAX_DEPTH
<1>4. \/ pc' = "level" /\ todo' = {} /\ complete' = [complete EXCEPT ![side] = @ + 1]
      \/ pc' = "walk" /\ todo' # {} /\ complete' = complete
      \/ pc' = "nearest" /\ complete' = complete /\ Enough
  BY <1>1 DEF Walk, FinishLevel
<1>5. Grows(v)
  BY <1>4 DEF Walk, Grows, graph
<1>6. /\ edges' = edges /\ changes' = changes /\ ever' = ever /\ always' = always
      /\ side' = side /\ call' = call
      /\ seen' \in SUBSET Seen
      /\ \A r, q \in seen' : r.side = q.side /\ r.vertex = q.vertex => r = q
      /\ todo' \subseteq todo
      /\ complete' = complete => todo' \subseteq Frontier(side)'
  BY <1>1, <1>5, GrowLevel
<1>7. /\ complete' \in [Sides -> 0..PATH_MAX_DEPTH]
      /\ IF pc' = "level" THEN complete'[0] <= call.cap ELSE complete'[0] < call.cap
  <2>1. CASE pc' = "level"
    <3>1. complete' = [complete EXCEPT ![0] = @ + 1]
      BY <1>3, <1>4, <2>1
    <3>2. complete[0] + 1 \in 0..10 /\ complete[0] + 1 <= call.cap
      BY <1>3
    <3> QED
      BY <2>1, <3>1, <3>2, <1>1 DEF TypeOK, Sides, PATH_MAX_DEPTH
  <2>2. CASE pc' # "level"
    BY <1>1, <1>3, <1>4, <2>2 DEF TypeOK
  <2> QED
    BY <2>1, <2>2
<1>8. TypeOK'
  <2>1. at' \in Vertex \cup {Null} /\ todo' \in SUBSET Vertex
    BY <1>1, <1>6 DEF TypeOK, Walk
  <2> QED
    BY <1>1, <1>4, <1>6, <1>7, <2>1 DEF TypeOK
<1>9. Stage'
  <2>1. ExploreStage'
    BY <1>2, <1>4, <1>6, <1>7 DEF ExploreStage, Enough
  <2> QED
    BY <2>1, <1>2, <1>4, <1>6 DEF Stage, Inside
<1> QED
  BY <1>1, <1>2, <1>5, <1>8, <1>9, GrowStep

-----------------------------------------------------------------------------
(* The other steps insert nothing.                                         *)

\* The rows stay, none is done that was not, and no edge joins those that were always there.
LEMMA StillStep ==
  ASSUME SearchInv, Running, seen' = seen, call' = call,
         always' \subseteq always, ever \subseteq ever', always' \subseteq edges', edges' \subseteq ever',
         \A s \in Sides : Done(s)' \subseteq Done(s),
         \A s \in Sides : complete[s] <= complete'[s] /\ complete'[s] \in Nat,
         Inside => Inside' /\ side' = side,
         TypeOK', Running' => Stage'
  PROVE  SearchInv'
<1> USE DEF SearchInv, Searching
<1>0. /\ TypeOK /\ Trees /\ Closed /\ Apart
      /\ \A s \in Sides : complete[s] \in Nat
  BY SideTyped
<1>1. \A s : Root(s)' = Root(s) /\ Rows(s)' = Rows(s)
  BY DEF Root, Rows
<1>2. Trees'
  <2>1. IsFiniteSet(seen') /\ \A s \in Sides : s = 0 \/ call'.kind = "path" => Start(s, Root(s))' \in seen'
    BY <1>0, <1>1 DEF Trees, Start
  <2>2. ASSUME NEW r \in seen
        PROVE  /\ call'.kind = "path" \/ r.side = 0
               /\ r.depth <= complete'[r.side] + (IF Inside' /\ r.side = side' THEN 1 ELSE 0)
               /\ r.depth = 0 => r.vertex = Root(r.side)'
               /\ r.depth > 0 => \E q \in Rows(r.side)' : /\ q.vertex = r.parent /\ q.depth = r.depth - 1
                                                         /\ {r.parent, r.vertex} \in ever'
    <3>1. r.side \in Sides /\ r.depth \in Nat
      BY <1>0 DEF TypeOK, Seen
    <3>2. r.depth <= complete[r.side] + (IF Inside /\ r.side = side THEN 1 ELSE 0)
      BY <1>0 DEF Trees
    <3>3. r.depth <= complete'[r.side] + (IF Inside' /\ r.side = side' THEN 1 ELSE 0)
      BY <3>1, <3>2, <1>0
    <3> QED
      BY <3>3, <1>0, <1>1 DEF Trees
  <2> QED
    BY <2>1, <2>2 DEF Trees
<1>3. Closed'
  BY <1>0, <1>1 DEF Closed
<1>4. Apart'
  <2> SUFFICES ASSUME call.kind = "path" PROVE Near(0)' \cap Near(1)' = {}
    BY DEF Apart
  <2>1. \A s \in Sides : Near(s)' \subseteq Near(s)
    BY <1>1 DEF Near
  <2>2. Near(0) \cap Near(1) = {}
    BY <1>0 DEF Apart
  <2> QED
    BY <2>1, <2>2 DEF Sides
<1> QED
  BY <1>2, <1>3, <1>4

\* At the start of a level, all that is known of the rows of a side is done, but for the frontier.
LEMMA StartLevelStep == SearchInv /\ StartLevel => SearchInv'
<1> SUFFICES ASSUME SearchInv, StartLevel PROVE SearchInv'
  OBVIOUS
<1> USE DEF SearchInv, Searching
<1>1. /\ Running /\ ~Inside /\ pc = "level" /\ call.kind = "path"
      /\ seen' = seen /\ call' = call /\ complete' = complete /\ at' = at
      /\ edges' = edges /\ changes' = changes /\ ever' = ever /\ always' = always
  BY DEF StartLevel, Running, Inside, graph
<1>2. TypeOK /\ Searching /\ PathStage
  BY <1>1 DEF Stage
<1>3. CASE pc' = "answered" /\ UNCHANGED <<side, todo>>
  <2>1. TypeOK'
    BY <1>1, <1>2, <1>3 DEF TypeOK
  <2> QED
    BY <2>1, <1>3 DEF Running
<1>4. CASE /\ complete[0] + complete[1] < call.cap /\ \A s \in Sides : Frontier(s) # {}
           /\ side' \in Sides /\ todo' = Frontier(side') /\ pc' = "probe"
  <2>1. PICK p \in Sides : p = side'
    BY <1>4
  <2>2. todo' = Frontier(p) /\ Frontier(p) \subseteq Vertex /\ Frontier(p) # {}
    BY <2>1, <1>2, <1>4 DEF Frontier, Rows, TypeOK, Seen
  <2>3. TypeOK'
    BY <1>1, <1>2, <1>4, <2>2 DEF TypeOK
  <2>4. Inside' /\ Frontier(p)' = Frontier(p)
    BY <1>1, <1>4 DEF Inside, Frontier, Rows
  <2>5. Stage'
    <3>1. PathStage'
      BY <1>1, <1>2, <1>4 DEF PathStage
    <3>2. Frontier(side)' = Frontier(p)'
      BY <2>1 DEF Frontier, Rows
    <3> QED
      BY <3>1, <3>2, <2>2, <2>4, <1>1 DEF Stage
  <2>6. \A s \in Sides : Done(s)' \subseteq Done(s)
    <3> SUFFICES ASSUME NEW s \in Sides, NEW r \in Done(s)' PROVE r \in Done(s)
      OBVIOUS
    <3>1. /\ r \in Rows(s)
          /\ r.depth < complete[s] \/ (s = p /\ r.depth = complete[s] /\ r.vertex \notin Frontier(p))
      BY <1>1, <2>1, <2>2 DEF Done, Rows
    <3>2. ~(s = p /\ r.depth = complete[s] /\ r.vertex \notin Frontier(p))
      BY <3>1 DEF Frontier
    <3> QED
      BY <3>1, <3>2 DEF Done
  <2>7. \A s \in Sides : complete[s] <= complete'[s] /\ complete'[s] \in Nat
    BY <1>1, <1>2, SideTyped
  <2> QED
    BY <1>1, <2>3, <2>5, <2>6, <2>7, StillStep
<1> QED
  <2>1. complete[0] + complete[1] >= call.cap <=> ~(complete[0] + complete[1] < call.cap)
    <3>1. complete[0] \in Nat /\ complete[1] \in Nat /\ call.cap \in Nat
      BY <1>2, SideTyped, CallTyped DEF Sides
    <3> QED
      BY <3>1
  <2> QED
    BY <1>3, <1>4, <2>1 DEF StartLevel, Return

LEMMA ProbeStep ==
  ASSUME SearchInv, NEW v \in todo, Probe(v)
  PROVE  SearchInv'
<1> USE DEF SearchInv, Searching
<1>1. /\ Running /\ Inside /\ pc = "probe"
      /\ seen' = seen /\ call' = call /\ complete' = complete /\ side' = side /\ todo' = todo
      /\ edges' = edges /\ changes' = changes /\ ever' = ever /\ always' = always
  BY DEF Probe, Running, Inside, graph
<1>2. TypeOK /\ Searching /\ PathStage /\ call.kind = "path"
  BY <1>1 DEF Stage, ExploreStage
<1>3. CASE Neighbours(v) \cap Opposite = {} /\ at' = v /\ pc' = "expand"
  <2>1. TypeOK'
    BY <1>1, <1>2, <1>3 DEF TypeOK
  <2>2. \A w \in SeenBy(1 - side) : {v, w} \notin always
    <3>1. SeenBy(1 - side) \subseteq Vertex
      BY <1>2 DEF SeenBy, Rows, TypeOK, Seen
    <3> QED
      BY <3>1, <1>2, <1>3 DEF Neighbours, Opposite
  <2>3. Inside' /\ Frontier(side)' = Frontier(side) /\ SeenBy(1 - side)' = SeenBy(1 - side)
    BY <1>1, <1>3 DEF Inside, Frontier, SeenBy, Rows
  <2>4. Stage'
    <3>1. PathStage'
      BY <1>1, <1>2, <1>3, <2>2, <2>3 DEF PathStage
    <3> QED
      BY <3>1, <2>3, <1>1, <1>2 DEF Stage
  <2>5. \A s \in Sides : Done(s)' \subseteq Done(s)
    BY <1>1 DEF Done, Rows
  <2>6. \A s \in Sides : complete[s] <= complete'[s] /\ complete'[s] \in Nat
    BY <1>1, <1>2, SideTyped
  <2> QED
    BY <1>1, <1>2, <2>1, <2>3, <2>4, <2>5, <2>6, StillStep
<1>4. CASE pc' = "answered" /\ at' = at
  <2>1. TypeOK'
    BY <1>1, <1>2, <1>4 DEF TypeOK
  <2> QED
    BY <2>1, <1>4 DEF Running
<1> QED
  BY <1>3, <1>4 DEF Probe, Touch, Return

LEMMA StartDepthStep == SearchInv /\ StartDepth => SearchInv'
<1> SUFFICES ASSUME SearchInv, StartDepth PROVE SearchInv'
  OBVIOUS
<1> USE DEF SearchInv, Searching
<1>1. /\ Running /\ ~Inside /\ pc = "level" /\ call.kind # "path"
      /\ seen' = seen /\ call' = call /\ at' = at
      /\ edges' = edges /\ changes' = changes /\ ever' = ever /\ always' = always
  BY DEF StartDepth, Running, Inside, graph
<1>2. TypeOK /\ Searching /\ ExploreStage /\ side = 0
  BY <1>1 DEF Stage, ExploreStage
<1>3. Frontier(0) \subseteq Vertex
  BY <1>2 DEF Frontier, Rows, TypeOK, Seen
<1>4. \A s \in Sides : complete[s] \in Nat
  BY <1>2, SideTyped
<1>5. complete[0] \in 0..10 /\ complete[0] <= call.cap /\ call.cap \in Nat /\ call.cap <= 10
  BY <1>1, <1>2, CallTyped DEF ExploreStage, TypeOK, Sides, PATH_MAX_DEPTH
<1>6. CASE complete[0] = call.cap
  <2>1. pc' = "answered" /\ UNCHANGED <<complete, side, todo>>
    BY <1>6 DEF StartDepth, ReturnNearest, Return
  <2>2. TypeOK'
    BY <1>1, <1>2, <2>1 DEF TypeOK
  <2> QED
    BY <2>1, <2>2 DEF Running
<1>7. CASE complete[0] # call.cap /\ Frontier(0) # {}
  <2>1. side' = 0 /\ todo' = Frontier(0) /\ pc' = "walk" /\ complete' = complete
    BY <1>7 DEF StartDepth
  <2>2. TypeOK'
    BY <1>1, <1>2, <1>3, <2>1 DEF TypeOK, Sides
  <2>3. Inside' /\ Frontier(0)' = Frontier(0)
    BY <1>1, <2>1 DEF Inside, Frontier, Rows
  <2>4. Stage'
    <3>1. ExploreStage'
      BY <1>1, <1>2, <1>5, <1>7, <2>1 DEF ExploreStage
    <3>2. Frontier(side)' = Frontier(0)'
      BY <2>1 DEF Frontier, Rows
    <3> QED
      BY <3>1, <3>2, <2>1, <2>3, <1>1, <1>7 DEF Stage
  <2>5. \A s \in Sides : Done(s)' \subseteq Done(s)
    <3> SUFFICES ASSUME NEW s \in Sides, NEW r \in Done(s)' PROVE r \in Done(s)
      OBVIOUS
    <3>1. /\ r \in Rows(s)
          /\ r.depth < complete[s] \/ (s = 0 /\ r.depth = complete[s] /\ r.vertex \notin Frontier(0))
      BY <1>1, <2>1 DEF Done, Rows
    <3>2. ~(s = 0 /\ r.depth = complete[s] /\ r.vertex \notin Frontier(0))
      BY <3>1 DEF Frontier
    <3> QED
      BY <3>1, <3>2 DEF Done
  <2> QED
    BY <1>1, <1>4, <2>1, <2>2, <2>4, <2>5, StillStep
<1>8. CASE complete[0] # call.cap /\ Frontier(0) = {}
  <2>1. side' = 0 /\ todo' = {} /\ pc' = "level" /\ complete' = [complete EXCEPT ![0] = @ + 1]
    BY <1>1, <1>8 DEF StartDepth
  <2>2. complete[0] + 1 \in 0..10 /\ complete[0] + 1 <= call.cap
    BY <1>5, <1>8
  <2>3. /\ complete'[0] = complete[0] + 1 /\ \A s \in Sides : s # 0 => complete'[s] = complete[s]
        /\ complete' \in [Sides -> 0..PATH_MAX_DEPTH]
    BY <2>1, <2>2, <1>2 DEF TypeOK, Sides, PATH_MAX_DEPTH
  <2>4. TypeOK'
    BY <1>1, <1>2, <2>1, <2>3 DEF TypeOK, Sides
  <2>5. ~Inside' /\ Stage'
    <3>1. ExploreStage'
      BY <1>1, <1>2, <2>1, <2>2, <2>3 DEF ExploreStage
    <3> QED
      BY <3>1, <2>1, <1>1 DEF Stage, Inside
  <2>6. \A s \in Sides : Done(s)' \subseteq Done(s)
    <3> SUFFICES ASSUME NEW s \in Sides, NEW r \in Done(s)' PROVE r \in Done(s)
      OBVIOUS
    <3>1. r \in Rows(s) /\ r.depth < complete'[s]
      BY <1>1, <2>5 DEF Done, Rows
    <3>2. r.depth \in Nat
      BY <3>1, <1>2, RowTyped
    <3>3. s = 0 => r.depth # complete[0]
      BY <3>1, <1>8 DEF Frontier
    <3>4. r.depth < complete[s]
      BY <3>1, <3>2, <3>3, <2>3, <1>4
    <3> QED
      BY <3>1, <3>4 DEF Done
  <2>7. \A s \in Sides : complete[s] <= complete'[s] /\ complete'[s] \in Nat
    BY <2>3, <1>4
  <2> QED
    BY <1>1, <2>4, <2>5, <2>6, <2>7, StillStep
<1> QED
  BY <1>6, <1>7, <1>8

LEMMA AnswerEarlyStep == SearchInv /\ AnswerEarly => SearchInv'
BY DEF SearchInv, TypeOK, AnswerEarly, ReturnNearest, Return, Running, graph

LEMMA LoadStep ==
  ASSUME SearchInv, NEW e \in Edge, Load(e)
  PROVE  SearchInv'
<1> USE DEF SearchInv, Searching
<1>1. /\ seen' = seen /\ call' = call /\ pc' = pc /\ complete' = complete
      /\ side' = side /\ todo' = todo /\ at' = at
  BY DEF Load
<1>2. edges' \subseteq Edge /\ changes' \in 0..MaxChanges
  BY ArgumentAssumption DEF Load, TypeOK
<1>3. CASE ~Running
  <2>1. TypeOK' /\ ~Running'
    BY <1>1, <1>2, <1>3 DEF Load, TypeOK, Running
  <2> QED
    BY <2>1
<1>4. CASE Running
  <2>1. ever' = ever \cup edges' /\ always' = always \cap edges' /\ Running'
    BY <1>1, <1>4 DEF Load, Running
  <2>2. TypeOK /\ Searching /\ always' \subseteq always
    BY <1>4, <2>1
  <2>3. TypeOK'
    BY <1>1, <1>2, <2>1, <2>2 DEF TypeOK
  <2>4. /\ \A s : Rows(s)' = Rows(s) /\ Frontier(s)' = Frontier(s) /\ SeenBy(s)' = SeenBy(s)
        /\ Discovered' = Discovered /\ (Inside' <=> Inside)
    BY <1>1 DEF Rows, Frontier, SeenBy, Discovered, Inside
  <2>5. Stage'
    <3>1. call.kind = "path" => PathStage'
      BY <1>1, <2>2, <2>4 DEF Stage, PathStage
    <3>2. call.kind # "path" => ExploreStage'
      BY <1>1, <2>2, <2>4 DEF Stage, ExploreStage
    <3> QED
      BY <3>1, <3>2, <1>1, <2>2, <2>4 DEF Stage
  <2>6. \A s \in Sides : Done(s)' = Done(s)
    BY <1>1, <2>4 DEF Done
  <2>7. \A s \in Sides : complete[s] <= complete'[s] /\ complete'[s] \in Nat
    BY <1>1, <2>2, SideTyped
  <2> QED
    BY <1>1, <1>4, <2>1, <2>2, <2>3, <2>4, <2>5, <2>6, <2>7, StillStep
<1> QED
  BY <1>3, <1>4

LEMMA EndTransactionStep == SearchInv /\ EndTransaction => SearchInv'
BY DEF SearchInv, TypeOK, EndTransaction, Running, graph, Fresh, Sides, PATH_MAX_DEPTH

LEMMA SearchStep == SearchInv /\ [Next]_vars => SearchInv'
<1> SUFFICES ASSUME SearchInv, [Next]_vars PROVE SearchInv'
  OBVIOUS
<1>1. CASE Call
  BY <1>1, FindShortestPathStep, ExploreStep DEF Call
<1>2. CASE Statement
  BY <1>2, StartLevelStep, ProbeStep, ExpandStep, StartDepthStep, WalkStep, AnswerEarlyStep
     DEF Statement
<1>3. CASE EndTransaction
  BY <1>3, EndTransactionStep
<1>4. CASE \E e \in Edge : Load(e)
  BY <1>4, LoadStep
<1>5. CASE UNCHANGED vars
  <2>1. TypeOK' <=> TypeOK
    BY <1>5 DEF vars, TypeOK
  <2>2. Running' <=> Running
    BY <1>5 DEF vars, Running
  <2>3. Searching' <=> Searching
    BY <1>5 DEF vars, Searching, Stage, PathStage, ExploreStage, Trees, Closed, Apart, Near, Done, Rows,
          SeenBy, Frontier, Root, Inside, Discovered, Start
  <2> QED
    BY <2>1, <2>2, <2>3 DEF SearchInv
<1> QED
  BY <1>1, <1>2, <1>3, <1>4, <1>5 DEF Next

\* Nothing but what is declared is ever in the state of a search, and no side has two rows of one
\* vertex: the primary key of graph_path_seen.
THEOREM SearchesAreTyped == Spec => []TypeOK
<1>1. SearchInv => TypeOK
  BY DEF SearchInv
<1> QED
  BY <1>1, SearchInit, SearchStep, PTL DEF Spec

-----------------------------------------------------------------------------
(* The way back along the parents.                                         *)
IsChain(f, s, v, n) == f = [i \in 0..n |-> IF i = 0 THEN v ELSE RowOf(s, f[i - 1]).parent]

LEMMA TraceChoose ==
  ASSUME NEW s, NEW v
  PROVE  Trace(s, v) = [i \in 1..RowOf(s, v).depth + 1 |->
                          (CHOOSE f : IsChain(f, s, v, RowOf(s, v).depth))[i - 1]]
BY Zenon DEF Trace, IsChain

LEMMA ChainExists ==
  ASSUME NEW s, NEW v
  PROVE  \A n \in Nat : \E f : IsChain(f, s, v, n)
<1> DEFINE T == {n \in Nat : \E f : IsChain(f, s, v, n)}
<1>1. 0 \in T
  <2> DEFINE f == [i \in 0..0 |-> v]
  <2>1. f = [i \in 0..0 |-> IF i = 0 THEN v ELSE RowOf(s, f[i - 1]).parent]
    OBVIOUS
  <2>2. IsChain(f, s, v, 0)
    BY <2>1, Zenon DEF IsChain
  <2> QED
    BY <2>2
<1>2. ASSUME NEW n \in Nat, n \in T PROVE n + 1 \in T
  <2>1. PICK f : IsChain(f, s, v, n)
    BY <1>2
  <2> DEFINE g == [i \in 0..n + 1 |-> IF i <= n THEN f[i] ELSE RowOf(s, f[n]).parent]
  <2>2. f = [i \in 0..n |-> IF i = 0 THEN v ELSE RowOf(s, f[i - 1]).parent]
    BY <2>1, Zenon DEF IsChain
  <2>3. ASSUME NEW i \in 0..n + 1
        PROVE  g[i] = IF i = 0 THEN v ELSE RowOf(s, g[i - 1]).parent
    <3>1. CASE i = 0
      BY <2>2, <3>1
    <3>2. CASE i > 0 /\ i <= n
      <4>1. g[i] = f[i] /\ g[i - 1] = f[i - 1] /\ i \in 0..n /\ i # 0
        BY <3>2
      <4>2. f[i] = RowOf(s, f[i - 1]).parent
        BY <2>2, <4>1, Zenon
      <4> QED
        BY <4>1, <4>2, Zenon
    <3>3. CASE i = n + 1
      <4>1. g[i] = RowOf(s, f[n]).parent /\ g[i - 1] = f[n] /\ i # 0
        BY <3>3
      <4> QED
        BY <4>1, Zenon
    <3> QED
      BY <3>1, <3>2, <3>3
  <2>4. g = [i \in 0..n + 1 |-> IF i = 0 THEN v ELSE RowOf(s, g[i - 1]).parent]
    <3> HIDE DEF g
    <3>1. g = [i \in 0..n + 1 |-> g[i]]
      BY DEF g
    <3> QED
      BY <2>3, <3>1
  <2>5. IsChain(g, s, v, n + 1)
    <3> HIDE DEF g
    <3> QED
      BY <2>4, Zenon DEF IsChain
  <2> QED
    BY <2>5
<1> HIDE DEF T
<1>3. \A n \in Nat : n \in T
  BY <1>1, <1>2, Counting
<1> QED
  BY <1>3 DEF T

LEMMA TraceChain ==
  ASSUME NEW s, NEW v, RowOf(s, v).depth \in Nat
  PROVE  \E f : /\ IsChain(f, s, v, RowOf(s, v).depth)
                /\ Trace(s, v) = [i \in 1..RowOf(s, v).depth + 1 |-> f[i - 1]]
<1> DEFINE f == CHOOSE g : IsChain(g, s, v, RowOf(s, v).depth)
<1>1. \E g : IsChain(g, s, v, RowOf(s, v).depth)
  BY ChainExists
<1>2. IsChain(f, s, v, RowOf(s, v).depth)
  BY <1>1, Zenon
<1>3. Trace(s, v) = [i \in 1..RowOf(s, v).depth + 1 |-> f[i - 1]]
  BY TraceChoose
<1> HIDE DEF f
<1> QED
  BY <1>2, <1>3

\* The way back from a row is a walk to the end of its side, as long as the row is deep.
LEMMA TraceWalks ==
  ASSUME SearchInv, Running, NEW s, NEW r \in Rows(s)
  PROVE  /\ r.depth \in Nat
         /\ Trace(s, r.vertex) \in Seq(Vertex) /\ Len(Trace(s, r.vertex)) = r.depth + 1
         /\ Trace(s, r.vertex)[1] = r.vertex /\ Trace(s, r.vertex)[r.depth + 1] = Root(s)
         /\ \A i \in 1..r.depth : {Trace(s, r.vertex)[i], Trace(s, r.vertex)[i + 1]} \in ever
<1> USE DEF SearchInv, Searching
<1> DEFINE v == r.vertex
           d == r.depth
<1>0. TypeOK /\ Trees /\ d \in Nat
  BY RowTyped
<1>1. ASSUME NEW q \in Rows(s) PROVE RowOf(s, q.vertex) = q
  <2>1. \A x \in Rows(s) : x.vertex = q.vertex => x = q
    BY <1>0, RowTyped
  <2> QED
    BY <2>1 DEF RowOf
<1>2. RowOf(s, v) = r
  BY <1>1
<1>3. PICK f : IsChain(f, s, v, d) /\ Trace(s, v) = [i \in 1..d + 1 |-> f[i - 1]]
  <2>1. RowOf(s, v).depth = d
    BY <1>2
  <2>2. PICK f : /\ IsChain(f, s, v, RowOf(s, v).depth)
                 /\ Trace(s, v) = [i \in 1..RowOf(s, v).depth + 1 |-> f[i - 1]]
    <3>1. RowOf(s, v).depth \in Nat
      BY <2>1, <1>0
    <3> HIDE DEF v, d
    <3> QED
      BY <3>1, TraceChain
  <2> QED
    BY <2>1, <2>2
<1>4. Trace(s, v) = [i \in 1..d + 1 |-> f[i - 1]]
  BY <1>3
<1>5. /\ 0 \in 0..d => f[0] = v
      /\ \A i \in 0..d : i # 0 => f[i] = RowOf(s, f[i - 1]).parent
  BY <1>3, Zenon DEF IsChain
<1>6. \A i \in Nat : i <= d => \E q \in Rows(s) : q.vertex = f[i] /\ q.depth = d - i
  <2> DEFINE T == {i \in Nat : i <= d => \E q \in Rows(s) : q.vertex = f[i] /\ q.depth = d - i}
  <2>1. 0 \in T
    BY <1>0, <1>5
  <2>2. ASSUME NEW i \in Nat, i \in T PROVE i + 1 \in T
    <3> SUFFICES ASSUME i + 1 <= d
                 PROVE  \E q \in Rows(s) : q.vertex = f[i + 1] /\ q.depth = d - (i + 1)
      OBVIOUS
    <3>1. i <= d /\ i + 1 \in 0..d /\ i + 1 # 0 /\ (i + 1) - 1 = i
      BY <1>0
    <3>2. PICK q \in Rows(s) : q.vertex = f[i] /\ q.depth = d - i
      BY <2>2, <3>1
    <3>3. f[i + 1] = RowOf(s, f[i]).parent
      BY <1>5, <3>1
    <3>4. f[i + 1] = q.parent
      BY <1>1, <3>2, <3>3
    <3>5. q \in seen /\ q.side = s /\ q.depth > 0
      BY <1>0, <3>1, <3>2, RowTyped
    <3>6. \E p \in Rows(s) : p.vertex = q.parent /\ p.depth = q.depth - 1
      BY <1>0, <3>5 DEF Trees
    <3> QED
      BY <3>1, <3>2, <3>4, <3>6, <1>0
  <2> HIDE DEF T
  <2>3. \A i \in Nat : i \in T
    BY <2>1, <2>2, Counting
  <2> QED
    BY <2>3 DEF T
<1>7. \A i \in Nat : i <= d => f[i] \in Vertex
  BY <1>0, <1>6, RowTyped
<1>8. \A i \in Nat : i + 1 <= d => {f[i], f[i + 1]} \in ever
  <2> SUFFICES ASSUME NEW i \in Nat, i + 1 <= d PROVE {f[i], f[i + 1]} \in ever
    OBVIOUS
  <2>1. i <= d /\ i + 1 \in 0..d /\ i + 1 # 0 /\ (i + 1) - 1 = i
    BY <1>0
  <2>2. PICK q \in Rows(s) : q.vertex = f[i] /\ q.depth = d - i
    BY <1>6, <2>1
  <2>3. f[i + 1] = RowOf(s, f[i]).parent
    BY <1>5, <2>1
  <2>4. f[i + 1] = q.parent
    BY <1>1, <2>2, <2>3
  <2>5. q \in seen /\ q.side = s /\ q.depth > 0
    BY <1>0, <2>1, <2>2, RowTyped
  <2>6. {q.parent, q.vertex} \in ever
    BY <1>0, <2>5 DEF Trees
  <2>7. {f[i], f[i + 1]} = {q.parent, q.vertex}
    BY <2>2, <2>4
  <2> QED
    BY <2>6, <2>7
<1>9. f[0] = v /\ f[d] = Root(s)
  <2>1. PICK q \in Rows(s) : q.vertex = f[d] /\ q.depth = d - d
    BY <1>0, <1>6
  <2>2. q.depth = 0 /\ q \in seen /\ q.side = s
    BY <1>0, <2>1, RowTyped
  <2>3. q.vertex = Root(s)
    BY <1>0, <2>2 DEF Trees
  <2>4. 0 \in 0..d
    BY <1>0
  <2> QED
    BY <1>5, <2>1, <2>3, <2>4
<1> DEFINE t == Trace(s, v)
<1>10. t = [i \in 1..d + 1 |-> f[i - 1]]
  BY <1>4
<1> HIDE DEF t, v, d
<1>11. \A i \in 1..d + 1 : t[i] = f[i - 1] /\ i - 1 \in Nat /\ i - 1 <= d
  BY <1>0, <1>10
<1>12. t \in Seq(Vertex) /\ Len(t) = d + 1
  <2>1. t \in [1..d + 1 -> Vertex]
    BY <1>7, <1>10, <1>11
  <2>2. d + 1 \in Nat
    BY <1>0
  <2> QED
    BY <2>1, <2>2
<1>13. t[1] = v /\ t[d + 1] = Root(s)
  <2>1. 1 \in 1..d + 1 /\ d + 1 \in 1..d + 1 /\ 1 - 1 = 0 /\ (d + 1) - 1 = d
    BY <1>0
  <2> QED
    BY <2>1, <1>9, <1>11
<1>14. \A i \in 1..d : {t[i], t[i + 1]} \in ever
  <2> SUFFICES ASSUME NEW i \in 1..d PROVE {t[i], t[i + 1]} \in ever
    OBVIOUS
  <2>1. i \in 1..d + 1 /\ i + 1 \in 1..d + 1 /\ i - 1 \in Nat /\ (i - 1) + 1 = i /\ (i - 1) + 1 <= d
        /\ (i + 1) - 1 = i
    BY <1>0
  <2>2. t[i] = f[i - 1] /\ t[i + 1] = f[i]
    BY <1>11, <2>1
  <2>3. {f[i - 1], f[(i - 1) + 1]} \in ever
    BY <1>8, <2>1
  <2> QED
    BY <2>1, <2>2, <2>3
<1> QED
  BY <1>0, <1>12, <1>13, <1>14 DEF t, v, d

\* A walk turned around is a walk.
LEMMA Turned ==
  ASSUME NEW h \in Seq(Vertex), NEW m \in Nat, Len(h) = m + 1, NEW F,
         \A i \in 1..m : {h[i], h[i + 1]} \in F
  PROVE  /\ Reversed(h) \in Seq(Vertex) /\ Len(Reversed(h)) = m + 1
         /\ Reversed(h)[1] = h[m + 1] /\ Reversed(h)[m + 1] = h[1]
         /\ \A i \in 1..m : {Reversed(h)[i], Reversed(h)[i + 1]} \in F
<1> DEFINE p == Reversed(h)
<1>1. p = [i \in 1..m + 1 |-> h[m + 1 + 1 - i]]
  BY DEF Reversed
<1> HIDE DEF p
<1>2. \A i \in 1..m + 1 : p[i] = h[m + 2 - i] /\ m + 2 - i \in 1..m + 1 /\ p[i] \in Vertex
  BY <1>1
<1>3. p \in Seq(Vertex) /\ Len(p) = m + 1
  <2>1. p \in [1..m + 1 -> Vertex]
    BY <1>1, <1>2
  <2> QED
    BY <2>1
<1>4. p[1] = h[m + 1] /\ p[m + 1] = h[1]
  <2>1. m + 2 - 1 = m + 1 /\ m + 2 - (m + 1) = 1 /\ 1 \in 1..m + 1 /\ m + 1 \in 1..m + 1
    OBVIOUS
  <2> QED
    BY <1>2, <2>1
<1>5. ASSUME NEW i \in 1..m PROVE {p[i], p[i + 1]} \in F
  <2>1. /\ i \in 1..m + 1 /\ i + 1 \in 1..m + 1 /\ m + 1 - i \in 1..m
        /\ m + 2 - (i + 1) = m + 1 - i /\ m + 2 - i = (m + 1 - i) + 1
    OBVIOUS
  <2>2. p[i] = h[(m + 1 - i) + 1] /\ p[i + 1] = h[m + 1 - i]
    BY <1>2, <2>1
  <2>3. {h[m + 1 - i], h[(m + 1 - i) + 1]} \in F
    BY <2>1
  <2>4. {p[i], p[i + 1]} = {h[m + 1 - i], h[(m + 1 - i) + 1]}
    BY <2>2
  <2> QED
    BY <2>3, <2>4
<1> QED
  BY <1>3, <1>4, <1>5 DEF p

\* Two walks whose beginnings are joined by an edge make one.
LEMMA JoinedWalk ==
  ASSUME NEW h \in Seq(Vertex), NEW m \in Nat, Len(h) = m + 1, NEW F,
         NEW t \in Seq(Vertex), NEW n \in Nat, Len(t) = n + 1,
         \A i \in 1..m : {h[i], h[i + 1]} \in F, \A i \in 1..n : {t[i], t[i + 1]} \in F,
         {h[1], t[1]} \in F
  PROVE  /\ Len(Reversed(h) \o t) = (m + 1 + n) + 1
         /\ (Reversed(h) \o t)[1] = h[m + 1]
         /\ (Reversed(h) \o t)[(m + 1 + n) + 1] = t[n + 1]
         /\ \A i \in 1..m + 1 + n : {(Reversed(h) \o t)[i], (Reversed(h) \o t)[i + 1]} \in F
<1> DEFINE g == Reversed(h)
           p == g \o t
<1>1. /\ g \in Seq(Vertex) /\ Len(g) = m + 1 /\ g[1] = h[m + 1] /\ g[m + 1] = h[1]
      /\ \A i \in 1..m : {g[i], g[i + 1]} \in F
  BY Turned
<1> HIDE DEF g
<1>2. /\ Len(p) = (m + 1 + n) + 1
      /\ \A i \in 1..m + 1 : p[i] = g[i]
      /\ \A i \in 1..n + 1 : p[m + 1 + i] = t[i]
  BY <1>1
<1> HIDE DEF p
<1>3. p[1] = h[m + 1] /\ p[(m + 1 + n) + 1] = t[n + 1]
  <2>1. 1 \in 1..m + 1 /\ n + 1 \in 1..n + 1 /\ (m + 1 + n) + 1 = m + 1 + (n + 1)
    OBVIOUS
  <2> QED
    BY <1>1, <1>2, <2>1
<1>4. ASSUME NEW i \in 1..m + 1 + n PROVE {p[i], p[i + 1]} \in F
  <2>1. CASE i <= m
    <3>1. i \in 1..m /\ i \in 1..m + 1 /\ i + 1 \in 1..m + 1
      BY <2>1
    <3>2. p[i] = g[i] /\ p[i + 1] = g[i + 1]
      BY <3>1, <1>2
    <3> QED
      BY <3>1, <3>2, <1>1
  <2>2. CASE i = m + 1
    <3>1. i \in 1..m + 1 /\ i + 1 = m + 1 + 1 /\ 1 \in 1..n + 1
      BY <2>2
    <3>2. p[i] = h[1] /\ p[i + 1] = t[1]
      BY <2>2, <3>1, <1>1, <1>2
    <3> QED
      BY <3>2
  <2>3. CASE i > m + 1
    <3> DEFINE k == i - (m + 1)
    <3>1. k \in 1..n /\ k \in 1..n + 1 /\ k + 1 \in 1..n + 1 /\ i = m + 1 + k /\ i + 1 = m + 1 + (k + 1)
      BY <2>3
    <3> HIDE DEF k
    <3>2. p[i] = t[k] /\ p[i + 1] = t[k + 1]
      BY <3>1, <1>2
    <3> QED
      BY <3>1, <3>2
  <2> QED
    BY <2>1, <2>2, <2>3
<1> QED
  BY <1>2, <1>3, <1>4 DEF p, g

-----------------------------------------------------------------------------
(* How far the sides have come.                                            *)

\* As far as its rows are done, a side has seen all that is near its end, no later than the distance.
LEMMA BallSeen ==
  ASSUME SearchInv, Running, NEW s \in Sides, s = 0 \/ call.kind = "path", NEW N \in Nat,
         \A r \in Rows(s) : r.depth < N => r \in Done(s)
  PROVE  \A n \in Nat : n <= N => \A w \in Within(always, Root(s), n) :
           w \in Near(s) /\ \E q \in Rows(s) : q.vertex = w /\ q.depth <= n
<1> USE DEF SearchInv, Searching
<1> DEFINE T == {n \in Nat : n <= N => \A w \in Within(always, Root(s), n) :
                   w \in Near(s) /\ \E q \in Rows(s) : q.vertex = w /\ q.depth <= n}
<1>0. TypeOK /\ Trees /\ Closed
  OBVIOUS
<1>1. 0 \in T
  <2>1. Within(always, Root(s), 0) = {Root(s)}
    BY WithinNone
  <2>2. Root(s) \in Near(s)
    BY DEF Near
  <2>3. Start(s, Root(s)) \in Rows(s) /\ Start(s, Root(s)).vertex = Root(s) /\ Start(s, Root(s)).depth <= 0
    BY <1>0 DEF Trees, Rows, Start
  <2> QED
    BY <2>1, <2>2, <2>3
<1>2. ASSUME NEW n \in Nat, n \in T PROVE n + 1 \in T
  <2> SUFFICES ASSUME n + 1 <= N, NEW w \in Within(always, Root(s), n + 1)
               PROVE  w \in Near(s) /\ \E q \in Rows(s) : q.vertex = w /\ q.depth <= n + 1
    OBVIOUS
  <2>1. n <= N /\ n < N
    OBVIOUS
  <2>2. CASE w \in Within(always, Root(s), n)
    <3>1. w \in Near(s) /\ \E q \in Rows(s) : q.vertex = w /\ q.depth <= n
      BY <1>2, <2>1, <2>2
    <3>2. \A q \in Rows(s) : q.depth \in Nat
      BY <1>0, RowTyped
    <3> QED
      BY <3>1, <3>2
  <2>3. CASE w \in Vertex /\ \E u \in Within(always, Root(s), n) : {u, w} \in always
    <3>1. PICK u \in Within(always, Root(s), n) : {u, w} \in always
      BY <2>3
    <3>2. PICK q \in Rows(s) : q.vertex = u /\ q.depth <= n
      BY <1>2, <2>1, <3>1
    <3>3. q.depth \in Nat
      BY <1>0, RowTyped
    <3>4. q \in Done(s)
      BY <2>1, <3>2, <3>3
    <3>5. w \in Near(s)
      BY <2>3, <3>1, <3>2, <3>4 DEF Near
    <3>6. PICK x \in Rows(s) : x.vertex = w /\ x.depth <= q.depth + 1
      BY <1>0, <2>3, <3>1, <3>2, <3>4 DEF Closed
    <3>7. x.depth \in Nat
      BY <1>0, RowTyped
    <3>8. x.depth <= n + 1
      BY <3>2, <3>3, <3>6, <3>7
    <3> QED
      BY <3>5, <3>6, <3>8
  <2> QED
    BY <2>2, <2>3, InWithin
<1> HIDE DEF T
<1>3. \A n \in Nat : n \in T
  BY <1>1, <1>2, Counting
<1> QED
  BY <1>3 DEF T

\* What has been done on both sides joins no path that was there all the time.
LEMMA Unjoined ==
  ASSUME SearchInv, Running, call.kind = "path", NEW m \in Nat, NEW k \in Nat,
         \A r \in Rows(0) : r.depth < m => r \in Done(0),
         \A r \in Rows(1) : r.depth < k => r \in Done(1)
  PROVE  call.to \notin Within(always, call.from, m + k)
<1> USE DEF SearchInv, Searching
<1>1. call.from \in Vertex /\ call.to \in Vertex
  BY CallTyped
<1>2. Root(0) = call.from /\ Root(1) = call.to /\ 0 \in Sides /\ 1 \in Sides
  BY DEF Root, Sides
<1> SUFFICES ASSUME call.to \in Within(always, call.from, m + k) PROVE FALSE
  OBVIOUS
<1>3. PICK x : x \in Within(always, call.from, m) /\ x \in Within(always, call.to, k)
  BY <1>1, Meeting
<1>4. x \in Near(0)
  <2>1. m <= m
    OBVIOUS
  <2>2. \A w \in Within(always, Root(0), m) : w \in Near(0)
    BY <1>2, <2>1, BallSeen
  <2> QED
    BY <2>2, <1>2, <1>3
<1>5. x \in Near(1)
  <2>1. k <= k
    OBVIOUS
  <2>2. \A w \in Within(always, Root(1), k) : w \in Near(1)
    BY <1>2, <2>1, BallSeen
  <2> QED
    BY <2>2, <1>2, <1>3
<1> QED
  BY <1>4, <1>5 DEF Apart

LEMMA Complete ==
  ASSUME NEW s, NEW n \in Nat, complete[s] \in Nat, n <= complete[s], TypeOK
  PROVE  \A r \in Rows(s) : r.depth < n => r \in Done(s)
<1> SUFFICES ASSUME NEW r \in Rows(s), r.depth < n PROVE r \in Done(s)
  OBVIOUS
<1>1. r.depth \in Nat
  BY RowTyped
<1> QED
  BY <1>1 DEF Done

\* Neither is there a path no longer than the depths that are complete.
LEMMA NoShortPath ==
  ASSUME SearchInv, Running, call.kind = "path", NEW n \in Nat, n <= complete[0] + complete[1]
  PROVE  call.to \notin Within(always, call.from, n)
<1>1. TypeOK /\ complete[0] \in Nat /\ complete[1] \in Nat
  BY SideTyped DEF SearchInv, Sides
<1> DEFINE m == IF n <= complete[0] THEN n ELSE complete[0]
           k == IF n <= complete[0] THEN 0 ELSE n - complete[0]
<1>2. m \in Nat /\ k \in Nat /\ m <= complete[0] /\ k <= complete[1] /\ m + k = n
  BY <1>1
<1> HIDE DEF m, k
<1>3. /\ \A r \in Rows(0) : r.depth < m => r \in Done(0)
      /\ \A r \in Rows(1) : r.depth < k => r \in Done(1)
  BY <1>1, <1>2, Complete
<1>4. call.to \notin Within(always, call.from, m + k)
  BY <1>2, <1>3, Unjoined
<1> QED
  BY <1>2, <1>4

\* A side without a frontier has seen all it ever will.
LEMMA Exhausted ==
  ASSUME SearchInv, pc = "level", NEW s \in Sides, Frontier(s) = {}
  PROVE  \A r \in Rows(s) : r \in Done(s)
<1> SUFFICES ASSUME NEW r \in Rows(s) PROVE r \in Done(s)
  OBVIOUS
<1> USE DEF SearchInv, Searching
<1>1. Running /\ ~Inside
  BY DEF Running, Inside
<1>2. TypeOK /\ Trees
  BY <1>1
<1>3. r \in seen /\ r.side = s /\ r.depth \in Nat /\ complete[s] \in Nat
  BY <1>2, RowTyped, SideTyped
<1>4. r.depth <= complete[s] /\ r.depth # complete[s]
  <2>1. r.depth <= complete[r.side] + (IF Inside /\ r.side = side THEN 1 ELSE 0)
    BY <1>2, <1>3 DEF Trees
  <2>2. r.depth <= complete[s]
    BY <2>1, <1>1, <1>3
  <2>3. r.depth # complete[s]
    BY DEF Frontier
  <2> QED
    BY <2>2, <2>3
<1> QED
  BY <1>3, <1>4 DEF Done

-----------------------------------------------------------------------------
(* The answer of a path search.                                            *)
LEMMA NotFoundExact ==
  ASSUME SearchInv, StartLevel, pc' = "answered"
  PROVE  PathExact'
<1> USE DEF SearchInv, Searching
<1>1. /\ Running /\ pc = "level" /\ call.kind = "path" /\ TypeOK
      /\ answer' = NotFound /\ call' = call /\ always' = always
      /\ complete[0] + complete[1] >= call.cap \/ \E s \in Sides : Frontier(s) = {}
  BY DEF StartLevel, Running, graph, Return
<1>2. complete[0] \in Nat /\ complete[1] \in Nat /\ call.cap \in Nat
  BY <1>1, SideTyped, CallTyped DEF Sides
<1>3. call.to \notin Within(always, call.from, call.cap)
  <2>1. CASE complete[0] + complete[1] >= call.cap
    <3>1. call.cap <= complete[0] + complete[1]
      BY <2>1, <1>2
    <3> QED
      BY <3>1, <1>1, <1>2, NoShortPath
  <2>2. CASE Frontier(0) = {}
    <3>1. /\ \A r \in Rows(0) : r.depth < call.cap => r \in Done(0)
          /\ \A r \in Rows(1) : r.depth < 0 => r \in Done(1)
      <4>1. \A r \in Rows(1) : r.depth \in Nat
        BY <1>1, RowTyped
      <4>2. \A r \in Rows(0) : r \in Done(0)
        BY <1>1, <2>2, Exhausted DEF Sides
      <4> QED
        BY <4>1, <4>2
    <3>2. call.to \notin Within(always, call.from, call.cap + 0)
      BY <3>1, <1>1, <1>2, Unjoined
    <3>3. call.cap + 0 = call.cap
      BY <1>2
    <3> QED
      BY <3>2, <3>3
  <2>3. CASE Frontier(1) = {}
    <3>1. /\ \A r \in Rows(0) : r.depth < 0 => r \in Done(0)
          /\ \A r \in Rows(1) : r.depth < call.cap => r \in Done(1)
      <4>1. \A r \in Rows(0) : r.depth \in Nat
        BY <1>1, RowTyped
      <4>2. \A r \in Rows(1) : r \in Done(1)
        BY <1>1, <2>3, Exhausted DEF Sides
      <4> QED
        BY <4>1, <4>2
    <3>2. call.to \notin Within(always, call.from, 0 + call.cap)
      BY <3>1, <1>1, <1>2, Unjoined
    <3>3. 0 + call.cap = call.cap
      BY <1>2
    <3> QED
      BY <3>2, <3>3
  <2> QED
    BY <1>1, <2>1, <2>2, <2>3 DEF Sides
<1> QED
  BY <1>1, <1>3 DEF PathExact, NotFound

\* Where the sides touch, the two ways back make a walk from one end to the other.
LEMMA TouchWalks ==
  ASSUME SearchInv, pc = "probe", NEW v \in todo, NEW w \in Neighbours(v) \cap Opposite
  PROVE  /\ RowOf(1 - side, w).depth \in Nat
         /\ RowOf(1 - side, w).depth <= complete[1 - side]
         /\ IsWalk(Joined(v, w), complete[side] + 1 + RowOf(1 - side, w).depth, call.from, call.to)
<1> USE DEF SearchInv, Searching
<1>1. Running /\ Inside /\ call.kind = "path" /\ TypeOK /\ Trees /\ edges \subseteq ever
  BY DEF Running, Inside, Stage, ExploreStage
<1>2. PICK o \in Sides : o = 1 - side
  BY <1>1, SideTyped
<1>3. side \in Sides /\ o # side /\ complete[side] \in Nat /\ complete[o] \in Nat
  BY <1>1, <1>2, SideTyped
<1>4. PICK r \in Rows(side) : r.vertex = v /\ r.depth = complete[side]
  BY <1>1, LevelRow
<1>5. PICK q \in Rows(o) : q.vertex = w
  BY <1>2 DEF Opposite, SeenBy
<1>6. RowOf(1 - side, w) = q
  <2>1. \A x \in Rows(o) : x.vertex = w => x = q
    BY <1>1, <1>5, RowTyped
  <2> QED
    BY <1>2, <1>5, <2>1 DEF RowOf
<1>7. q \in seen /\ q.side = o /\ q.depth \in Nat /\ q.depth <= complete[o]
  <2>1. q \in seen /\ q.side = o /\ q.depth \in Nat
    BY <1>1, RowTyped
  <2>2. q.depth <= complete[q.side] + (IF Inside /\ q.side = side THEN 1 ELSE 0)
    BY <1>1, <2>1 DEF Trees
  <2> QED
    BY <1>3, <2>1, <2>2
<1>8. {v, w} \in ever /\ {w, v} \in ever
  <2>1. {v, w} \in ever
    BY <1>1 DEF Neighbours
  <2>2. {w, v} = {v, w}
    OBVIOUS
  <2> QED
    BY <2>1, <2>2
<1> DEFINE a == Trace(side, v)
           b == Trace(o, w)
           m == complete[side]
           n == q.depth
<1>9. /\ m \in Nat /\ a \in Seq(Vertex) /\ Len(a) = m + 1 /\ a[1] = v /\ a[m + 1] = Root(side)
      /\ \A i \in 1..m : {a[i], a[i + 1]} \in ever
  BY <1>1, <1>4, TraceWalks
<1>10. /\ n \in Nat /\ b \in Seq(Vertex) /\ Len(b) = n + 1 /\ b[1] = w /\ b[n + 1] = Root(o)
       /\ \A i \in 1..n : {b[i], b[i + 1]} \in ever
  BY <1>1, <1>5, TraceWalks
<1>11. (side = 0 /\ o = 1) \/ (side = 1 /\ o = 0)
  BY <1>2, <1>3 DEF Sides
<1>12. Joined(v, w) = IF side = 0 THEN Reversed(a) \o b ELSE Reversed(b) \o a
  BY <1>11 DEF Joined
<1> HIDE DEF a, b, m, n
<1>13. IsWalk(Joined(v, w), m + 1 + n, call.from, call.to)
  <2>1. CASE side = 0 /\ o = 1
    <3>1. Root(side) = call.from /\ Root(o) = call.to
      BY <2>1 DEF Root
    <3>2. {a[1], b[1]} \in ever
      BY <1>8, <1>9, <1>10
    <3>3. /\ Len(Reversed(a) \o b) = (m + 1 + n) + 1
          /\ (Reversed(a) \o b)[1] = a[m + 1]
          /\ (Reversed(a) \o b)[(m + 1 + n) + 1] = b[n + 1]
          /\ \A i \in 1..m + 1 + n : {(Reversed(a) \o b)[i], (Reversed(a) \o b)[i + 1]} \in ever
      BY <1>9, <1>10, <3>2, JoinedWalk
    <3> QED
      BY <1>9, <1>10, <1>12, <2>1, <3>1, <3>3 DEF IsWalk
  <2>2. CASE side = 1 /\ o = 0
    <3>1. Root(side) = call.to /\ Root(o) = call.from
      BY <2>2 DEF Root
    <3>2. {b[1], a[1]} \in ever
      BY <1>8, <1>9, <1>10
    <3>3. /\ Len(Reversed(b) \o a) = (n + 1 + m) + 1
          /\ (Reversed(b) \o a)[1] = b[n + 1]
          /\ (Reversed(b) \o a)[(n + 1 + m) + 1] = a[m + 1]
          /\ \A i \in 1..n + 1 + m : {(Reversed(b) \o a)[i], (Reversed(b) \o a)[i + 1]} \in ever
      BY <1>9, <1>10, <3>2, JoinedWalk
    <3>4. n + 1 + m = m + 1 + n
      BY <1>9, <1>10
    <3>5. Joined(v, w) = Reversed(b) \o a
      BY <1>12, <2>2
    <3>6. IsWalk(Joined(v, w), n + 1 + m, call.from, call.to)
      BY <1>9, <1>10, <3>1, <3>3, <3>5 DEF IsWalk
    <3> QED
      BY <3>4, <3>6
  <2> QED
    BY <1>11, <2>1, <2>2
<1> QED
  BY <1>2, <1>6, <1>7, <1>13 DEF m, n

LEMMA TouchExact ==
  ASSUME SearchInv, NEW v \in todo, Probe(v), pc' = "answered"
  PROVE  PathExact'
<1> USE DEF SearchInv, Searching
<1>1. /\ Running /\ pc = "probe" /\ call.kind = "path" /\ TypeOK /\ PathStage
      /\ call' = call /\ always' = always /\ ever' = ever
  BY DEF Running, Stage, ExploreStage, Probe, graph
<1>2. PICK w \in Neighbours(v) \cap Opposite : Touch(v, w)
  BY DEF Probe
<1> DEFINE d == complete[side] + 1 + RowOf(1 - side, w).depth
<1>3. answer' = [found |-> TRUE, nodes |-> Joined(v, w), depth |-> d]
  BY <1>2 DEF Touch, Return
<1>4. /\ RowOf(1 - side, w).depth \in Nat /\ RowOf(1 - side, w).depth <= complete[1 - side]
      /\ IsWalk(Joined(v, w), d, call.from, call.to)
  BY <1>1, TouchWalks
<1>5. d \in Nat /\ d <= complete[0] + complete[1] + 1 /\ d <= call.cap
      /\ complete[0] \in Nat /\ complete[1] \in Nat
  <2>1. /\ complete[0] \in Nat /\ complete[1] \in Nat /\ call.cap \in Nat
        /\ complete[0] + complete[1] < call.cap
    BY <1>1, SideTyped, CallTyped DEF Sides, PathStage
  <2>2. CASE side = 0
    BY <2>1, <2>2, <1>4
  <2>3. CASE side = 1
    BY <2>1, <2>3, <1>4
  <2> QED
    BY <2>2, <2>3, <1>1 DEF TypeOK, Sides
<1>6. ASSUME NEW n \in 0..call.cap, n < d PROVE call.to \notin Within(always, call.from, n)
  <2>1. n \in Nat /\ n <= complete[0] + complete[1]
    BY <1>5, <1>6
  <2> QED
    BY <2>1, <1>1, NoShortPath
<1> HIDE DEF d
<1>7. answer'.found /\ answer'.nodes = Joined(v, w) /\ answer'.depth = d
  BY <1>3
<1>8. IsWalk(answer.nodes, answer.depth, call.from, call.to)'
  BY <1>1, <1>4, <1>7 DEF IsWalk
<1> QED
  BY <1>1, <1>5, <1>6, <1>7, <1>8 DEF PathExact

-----------------------------------------------------------------------------
(* The answer of an exploration.                                           *)
AnswerOf(r) == [depth |-> r.depth, nodes |-> Reversed(Trace(0, r.vertex))]
EndOf(a) == a.nodes[Len(a.nodes)]

\* The answer for a row is a walk to its vertex, which is another than the one asked about, and no
\* nearer than the row is deep.
LEMMA AnswerWalks ==
  ASSUME SearchInv, Running, NEW r \in Discovered
  PROVE  /\ r \in Rows(0) /\ r.depth \in Nat /\ r.depth > 0 /\ r.vertex \in Listed \ {call.from}
         /\ r.depth <= complete[0] + (IF Inside /\ side = 0 THEN 1 ELSE 0)
         /\ AnswerOf(r).depth = r.depth /\ EndOf(AnswerOf(r)) = r.vertex
         /\ IsWalk(AnswerOf(r).nodes, r.depth, call.from, r.vertex)
         /\ r.vertex \notin Within(always, call.from, r.depth - 1)
<1> USE DEF SearchInv, Searching
<1>0. TypeOK /\ Trees
  OBVIOUS
<1>1. r \in Rows(0) /\ r.depth > 0 /\ r.vertex \in Listed
  BY DEF Discovered
<1>2. /\ r \in seen /\ r.side = 0 /\ r.depth \in Nat /\ 0 \in Sides /\ complete[0] \in Nat
      /\ \A q \in Rows(0) : q.vertex = r.vertex => q = r
  BY <1>0, <1>1, RowTyped, SideTyped
<1>3. Root(0) = call.from
  BY DEF Root
<1>4. r.vertex # call.from
  <2>1. Start(0, Root(0)) \in Rows(0)
    BY <1>0, <1>2 DEF Trees, Rows, Start
  <2>2. Start(0, Root(0)).vertex = call.from /\ Start(0, Root(0)).depth = 0
    BY <1>3 DEF Start
  <2> QED
    BY <2>1, <2>2, <1>1, <1>2
<1>5. r.depth <= complete[0] + (IF Inside /\ side = 0 THEN 1 ELSE 0)
  BY <1>0, <1>2 DEF Trees
<1> DEFINE t == Trace(0, r.vertex)
           d == r.depth
<1>6. /\ d \in Nat /\ t \in Seq(Vertex) /\ Len(t) = d + 1 /\ t[1] = r.vertex /\ t[d + 1] = call.from
      /\ \A i \in 1..d : {t[i], t[i + 1]} \in ever
  BY <1>1, <1>3, TraceWalks
<1>7. AnswerOf(r).depth = d /\ AnswerOf(r).nodes = Reversed(t)
  BY DEF AnswerOf
<1> HIDE DEF t, d
<1>8. /\ Reversed(t) \in Seq(Vertex) /\ Len(Reversed(t)) = d + 1
      /\ Reversed(t)[1] = t[d + 1] /\ Reversed(t)[d + 1] = t[1]
      /\ \A i \in 1..d : {Reversed(t)[i], Reversed(t)[i + 1]} \in ever
  BY <1>6, Turned
<1>9. IsWalk(AnswerOf(r).nodes, d, call.from, r.vertex) /\ EndOf(AnswerOf(r)) = r.vertex
  BY <1>6, <1>7, <1>8 DEF IsWalk, EndOf
<1>10. r.vertex \notin Within(always, call.from, r.depth - 1)
  <2> SUFFICES ASSUME r.vertex \in Within(always, call.from, r.depth - 1) PROVE FALSE
    OBVIOUS
  <2>1. r.depth - 1 \in Nat /\ r.depth - 1 <= complete[0] /\ complete[0] <= complete[0]
    BY <1>1, <1>2, <1>5
  <2>2. \A q \in Rows(0) : q.depth < complete[0] => q \in Done(0)
    BY <1>0, <1>2, <2>1, Complete
  <2>3. \A n \in Nat : n <= complete[0] => \A w \in Within(always, Root(0), n) :
          w \in Near(0) /\ \E q \in Rows(0) : q.vertex = w /\ q.depth <= n
    BY <1>2, <2>2, BallSeen
  <2>4. \E q \in Rows(0) : q.vertex = r.vertex /\ q.depth <= r.depth - 1
    BY <2>1, <2>3, <1>3
  <2> QED
    BY <2>4, <1>2
<1> QED
  BY <1>1, <1>2, <1>4, <1>5, <1>7, <1>9, <1>10 DEF d

\* There are as many answers as rows.
LEMMA AnswersCounted ==
  ASSUME SearchInv, Running, NEW R \in SUBSET Discovered
  PROVE  /\ Answered(R) = {AnswerOf(r) : r \in R}
         /\ IsFiniteSet(Discovered) /\ IsFiniteSet(R) /\ Cardinality(Answered(R)) = Cardinality(R)
<1>1. Answered(R) = {AnswerOf(r) : r \in R}
  BY DEF Answered, AnswerOf
<1>2. IsFiniteSet(Discovered) /\ IsFiniteSet(R)
  <2>1. IsFiniteSet(seen)
    BY DEF SearchInv, Searching, Trees
  <2>2. Discovered \subseteq seen /\ R \subseteq seen
    BY DEF Discovered, Rows
  <2> QED
    BY <2>1, <2>2, FS_Subset
<1>3. \A r, q \in R : AnswerOf(r) = AnswerOf(q) => r = q
  <2> SUFFICES ASSUME NEW r \in R, NEW q \in R, AnswerOf(r) = AnswerOf(q) PROVE r = q
    OBVIOUS
  <2>1. r \in Rows(0) /\ q \in Rows(0) /\ EndOf(AnswerOf(r)) = r.vertex /\ EndOf(AnswerOf(q)) = q.vertex
    BY AnswerWalks
  <2>2. \A x \in Rows(0) : x.vertex = r.vertex => x = r
    BY <2>1, RowTyped DEF SearchInv
  <2> QED
    BY <2>1, <2>2
<1> DEFINE L == Answered(R)
           f == [r \in R |-> AnswerOf(r)]
<1>4. f \in Surjection(R, L) /\ f \in Injection(R, L)
  <2>1. f \in [R -> L]
    BY <1>1
  <2>2. \A a \in L : \E r \in R : f[r] = a
    BY <1>1
  <2>3. \A r, q \in R : f[r] = f[q] => r = q
    BY <1>3
  <2> HIDE DEF f, L
  <2> QED
    BY <2>1, <2>2, <2>3 DEF Surjection, Injection, IsInjective
<1> HIDE DEF f, L
<1>5. Cardinality(L) = Cardinality(R)
  BY <1>2, <1>4, FS_Surjection
<1> QED
  BY <1>1, <1>2, <1>5 DEF L

\* The rows that are answered: no more than were asked for, and those left out no nearer.
LEMMA NearestRows ==
  ASSUME SearchInv, Running, call.kind = "explore", NEW R \in Nearest(Discovered, call.limit),
         \/ pc = "level" /\ complete[0] = call.cap
         \/ pc = "nearest"
  PROVE  /\ R \in SUBSET Discovered /\ Cardinality(R) <= call.limit
         /\ \A r \in R : r.depth \in 1..call.cap
         /\ \A n \in 1..call.cap : \A v \in (Within(always, call.from, n) \cap (Listed \ {call.from})) :
              v \notin {r.vertex : r \in R} =>
                Cardinality(R) = call.limit /\ \A r \in R : r.depth <= n
<1> USE DEF SearchInv, Searching
<1>0. /\ TypeOK /\ Trees /\ ExploreStage /\ call.limit \in Nat /\ call.cap \in Nat
      /\ complete[0] \in Nat /\ 0 \in Sides /\ side = 0
  BY CallTyped, SideTyped DEF Stage, ExploreStage, Sides
<1>1. /\ R \in SUBSET Discovered
      /\ Cardinality(R) = IF Cardinality(Discovered) < call.limit THEN Cardinality(Discovered) ELSE call.limit
      /\ \A r \in R, q \in Discovered \ R : r.depth <= q.depth
  BY DEF Nearest
<1>2. IsFiniteSet(Discovered) /\ Cardinality(Discovered) \in Nat
  BY <1>1, AnswersCounted, FS_CardinalityType
<1>3. Cardinality(R) <= call.limit
  BY <1>0, <1>1, <1>2
<1>4. \A r \in R : /\ r.depth \in Nat /\ r.depth > 0
                   /\ r.depth <= complete[0] + (IF pc = "nearest" THEN 1 ELSE 0)
  BY <1>0, <1>1, AnswerWalks DEF Inside
<1>5. \A r \in R : r.depth \in 1..call.cap
  BY <1>0, <1>4 DEF ExploreStage
<1>6. ASSUME NEW n \in 1..call.cap, NEW v \in Within(always, call.from, n), v \in Listed \ {call.from},
             v \notin {r.vertex : r \in R}
      PROVE  Cardinality(R) = call.limit /\ \A r \in R : r.depth <= n
  <2>1. CASE n <= complete[0]
    <3>1. \A q \in Rows(0) : q.depth < complete[0] => q \in Done(0)
      <4>1. complete[0] <= complete[0]
        BY <1>0
      <4> QED
        BY <4>1, <1>0, Complete
    <3>2. \A m \in Nat : m <= complete[0] => \A w \in Within(always, Root(0), m) :
            w \in Near(0) /\ \E q \in Rows(0) : q.vertex = w /\ q.depth <= m
      BY <3>1, <1>0, BallSeen
    <3>3. PICK q \in Rows(0) : q.vertex = v /\ q.depth <= n
      BY <3>2, <2>1, <1>6 DEF Root
    <3>4. q \in seen /\ q.side = 0 /\ q.depth \in Nat
      BY <1>0, RowTyped
    <3>5. q.depth > 0
      <4>1. q.depth = 0 => q.vertex = Root(0)
        BY <3>4, <1>0 DEF Trees
      <4>2. Root(0) = call.from
        BY DEF Root
      <4> QED
        BY <4>1, <4>2, <3>3, <3>4, <1>6
    <3>6. q \in Discovered \ R
      BY <3>3, <3>5, <1>6 DEF Discovered
    <3>7. Cardinality(R) = call.limit
      <4>1. Cardinality(Discovered) = Cardinality(R) => Discovered = R
        BY <1>1, <1>2, FS_Subset
      <4> QED
        BY <4>1, <3>6, <1>1
    <3>8. \A r \in R : r.depth <= n
      BY <3>3, <3>4, <3>6, <1>1, <1>4
    <3> QED
      BY <3>7, <3>8
  <2>2. CASE ~(n <= complete[0])
    <3>1. pc = "nearest" /\ complete[0] + 1 <= n
      BY <2>2, <1>0
    <3>2. Cardinality(Discovered) >= call.limit
      BY <3>1, <1>0 DEF ExploreStage
    <3>3. Cardinality(R) = call.limit
      BY <3>2, <1>0, <1>1, <1>2
    <3>4. \A r \in R : r.depth <= n
      BY <3>1, <1>0, <1>4
    <3> QED
      BY <3>3, <3>4
  <2> QED
    BY <2>1, <2>2
<1> QED
  BY <1>1, <1>3, <1>5, <1>6

LEMMA ReturnExact ==
  ASSUME SearchInv, Running, call.kind = "explore", ReturnNearest,
         (pc = "level" /\ complete[0] = call.cap) \/ pc = "nearest",
         call' = call, always' = always, ever' = ever
  PROVE  NearestFirst'
<1>1. PICK R \in Nearest(Discovered, call.limit) : answer' = [listed |-> Answered(R)]
  BY DEF ReturnNearest, Return
<1> DEFINE L == Answered(R)
<1>2. answer'.listed = L
  BY <1>1
<1>3. /\ R \in SUBSET Discovered /\ Cardinality(R) <= call.limit
      /\ \A r \in R : r.depth \in 1..call.cap
      /\ \A n \in 1..call.cap : \A v \in (Within(always, call.from, n) \cap (Listed \ {call.from})) :
           v \notin {r.vertex : r \in R} =>
             Cardinality(R) = call.limit /\ \A r \in R : r.depth <= n
  BY NearestRows
<1>4. L = {AnswerOf(r) : r \in R} /\ Cardinality(L) = Cardinality(R)
  BY <1>3, AnswersCounted
<1>5. ASSUME NEW a \in L
      PROVE  \E r \in R : /\ a = AnswerOf(r) /\ EndOf(a) = r.vertex /\ a.depth = r.depth
                          /\ IsWalk(a.nodes, a.depth, call.from, EndOf(a))
                          /\ EndOf(a) \in Listed \ {call.from}
                          /\ EndOf(a) \notin Within(always, call.from, a.depth - 1)
  <2>1. PICK r \in R : a = AnswerOf(r)
    BY <1>4
  <2> QED
    BY <2>1, <1>3, AnswerWalks
<1> HIDE DEF L
<1>6. \A a, b \in L : EndOf(a) = EndOf(b) => a = b
  <2> SUFFICES ASSUME NEW a \in L, NEW b \in L, EndOf(a) = EndOf(b) PROVE a = b
    OBVIOUS
  <2>1. PICK r \in R : a = AnswerOf(r) /\ EndOf(a) = r.vertex
    BY <1>5
  <2>2. PICK q \in R : b = AnswerOf(q) /\ EndOf(b) = q.vertex
    BY <1>5
  <2>3. r \in Rows(0) /\ q \in Rows(0)
    BY <1>3, AnswerWalks
  <2>4. r = q
    BY <2>1, <2>2, <2>3, RowTyped DEF SearchInv
  <2> QED
    BY <2>1, <2>2, <2>4
<1>7. \A a \in L : /\ a.depth \in 1..call.cap /\ EndOf(a) \in Listed \ {call.from}
                   /\ IsWalk(a.nodes, a.depth, call.from, EndOf(a))
                   /\ EndOf(a) \notin Within(always, call.from, a.depth - 1)
  BY <1>3, <1>5
<1>8. ASSUME NEW n \in 1..call.cap, NEW v \in Within(always, call.from, n), v \in Listed \ {call.from},
             v \notin {EndOf(a) : a \in L}
      PROVE  Cardinality(L) = call.limit /\ \A a \in L : a.depth <= n
  <2>1. v \notin {r.vertex : r \in R}
    <3> SUFFICES ASSUME NEW r \in R, v = r.vertex PROVE FALSE
      OBVIOUS
    <3>1. AnswerOf(r) \in L /\ EndOf(AnswerOf(r)) = r.vertex
      BY <1>3, <1>4, AnswerWalks
    <3> QED
      BY <3>1, <1>8
  <2>2. Cardinality(R) = call.limit /\ \A r \in R : r.depth <= n
    BY <2>1, <1>3, <1>8
  <2> QED
    BY <2>2, <1>4, <1>5
<1>9. Cardinality(L) <= call.limit
  BY <1>3, <1>4
<1>10. \A a \in L : IsWalk(a.nodes, a.depth, call.from, EndOf(a))'
  BY <1>7 DEF IsWalk, EndOf
<1> QED
  BY <1>2, <1>6, <1>7, <1>8, <1>9, <1>10 DEF NearestFirst, EndOf

-----------------------------------------------------------------------------
(* Both answers are exact.                                                 *)
LEMMA ExactInit == Init => AnswerExact
BY DEF Init, AnswerExact, PathExact, NearestFirst

\* Only a statement or the beginning of a call answers; an answer stays what it was.
LEMMA Unanswered ==
  ASSUME pc' # "answered"
  PROVE  AnswerExact'
BY DEF AnswerExact, PathExact, NearestFirst

LEMMA AnswerStays ==
  ASSUME AnswerExact, UNCHANGED <<pc, call, answer, ever, always>>
  PROVE  AnswerExact'
<1>1. PathExact'
  BY DEF AnswerExact, PathExact, IsWalk
<1>2. NearestFirst'
  BY DEF AnswerExact, NearestFirst, IsWalk
<1> QED
  BY <1>1, <1>2 DEF AnswerExact

\* A path to itself has no edge.
LEMMA NoStepExact ==
  ASSUME NEW from \in Asked, NEW to \in Asked, NEW max \in Depths,
         FindShortestPath(from, to, max), pc' = "answered"
  PROVE  AnswerExact'
<1> DEFINE cap == Clamped(max, PATH_MIN_DEPTH, PATH_MAX_DEPTH, PATH_DEFAULT_DEPTH)
           c == [kind |-> "path", from |-> from, to |-> to, cap |-> cap]
<1>1. cap \in Nat
  BY ArgumentAssumption DEF Clamped, PATH_MIN_DEPTH, PATH_MAX_DEPTH, PATH_DEFAULT_DEPTH
<1>2. from = to /\ call' = c /\ answer' = [found |-> TRUE, depth |-> 0, nodes |-> <<from>>]
  BY DEF FindShortestPath, Begin, Return
<1> HIDE DEF cap
<1>3. /\ call'.kind = "path" /\ call'.from = from /\ call'.to = to /\ call'.cap = cap
      /\ answer'.found /\ answer'.depth = 0 /\ answer'.nodes = <<from>>
  BY <1>2
<1>4. PathExact'
  BY <1>1, <1>2, <1>3 DEF PathExact, IsWalk
<1> QED
  BY <1>3, <1>4 DEF AnswerExact, NearestFirst

LEMMA NoneExact ==
  ASSUME NEW from \in Asked, NEW hops \in Hops, NEW limit \in Limits,
         Explore(from, hops, limit), pc' = "answered"
  PROVE  AnswerExact'
<1> DEFINE cap == Clamped(hops, EXPLORE_MIN_HOPS, EXPLORE_MAX_HOPS, EXPLORE_DEFAULT_HOPS)
           c == [kind |-> "explore", from |-> from, cap |-> cap, limit |-> limit]
<1>1. limit = 0 /\ call' = c /\ answer' = [listed |-> {}]
  BY DEF Explore, Begin, Return
<1>2. call'.kind = "explore" /\ call'.limit = 0 /\ answer'.listed = {}
  BY <1>1
<1>3. NearestFirst'
  BY <1>2, FS_EmptySet DEF NearestFirst
<1> QED
  BY <1>2, <1>3 DEF AnswerExact, PathExact

LEMMA ExactStep == SearchInv /\ AnswerExact /\ [Next]_vars => AnswerExact'
<1> SUFFICES ASSUME SearchInv, AnswerExact, [Next]_vars, pc' = "answered" PROVE AnswerExact'
  BY Unanswered
<1>1. CASE Call
  BY <1>1, NoStepExact, NoneExact DEF Call
<1>2. ASSUME StartLevel PROVE AnswerExact'
  <2>1. PathExact'
    BY <1>2, NotFoundExact
  <2>2. call'.kind = "path"
    BY <1>2 DEF StartLevel
  <2> QED
    BY <2>1, <2>2 DEF AnswerExact, NearestFirst
<1>3. ASSUME NEW v \in todo, Probe(v) PROVE AnswerExact'
  <2>1. PathExact'
    BY <1>3, TouchExact
  <2>2. call'.kind = "path"
    BY <1>3 DEF Probe, SearchInv, Searching, Stage, ExploreStage, Running
  <2> QED
    BY <2>1, <2>2 DEF AnswerExact, NearestFirst
<1>4. ASSUME StartDepth PROVE AnswerExact'
  <2>1. /\ Running /\ pc = "level" /\ call.kind = "explore" /\ complete[0] = call.cap /\ ReturnNearest
        /\ call' = call /\ always' = always /\ ever' = ever
    BY <1>4 DEF StartDepth, Running, graph
  <2>2. NearestFirst'
    BY <2>1, ReturnExact
  <2> QED
    BY <2>1, <2>2 DEF AnswerExact, PathExact
<1>5. ASSUME AnswerEarly PROVE AnswerExact'
  <2>1. /\ Running /\ pc = "nearest" /\ ReturnNearest
        /\ call' = call /\ always' = always /\ ever' = ever
    BY <1>5 DEF AnswerEarly, Running, graph
  <2>2. call.kind = "explore"
    BY <2>1, CallTyped DEF SearchInv, Searching, Stage, PathStage
  <2>3. NearestFirst'
    BY <2>1, <2>2, ReturnExact
  <2> QED
    BY <2>1, <2>2, <2>3 DEF AnswerExact, PathExact
<1>6. CASE \E e \in Edge : Load(e)
  <2>1. UNCHANGED <<pc, call, answer, ever, always>>
    BY <1>6 DEF Load, Running
  <2> QED
    BY <2>1, AnswerStays
<1>7. CASE UNCHANGED vars
  BY <1>7, AnswerStays DEF vars
<1>8. ~Expand /\ ~EndTransaction /\ \A v \in todo : ~Walk(v)
  BY DEF Expand, EndTransaction, Walk
<1> QED
  BY <1>1, <1>2, <1>3, <1>4, <1>5, <1>6, <1>7, <1>8 DEF Next, Statement

\* Both searches answer exactly, whatever is loaded while they run (postgres.py:5117-5144 and
\* 5595-5598): a path that is found is a walk over edges of the call, within the cap and no longer
\* than any path that was there all the time; none is missed that was; and no vertex that Explore
\* leaves out was nearer, all the time, than one that it returns.
THEOREM SearchesAreExact == Spec => []AnswerExact
<1>1. Init => SearchInv /\ AnswerExact
  BY SearchInit, ExactInit
<1>2. SearchInv /\ AnswerExact /\ [Next]_vars => (SearchInv /\ AnswerExact)'
  BY SearchStep, ExactStep
<1> QED
  BY <1>1, <1>2, PTL DEF Spec
=============================================================================
