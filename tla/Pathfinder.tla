----------------------------- MODULE Pathfinder -----------------------------
(***************************************************************************)
(* graph.find_shortest_path and graph.explore_traversal, called by one     *)
(* session.  Both are VOLATILE PL/pgSQL, so under READ COMMITTED every     *)
(* statement of theirs sees the edges committed when it starts: a loader   *)
(* may commit between any two of them.  A statement that reads edges is an *)
(* action; one that reads only the session's own rows is part of the       *)
(* action before it.                                                       *)
(*                                                                         *)
(* An edge is the pair of its ends: the ten relations are walked in both   *)
(* directions.  graph.vertex_degree is refreshed at other times than the   *)
(* edges, if ever, so the side and the vertex it makes the search prefer   *)
(* are any.  So is the order of keys.                                      *)
(***************************************************************************)
EXTENDS Naturals, Sequences, FiniteSets

CONSTANTS
  Vertex,
  Listed,       \* artists, labels, genres and styles: what Explore answers
  Edge,         \* the edges a loader may write
  Asked,        \* the vertices callers ask about
  Depths, Hops, Limits,     \* the other arguments they pass
  Null,
  MaxChanges    \* bound: edges written after the first call

PATH_MIN_DEPTH == 1
PATH_MAX_DEPTH == 10
PATH_DEFAULT_DEPTH == 6
EXPLORE_MIN_HOPS == 1
EXPLORE_MAX_HOPS == 3
EXPLORE_DEFAULT_HOPS == 2

ASSUME GraphAssumption ==
  /\ Edge \subseteq {{u, v} : u, v \in Vertex}
  /\ Listed \subseteq Vertex /\ Asked \subseteq Vertex /\ IsFiniteSet(Vertex)
ASSUME ArgumentAssumption ==
  /\ Depths \cup Hops \subseteq Nat \cup {Null} /\ Null \notin Nat
  /\ Limits \subseteq Nat /\ MaxChanges \in Nat

VARIABLES
  edges,      \* committed edges
  changes,    \* edges written so far
  seen,       \* graph_path_seen, the session's temporary table
  call,       \* the running or last call
  pc,         \* where it is
  complete,   \* the depth to which each side is complete
  side,       \* the side whose level is being expanded
  todo,       \* the vertices of that level still to expand
  at,         \* the one being expanded
  answer,     \* what the last call returned
  ever, always    \* edges committed at some time, at every time, of the call

graph == <<edges, changes, ever, always>>
vars == <<edges, changes, seen, call, pc, complete, side, todo, at, answer, ever, always>>

Sides == {0, 1}
Seen == [side : Sides, vertex : Vertex, depth : Nat, parent : Vertex \cup {Null}]
Calls == [kind : {"path"}, from : Vertex, to : Vertex, cap : PATH_MIN_DEPTH..PATH_MAX_DEPTH]
           \cup [kind : {"explore"}, from : Vertex, cap : EXPLORE_MIN_HOPS..EXPLORE_MAX_HOPS,
                 limit : Nat]

Running == pc \notin {"idle", "answered"}
Fresh == [s \in Sides |-> 0]
NotFound == [found |-> FALSE, depth |-> Null, nodes |-> Null]
Neighbours(v) == {w \in Vertex : {v, w} \in edges}
Rows(s) == {r \in seen : r.side = s}
SeenBy(s) == {r.vertex : r \in Rows(s)}
RowOf(s, v) == CHOOSE r \in Rows(s) : r.vertex = v
Frontier(s) == {r.vertex : r \in {x \in Rows(s) : x.depth = complete[s]}}
Discovered == {r \in Rows(0) : r.depth > 0 /\ r.vertex \in Listed}

\* The way back from v along the parents: v first, the end of its side last.
Trace(s, v) ==
  LET up[n \in 0..RowOf(s, v).depth] == IF n = 0 THEN v ELSE RowOf(s, up[n - 1]).parent
  IN  [i \in 1..RowOf(s, v).depth + 1 |-> up[i - 1]]
Reversed(path) == [i \in 1..Len(path) |-> path[Len(path) + 1 - i]]

Clamped(n, low, high, default) ==
  LET asked == IF n = Null THEN default ELSE n
  IN  IF asked < low THEN low ELSE IF asked > high THEN high ELSE asked

-----------------------------------------------------------------------------
Start(s, v) == [side |-> s, vertex |-> v, depth |-> 0, parent |-> Null]

\* Both functions DELETE the rows an earlier call of the transaction left.
\* Mutant: only ON COMMIT DELETE ROWS empties the table.
KeepRows(rows) == seen' = seen \cup {r \in rows : r.vertex \notin SeenBy(r.side)}
Fill(rows) == seen' = rows

Begin(c, rows) ==
  /\ ~Running
  /\ call' = c
  /\ Fill(rows)
  /\ complete' = Fresh /\ side' = 0 /\ todo' = {} /\ at' = Null
  /\ ever' = edges /\ always' = edges
  /\ UNCHANGED <<edges, changes>>

Return(a) == pc' = "answered" /\ answer' = a

\* find_shortest_path up to its loop.
FindShortestPath(from, to, max) ==
  /\ LET cap == Clamped(max, PATH_MIN_DEPTH, PATH_MAX_DEPTH, PATH_DEFAULT_DEPTH)
         c == [kind |-> "path", from |-> from, to |-> to, cap |-> cap]
     IN  IF from = to
         THEN Begin(c, {}) /\ Return([found |-> TRUE, depth |-> 0, nodes |-> <<from>>])
         ELSE /\ Begin(c, {Start(0, from), Start(1, to)})
              /\ pc' = "level" /\ UNCHANGED answer

\* A level starts: which side, and its frontier.
StartLevel ==
  /\ pc = "level" /\ call.kind = "path"
  /\ IF complete[0] + complete[1] >= call.cap \/ \E s \in Sides : Frontier(s) = {}
     THEN Return(NotFound) /\ UNCHANGED <<side, todo>>
     ELSE /\ side' \in Sides
          /\ todo' = Frontier(side')
          /\ pc' = "probe" /\ UNCHANGED answer
  /\ UNCHANGED <<graph, seen, call, complete, at>>

Opposite == SeenBy(1 - side)

\* The path from the source to the target through the touch of v and w.
Joined(v, w) ==
  LET head == IF side = 0 THEN Trace(0, v) ELSE Trace(0, w)
      tail == IF side = 0 THEN Trace(1, w) ELSE Trace(1, v)
  IN  Reversed(head) \o tail

Touch(v, w) ==
  Return([found |-> TRUE, nodes |-> Joined(v, w),
          depth |-> complete[side] + 1 + RowOf(1 - side, w).depth])

\* Does the next vertex have a neighbour the other side has seen?
Probe(v) ==
  /\ pc = "probe" /\ v \in todo
  /\ LET hits == Neighbours(v) \cap Opposite IN
       IF hits = {}
       THEN /\ at' = v /\ pc' = "expand"
            /\ UNCHANGED answer
       ELSE (\E w \in hits : Touch(v, w)) /\ UNCHANGED at
  /\ UNCHANGED <<graph, seen, call, complete, side, todo>>

\* Mutant: no ON CONFLICT, and no key to conflict with.
ReachedAgain(v) ==
  {[side |-> side, vertex |-> w, depth |-> complete[side] + 1, parent |-> v] : w \in Neighbours(v)}
Reached(v) ==
  {[side |-> side, vertex |-> w, depth |-> complete[side] + 1, parent |-> v] :
     w \in Neighbours(v) \ SeenBy(side)}

\* Mutant: the depth of the side is not advanced.
StayAtLevel == UNCHANGED complete
\* The level is over when its last vertex has been expanded.
FinishLevel == complete' = [complete EXCEPT ![side] = @ + 1]

\* INSERT ... ON CONFLICT DO NOTHING of its neighbours.
Expand ==
  /\ pc = "expand"
  /\ seen' = seen \cup Reached(at)
  /\ todo' = todo \ {at}
  /\ IF todo' = {}
     THEN FinishLevel /\ pc' = "level"
     ELSE pc' = "probe" /\ UNCHANGED complete
  /\ UNCHANGED <<graph, call, side, at, answer>>

-----------------------------------------------------------------------------
(* explore_traversal.  A limit that is NULL or negative is refused before  *)
(* anything is read.                                                       *)

\* The nearest rows of those discovered; ties are cut by the order of keys.
Nearest(rows, limit) ==
  {R \in SUBSET rows :
     /\ Cardinality(R) = IF Cardinality(rows) < limit THEN Cardinality(rows) ELSE limit
     /\ \A r \in R, q \in rows \ R : r.depth <= q.depth}
Answered(R) == {[depth |-> r.depth, nodes |-> Reversed(Trace(0, r.vertex))] : r \in R}

Explore(from, hops, limit) ==
  LET cap == Clamped(hops, EXPLORE_MIN_HOPS, EXPLORE_MAX_HOPS, EXPLORE_DEFAULT_HOPS)
      c == [kind |-> "explore", from |-> from, cap |-> cap, limit |-> limit]
  IN  /\ Begin(c, {Start(0, from)})
      /\ IF limit = 0
         THEN Return([listed |-> {}])
         ELSE pc' = "level" /\ UNCHANGED answer

ReturnNearest == \E R \in Nearest(Discovered, call.limit) : Return([listed |-> Answered(R)])

\* The next depth, or the answer.
StartDepth ==
  /\ pc = "level" /\ call.kind = "explore"
  /\ IF complete[0] = call.cap
     THEN ReturnNearest /\ UNCHANGED <<complete, side, todo>>
     ELSE /\ side' = 0 /\ todo' = Frontier(0)
          /\ IF todo' = {}
             THEN complete' = [complete EXCEPT ![0] = @ + 1] /\ UNCHANGED pc
             ELSE pc' = "walk" /\ UNCHANGED complete
          /\ UNCHANGED answer
  /\ UNCHANGED <<graph, seen, call, at>>

\* Mutant: the limit counts every vertex that was reached.
EnoughReached == Cardinality(seen') > call.limit
Enough == Cardinality(Discovered') >= call.limit

\* One vertex is expanded; the walk ends when enough has been discovered.
Walk(v) ==
  /\ pc = "walk" /\ v \in todo
  /\ seen' = seen \cup Reached(v)
  /\ todo' = todo \ {v}
  /\ IF Enough
     THEN pc' = "nearest" /\ UNCHANGED complete
     ELSE IF todo' = {}
          THEN FinishLevel /\ pc' = "level"
          ELSE UNCHANGED <<pc, complete>>
  /\ UNCHANGED <<graph, call, side, at, answer>>

AnswerEarly ==
  /\ pc = "nearest"
  /\ ReturnNearest
  /\ UNCHANGED <<graph, seen, call, complete, side, todo, at>>
-----------------------------------------------------------------------------
Init ==
  /\ edges \in SUBSET Edge /\ changes = 0
  /\ ever = edges /\ always = edges
  /\ seen = {} /\ complete = Fresh /\ side = 0 /\ todo = {} /\ at = Null
  /\ call \in {[kind |-> "explore", from |-> v, cap |-> EXPLORE_MIN_HOPS, limit |-> 0] : v \in Asked}
  /\ pc = "idle" /\ answer = NotFound

\* A loader commits an edge, or the removal of one.
Load(e) ==
  /\ changes < MaxChanges
  /\ changes' = changes + 1
  /\ edges' = IF e \in edges THEN edges \ {e} ELSE edges \cup {e}
  /\ IF Running
     THEN ever' = ever \cup edges' /\ always' = always \cap edges'
     ELSE UNCHANGED <<ever, always>>
  /\ UNCHANGED <<seen, call, pc, complete, side, todo, at, answer>>

\* The transaction ends, by COMMIT, by an error or by a cancelled call: ON
\* COMMIT DELETE ROWS, or the rollback of the rows.
EndTransaction ==
  /\ pc # "idle"
  /\ pc' = "idle"
  /\ seen' = {} /\ complete' = Fresh /\ side' = 0 /\ todo' = {} /\ at' = Null
  /\ answer' = NotFound
  /\ UNCHANGED <<graph, call>>

Call ==
  \/ \E from, to \in Asked, max \in Depths : FindShortestPath(from, to, max)
  \/ \E from \in Asked, hops \in Hops, limit \in Limits : Explore(from, hops, limit)

Statement ==
  \/ StartLevel \/ (\E v \in todo : Probe(v)) \/ Expand
  \/ StartDepth \/ (\E v \in todo : Walk(v)) \/ AnswerEarly

Next == Call \/ Statement \/ EndTransaction \/ \E e \in Edge : Load(e)

Spec == Init /\ [][Next]_vars

\* A running call is given its turn; nobody has to call, load or end a
\* transaction.
Fairness == WF_vars(Statement)
FairSpec == Spec /\ Fairness

-----------------------------------------------------------------------------
(* Properties.                                                             *)

TypeOK ==
  /\ edges \in SUBSET Edge /\ changes \in 0..MaxChanges
  /\ ever \in SUBSET Edge /\ always \in SUBSET ever
  /\ seen \in SUBSET Seen
  /\ \A r, q \in seen : r.side = q.side /\ r.vertex = q.vertex => r = q
  /\ call \in Calls
  /\ pc \in {"idle", "level", "probe", "expand", "walk", "nearest", "answered"}
  /\ complete \in [Sides -> 0..PATH_MAX_DEPTH]
  /\ side \in Sides /\ todo \in SUBSET Vertex /\ at \in Vertex \cup {Null}

\* Vertices at most n hops from v.
Within(E, v, n) ==
  LET ball[i \in 0..n] ==
        IF i = 0 THEN {v}
                 ELSE ball[i - 1] \cup {w \in Vertex : \E u \in ball[i - 1] : {u, w} \in E}
  IN  ball[n]

\* A walk of the given length over edges that were committed during the call.
IsWalk(nodes, depth, from, to) ==
  /\ Len(nodes) = depth + 1
  /\ nodes[1] = from /\ nodes[depth + 1] = to
  /\ \A i \in 1..depth : {nodes[i], nodes[i + 1]} \in ever

\* The first touch of a path search is exact (postgres.py:5117-5144).  While the edges stay as
\* they are, the answer is the distance, and none is a distance above the cap;
\* if a loader commits meanwhile, the answer is still a walk over edges that
\* were there during the call, and no longer than any path that was there all
\* the time.
PathExact ==
  pc = "answered" /\ call.kind = "path" =>
    IF answer.found
    THEN /\ answer.depth <= call.cap
         /\ IsWalk(answer.nodes, answer.depth, call.from, call.to)
         /\ \A n \in 0..call.cap : n < answer.depth => call.to \notin Within(always, call.from, n)
    ELSE call.to \notin Within(always, call.from, call.cap)

\* Explore stops as soon as it has discovered enough, and no vertex it leaves
\* out is nearer than one it returns (postgres.py:5595-5598): each comes once,
\* with a walk no longer than its distance, and a vertex within the hops is
\* left out only for as many others at most as far.
NearestFirst ==
  pc = "answered" /\ call.kind = "explore" =>
    LET end(a) == a.nodes[Len(a.nodes)]
        others == Listed \ {call.from}
        near(n) == Within(always, call.from, n) \cap others
    IN  /\ Cardinality(answer.listed) <= call.limit
        /\ \A a, b \in answer.listed : end(a) = end(b) => a = b
        /\ \A a \in answer.listed :
             /\ a.depth \in 1..call.cap /\ end(a) \in others
             /\ IsWalk(a.nodes, a.depth, call.from, end(a))
             /\ end(a) \notin near(a.depth - 1)
        /\ \A n \in 1..call.cap : \A v \in near(n) \ {end(a) : a \in answer.listed} :
             /\ Cardinality(answer.listed) = call.limit
             /\ \A a \in answer.listed : a.depth <= n

\* Both searches answer exactly, whatever earlier calls left in the session's seen relation.
AnswerExact == PathExact /\ NearestFirst

\* Whatever a loader commits, a call ends: its levels are capped and each
\* frontier is what was seen when the level began.
CallsEnd == Running ~> ~Running
=============================================================================
