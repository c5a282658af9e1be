---------------------------- MODULE MCGraphUpgrade ----------------------------
(***************************************************************************)
(* The databases an initializer of this release may find: nothing, the      *)
(* views of the first graph schema, the tables of each later release, and   *)
(* what failed upgrades of theirs left half done.                           *)
(***************************************************************************)
EXTENDS GraphUpgrade
LOCAL INSTANCE TLC

Nothing == [is |-> "none", current |-> TRUE, constraints |-> {}, key |-> "none", indexes |-> {},
            function |-> FALSE, extension |-> FALSE, over |-> FALSE]
OldView == [Nothing EXCEPT !.is = "view", !.current = FALSE]
OldTable == [Nothing EXCEPT !.is = "table", !.constraints = {"primary"}]
NotServed(name, states) == {[class |-> name, rel |-> r, copies |-> 0, serving |-> FALSE] : r \in states}
Served(name, states) == {[class |-> name, rel |-> r, copies |-> 1, serving |-> TRUE] : r \in states}

Views == {OldView, [OldView EXCEPT !.over = TRUE]}
MCVintages ==
  UNION {NotServed(name, {Nothing}) : name \in Classes}
  \cup UNION {NotServed(name, Views) : name \in {"genre", "by_artist", "person", "credited_on", "artist"}}
  \cup Served("genre", {OldTable, With(OldTable, "trgm"), [OldTable EXCEPT !.over = TRUE]})
  \cup Served("by_artist", {OldTable, With(OldTable, "reverse")})
  \* v0.6.0: primary keys and btree indexes over free text
  \cup Served("person", {OldTable, With(OldTable, "trgm")})
  \cup Served("credited_on", {OldTable, [OldTable EXCEPT !.indexes = {"reverse", "old_role"}]})
  \* v0.6.1 and v0.6.2: two hashes, no function of both, and the
  \* hash index on the person
  \cup Served("credited_on", {[OldTable EXCEPT !.constraints = {}, !.key = "two_hash",
                                               !.indexes = {"role", "person_hash"}]})
  \cup Served("relationships", {[OldTable EXCEPT !.constraints = {k}, !.indexes = i] :
                                  k \in {"five", "natural"}, i \in {{}, {"mb_rels_source"}}})
  \cup Served("relationships", {[OldTable EXCEPT !.constraints = {"natural"}, !.function = TRUE, !.key = k] :
                                  k \in {"hash", "invalid"}})
  \cup Served("mb_artists", {[OldTable EXCEPT !.current = c, !.over = o] : c \in BOOLEAN, o \in BOOLEAN})
  \cup Served("artists", {[OldTable EXCEPT !.indexes = i] : i \in {{}, {"btree"}, {"hash"}}})
===============================================================================
