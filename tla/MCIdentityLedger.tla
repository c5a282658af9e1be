-------------------------- MODULE MCIdentityLedger --------------------------
(* Two releases and two works, and one external id of each kind, the release's *)
(* held or not yet.                                                            *)
EXTENDS IdentityLedger, TLC
CONSTANTS r1, r2, w1, w2, k1, m1
TwoReleases == {r1, r2}
TwoWorks == {w1, w2}
OneKey == {k1}
OneMaster == {m1}
HeldOrNot == {k1 :> i @@ m1 :> w1 : i \in {r1, NoItem}}
=============================================================================
