---------------------------- MODULE MCContents ----------------------------
(***************************************************************************)
(* Contents and Participation for TLC: a participant and a moderator, two  *)
(* of everything.                                                          *)
(***************************************************************************)
EXTENDS Participation

CONSTANTS u, m, t1, t2, p1, p2, q1, q2, tag, l1, l2, g1, g2

MCUsers == {u, m}
MCTexts == {t1, t2}
MCPolls == {p1, p2}
MCProposals == {q1, q2}
MCTags == {tag}
MCLists == {l1, l2}
MCListsOfItem == {l1}
MCWatchers == {u}
MCGroups == {g1, g2}
=============================================================================
