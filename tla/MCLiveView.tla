---------------------------- MODULE MCLiveView ----------------------------
(***************************************************************************)
(* LiveView for TLC: two agenda items with a speaker list each, one of     *)
(* them with a poll on one proposal.                                       *)
(***************************************************************************)
EXTENDS LiveView

CONSTANTS a1, a2, p1, q1

TwoItems == {a1, a2}
OnePoll == {p1}
OneProposal == {q1}
OnePollItem == [p \in {p1} |-> a1]
OnePollProposals == [p \in {p1} |-> {q1}]
OneProposalItem == [q \in {q1} |-> a1]
=============================================================================
