------------------------ MODULE MCMeetingWorkflow ------------------------
(***************************************************************************)
(* MeetingWorkflow for TLC: one agenda item without speaker lists, and two *)
(* polls that compete for a proposal.                                      *)
(***************************************************************************)
EXTENDS MeetingWorkflow

CONSTANTS a1, a2, p1, p2, q1, q2

\* Two polls on one agenda item that share a proposal.
OneItem == {a1}
SharedPolls == {p1, p2}
SharedProposals == {q1, q2}
SharedPollItem == [p \in {p1, p2} |-> a1]
SharedPollProposals == [p \in {p1, p2} |-> IF p = p1 THEN {q1} ELSE {q1, q2}]
SharedProposalItem == [q \in {q1, q2} |-> a1]
=============================================================================
