--------------------------- MODULE MCPollVoting ---------------------------
(***************************************************************************)
(* PollVoting for TLC: registers that gain, lose and reweigh voters, and   *)
(* two requests that overlap in any way or not at all.                     *)
(***************************************************************************)
EXTENDS PollVoting, TLC

CONSTANTS u1, u2

MCUsers == {u1, u2}
MCRegisters == {[u \in {} |-> 1], u2 :> 3, (u1 :> 2) @@ (u2 :> 1)}
RequestSymmetry == Permutations(Requests)
=============================================================================
