--------------------------- MODULE MCMembership ---------------------------
(***************************************************************************)
(* A meeting with one group, one group role that carries the moderator     *)
(* role and the discusser role, which the dialect blocks elsewhere, and    *)
(* one invite.                                                             *)
(***************************************************************************)
EXTENDS Membership, TLC

CONSTANTS u1, i1, r1

MCUsers == {u1}
MCOwner == i1 :> u1
MCGrants == r1 :> {"mo", "di"}
MCOffered == {{"pa"}, {"di"}, {"mo"}}
=============================================================================
