------------------------------ MODULE MCLogins ------------------------------
(* Two people share an address and one browser; one of them has a browser   *)
(* of their own as well.  At most one account exists from before.           *)
EXTENDS Logins, TLC

CONSTANTS p1, p2, b1, b2

MCPeople == {p1, p2}
MCBrowsers == {b1, b2}
MCMayUse == {<<b1, p1>>, <<b1, p2>>, <<b2, p1>>}

\* Accounts are told apart by nothing but their rows.
AccountSymmetry == Permutations(Accounts)
=============================================================================
