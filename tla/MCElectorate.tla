--------------------------- MODULE MCElectorate ---------------------------
(***************************************************************************)
(* Three users and two groups; one user is in both groups.                 *)
(***************************************************************************)
EXTENDS Electorate

CONSTANTS u1, u2, u3, g1, g2

MCUserOrder == <<u1, u2, u3>>
MCGroupOrder == <<g1, g2>>
Shared == {<<g1, u1>>, <<g1, u2>>, <<g2, u2>>}
MCPairsOf ==
    [name \in {"main_subst_active"} |-> Shared]
    @@ [name \in {"skk_kfum"} |-> {<<g1, u1>>, <<g1, u2>>}]
    @@ [name \in {"gv_auto_before_p"} |-> {<<g1, u1>>, <<g2, u2>>}]
    @@ [name \in {"group_auto_eq_rnd_bf", "skr_agarrad"} |-> Shared \cup {<<g1, u3>>}]
    @@ [name \in {"main_subst_delegate"} |-> {<<g1, u1>>, <<g1, u2>>, <<g1, u3>>}]
    @@ [name \in {"auto_before_poll"} |-> {}]
=============================================================================
