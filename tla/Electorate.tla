---------------------------- MODULE Electorate ----------------------------
(***************************************************************************)
(* Who would get which vote weight if an electoral register were made now: *)
(* ElectoralRegisterPolicy.get_voters of every policy, over the roles,     *)
(* groups, delegations, transfers and active users it reads, and the       *)
(* requests that change those.  PollVoting takes it from there.            *)
(*                                                                         *)
(* No row is locked.  A request that validates what it has read and saves  *)
(* a full row later is begun in one step and finished in another; at most  *)
(* one is in flight, the others commit in the step they read in.           *)
(***************************************************************************)
EXTENDS Integers, FiniteSets, FiniteSetsExt, SequencesExt, Functions

CONSTANTS
    UserOrder,    \* the users, in the order of their primary keys
    GroupOrder,   \* the groups, in the order the database returns them
    SKRGroup,     \* the group with groupid "skr"
    PairsOf,      \* under each policy that is explored, the memberships that are:
                  \* pairs of group and user
    MaxVotes,     \* bound on MeetingGroup.votes
    NoGroup,      \* delegate_to = None
    Nobody        \* no VoteTransfer row

VARIABLES
    policy,   \* Meeting.er_policy_name; the meeting's dialect locks it
    db,       \* the tables
    req       \* what the request in flight has read and will write

vars == <<policy, db, req>>

Policies == DOMAIN PairsOf
Pairs == PairsOf[policy]
Users == IF Pairs = {} THEN ToSet(UserOrder) ELSE {p[2] : p \in Pairs}
Groups == ToSet(GroupOrder)
Idle == [kind |-> "idle"]

\* GroupRole rows the dialect that names the policy installs; each of them
\* carries potential_voter.
RolesOf(name) ==
    CASE name = "gv_auto_before_p" -> {"leader"}
      [] name \in {"main_subst_active", "main_subst_delegate"} -> {"main", "substitute"}
      [] name = "skk_kfum" -> {"del_2", "del_1", "suppleant"}
      [] OTHER -> {}

\* What the policy reads.  The requests that change other tables are left out.
Reads ==
    [name \in Policies |->
        CASE name \in {"auto_before_poll", "manual_trigger"} -> {"voters", "active"}
          [] name = "group_auto_eq_rnd_bf" -> {"voters", "groups", "votes", "delegations"}
          [] name = "gv_auto_before_p" -> {"voters", "groups", "votes", "shares"}
          [] name = "main_subst_active" -> {"groups", "votes", "active"}
          [] name = "main_subst_delegate" -> {"groups", "transfers"}
          [] name = "skk_kfum" -> {"voters", "groups", "votes"}
          [] name = "skr_agarrad" -> {"groups", "delegations", "active"}
          [] OTHER -> {"voters"}]

ASSUME ElectorateAssumption ==
    /\ UserOrder \in Seq(ToSet(UserOrder)) /\ IsInjective(UserOrder)
    /\ GroupOrder \in Seq(ToSet(GroupOrder)) /\ IsInjective(GroupOrder)
    /\ SKRGroup \in Groups /\ NoGroup \notin Groups /\ Nobody \notin ToSet(UserOrder)
    /\ \A name \in Policies : PairsOf[name] \subseteq Groups \X ToSet(UserOrder)
    /\ MaxVotes \in Nat \ {0}

\* here: MeetingRoles rows; voters: those with potential_voter; role: the role
\* of each membership, "out" without one and "none" with role = None; share:
\* GroupMembership.votes and votes: MeetingGroup.votes, 0 for None; to:
\* delegate_to; transfer: the target of each source; active: the ActiveUser
\* rows, oldest first; activeOn: whether the component is enabled.
Init ==
    /\ policy \in Policies
    /\ db = [here |-> Users, voters |-> Users,
             role |-> [p \in Pairs |-> "out"], share |-> [p \in Pairs |-> 0],
             votes |-> [g \in Groups |-> 0], to |-> [g \in Groups |-> NoGroup],
             transfer |-> [u \in Users |-> Nobody],
             active |-> <<>>, activeOn |-> FALSE]
    /\ req = Idle

-----------------------------------------------------------------------------
(* The policies.  Each returns the weights of the voters.                  *)

\* Where x is in the sequence q, and which of the xs comes first and last in it.
Position(q, x) == CHOOSE i \in DOMAIN q : q[i] = x
FirstIn(q, xs) == CHOOSE x \in xs : \A y \in xs : Position(q, x) <= Position(q, y)
LastIn(q, xs) == CHOOSE x \in xs : \A y \in xs : Position(q, y) <= Position(q, x)

Equal(us, w) == [u \in us |-> w]
Active(s) == IF s.activeOn THEN ToSet(s.active) ELSE Users
Members(s, g) == {u \in Users : <<g, u>> \in Pairs /\ s.role[<<g, u>>] # "out"}

\* AutoBeforePoll, ManualTrigger and AutoAlways (which reads no active users).
PotentialVoters(s) == Equal(s.voters \cap Active(s), 1)

\* The seeded shuffle gives the votes that are left to some n of the users.
Shuffled(us, n) == CHOOSE some \in SUBSET us : Cardinality(some) = n

Delegated(s, g) == {h \in Groups : s.to[h] = g}

\* Groups that delegate their votes have none.
KeepVotes(s) == {g \in Groups : s.to[g] = NoGroup}

\* calc_group_votes_equal
GroupVotesEqual(s) ==
    LET votes(g) == SumFunctionOnSet(s.votes, {g} \cup Delegated(s, g))
        entitled(g) == Members(s, g) \cap s.voters \cap Active(s)
        groups == {g \in KeepVotes(s) : votes(g) > 0 /\ entitled(g) # {}}
        lucky(g) == Shuffled(entitled(g), votes(g) % Cardinality(entitled(g)))
        from(g, u) == IF u \notin entitled(g) THEN 0
                      ELSE (votes(g) \div Cardinality(entitled(g)))
                           + (IF u \in lucky(g) THEN 1 ELSE 0)
    IN [u \in UNION {entitled(g) : g \in groups} |->
            SumFunction([g \in groups |-> from(g, u)])]

TotalVotes(s) == SumFunction(s.votes)

\* GroupVotesBeforePoll.get_voters as it counts.
MemberShares(s) ==
    LET given(u) == {p \in Pairs : /\ p[2] = u /\ s.share[p] > 0
                                   /\ s.role[p] # "out" /\ s.votes[p[1]] > 0}
    IN [u \in {v \in s.voters : given(v) # {}} |->
            SumFunctionOnSet(s.share, given(u))]

\* The memberships with a role in the groups that have votes.
Candidates(s, role, entitled) ==
    {p \in Pairs : s.role[p] = role /\ s.votes[p[1]] > 0 /\ p[2] \in entitled}

\* SKKFum.iterate_and_pick_voters, and the loop of MainSubstActivePolicy.
Pick(left, p) ==
    IF p[2] \in left.picked \/ left.power[p[1]] = 0 THEN left
    ELSE [power |-> [left.power EXCEPT ![p[1]] = @ - 1], picked |-> left.picked \cup {p[2]}]

\* The last of the pairs by group and then by user.
LastPair(order, pairs) ==
    LET g == LastIn(GroupOrder, {p[1] : p \in pairs})
    IN <<g, LastIn(order, {p[2] : p \in {q \in pairs : q[1] = g}})>>

\* Picks from the pairs, by group and then in the order of the users.
PickAll(power, picked, order, pairs) ==
    MapThenFoldSet(LAMBDA p, left : Pick(left, p), [power |-> power, picked |-> picked],
                   LAMBDA p : p, LAMBDA ps : LastPair(order, ps), pairs)

\* Mutant: substitutes are picked before the others.
MainOrSubstituteSwapped(s) ==
    LET order == IF s.activeOn THEN s.active ELSE UserOrder
        able == IF s.activeOn THEN ToSet(s.active) ELSE s.here
        main == PickAll(s.votes, {}, order, Candidates(s, "substitute", able))
        all == PickAll(main.power, main.picked, order, Candidates(s, "main", able))
    IN Equal(all.picked, 1)

\* MainSubstActivePolicy.get_voters: in the order users became active.
MainOrSubstitute(s) ==
    LET order == IF s.activeOn THEN s.active ELSE UserOrder
        able == IF s.activeOn THEN ToSet(s.active) ELSE s.here
        main == PickAll(s.votes, {}, order, Candidates(s, "main", able))
        all == PickAll(main.power, main.picked, order, Candidates(s, "substitute", able))
    IN Equal(all.picked, 1)

\* SKKFum.get_voters: both votes of the delegates, then those of the
\* substitutes.
Fullmaktige(s) ==
    LET pairs(role) == Candidates(s, role, s.voters \cap Active(s))
        p1 == PickAll(s.votes, {}, UserOrder, pairs("del_2"))
        p2 == PickAll(p1.power, p1.picked, UserOrder, pairs("del_1"))
        s1 == PickAll(p2.power, {}, UserOrder, pairs("del_2"))
        s2 == PickAll(s1.power, s1.picked, UserOrder, pairs("del_1"))
        p3 == PickAll(s2.power, p2.picked, UserOrder, pairs("suppleant"))
        s3 == PickAll(p3.power, s2.picked, UserOrder, pairs("suppleant"))
    IN [u \in p3.picked \cup s3.picked |-> IF u \in s3.picked THEN 2 ELSE 1]

Mains(s) == {u \in Users : \E g \in Groups : <<g, u>> \in Pairs /\ s.role[<<g, u>>] = "main"}

\* MainSubstDelegatePolicy.get_voters
MainOrDelegate(s) ==
    LET away == {u \in Mains(s) : s.transfer[u] # Nobody}
    IN Equal((Mains(s) \ away) \cup {s.transfer[u] : u \in away}, 1)

\* SKRAgarradERP: one vote per group and per group that delegates to it, for its
\* first member; the last of several groups of a user counts.
FirstMembers(s) ==
    LET present(g) == Members(s, g) \cap Active(s)
        voting == {g \in Groups \ {SKRGroup} : s.to[g] = NoGroup /\ present(g) # {}}
        voter(g) == FirstIn(UserOrder, present(g))
        last(u) == LastIn(GroupOrder, {g \in voting : voter(g) = u})
    IN [u \in {voter(g) : g \in voting} |-> Cardinality(Delegated(s, last(u))) + 1]

SKRUser(s) == FirstIn(UserOrder, Members(s, SKRGroup))

\* SKRAgarradERP.get_voters: the group skr has one vote less than all others, and
\* two for each group that delegates to it.
Agarrad(s) ==
    LET others == FirstMembers(s)
        more == SumFunction(others) + 2 * Cardinality(Delegated(s, SKRGroup)) - 1
    IN IF Members(s, SKRGroup) = {} THEN others
       ELSE [u \in DOMAIN others \cup {SKRUser(s)} |->
                IF u = SKRUser(s) THEN more ELSE others[u]]

Voters(s) ==
    CASE policy = "group_auto_eq_rnd_bf" -> GroupVotesEqual(s)
      [] policy = "gv_auto_before_p" -> MemberShares(s)
      [] policy = "main_subst_active" -> MainOrSubstitute(s)
      [] policy = "main_subst_delegate" -> MainOrDelegate(s)
      [] policy = "skk_kfum" -> Fullmaktige(s)
      [] policy = "skr_agarrad" -> Agarrad(s)
      [] OTHER -> PotentialVoters(s)

\* get_voters raises ElectoralRegisterError.
Refused(s) ==
    \/ policy = "gv_auto_before_p" /\ SumFunction(MemberShares(s)) > TotalVotes(s)
    \/ /\ policy = "skr_agarrad" /\ Members(s, SKRGroup) # {}
       /\ SKRUser(s) \in DOMAIN FirstMembers(s)

-----------------------------------------------------------------------------
(* What the handlers of a change do inside its transaction.                *)

\* q when those in us are taken out.
Without(q, us) ==
    LET left[n \in 0..Len(q)] ==
            IF n = 0 THEN <<>>
            ELSE IF q[n] \in us THEN left[n - 1] ELSE Append(left[n - 1], q[n])
    IN left[Len(q)]

Granted(s, u) == [s EXCEPT !.here = @ \cup {u}, !.voters = @ \cup {u}]

\* clear_gm_votes_when
PotentialVoterTaken(s, u) ==
    [s EXCEPT !.voters = @ \ {u},
              !.share = [p \in Pairs |-> IF /\ p[2] = u /\ u \in s.voters
                                            /\ policy = "gv_auto_before_p"
                                         THEN 0 ELSE @[p]]]

DropTransfers(s, sources) ==
    [s EXCEPT !.transfer = [u \in Users |-> IF u \in sources THEN Nobody ELSE @[u]]]

\* group_role_added: the roles it carries, and check_role_added.
RoleAdded(s, u, r) ==
    LET received == {v \in Users : s.transfer[v] = u}
    IN DropTransfers(Granted(s, u), IF r = "main" THEN received ELSE {})

InGroupAs(s, g, u, r) == <<g, u>> \in Pairs /\ s.role[<<g, u>>] = r

\* group_role_removed: roles that no other group gives, and check_role_removed.
RoleRemoved(s, g, u, r) ==
    LET elsewhere == \E h \in Groups \ {g} : \E o \in RolesOf(policy) : InGroupAs(s, h, u, o)
        kept == IF elsewhere THEN s ELSE PotentialVoterTaken(s, u)
        given == {u} \cap {v \in Users : s.transfer[v] # Nobody
                                         /\ InGroupAs(s, g, s.transfer[v], "substitute")}
        received == {v \in Users : s.transfer[v] = u /\ InGroupAs(s, g, v, "main")}
    IN DropTransfers(kept, CASE r = "main" -> given
                             [] r = "substitute" -> received
                             [] OTHER -> {})

\* Mutant: the transfers of a user who leaves are kept.
LeftKeepingTransfers(s, u) ==
    LET out == [p \in Pairs |-> IF p[2] = u THEN "out" ELSE s.role[p]]
    IN [PotentialVoterTaken(s, u) EXCEPT
            !.here = @ \ {u}, !.role = out,
            !.share = [p \in Pairs |-> IF p[2] = u THEN 0 ELSE @[p]],
            !.active = Without(@, {u})]

\* The pre_delete handlers of a MeetingRoles row: memberships, transfers and
\* the ActiveUser row go with it.
Left(s, u) ==
    LET out == [p \in Pairs |-> IF p[2] = u THEN "out" ELSE s.role[p]]
        mine == {v \in Users : v = u \/ s.transfer[v] = u}
    IN DropTransfers([PotentialVoterTaken(s, u) EXCEPT
            !.here = @ \ {u}, !.role = out,
            !.share = [p \in Pairs |-> IF p[2] = u THEN 0 ELSE @[p]],
            !.active = Without(@, {u})], mine)

\* adjust_membership_voting_power_when_group_changes
GroupSaved(s, g, votes, to) ==
    LET mine == {p \in Pairs : p[1] = g}
        sum == SumFunctionOnSet(s.share, mine)
        clear == votes = 0 \/ sum = 0 \/ sum > votes
    IN [s EXCEPT !.votes[g] = votes, !.to[g] = to,
                 !.share = [p \in Pairs |-> IF p \in mine /\ clear THEN 0 ELSE @[p]]]

-----------------------------------------------------------------------------
(* Requests that commit in the step they read in.                          *)

Reading(table) == table \in Reads[policy]

\* A commit; a row the request in flight has read may be gone.
Commit(s) ==
    /\ db' = s
    /\ req' = IF \/ req.kind = "member" /\ s.role[req.of] = "out"
                 \/ req.kind = "reassign" /\ s.transfer[req.of] = Nobody
              THEN [req EXCEPT !.lost = TRUE] ELSE req
    /\ UNCHANGED policy

\* MeetingRolesViewSet.add_roles, or joining again.
GivePotentialVoter(u) ==
    /\ Reading("voters") \/ u \notin db.here
    /\ u \notin db.voters
    /\ Commit(Granted(db, u))

TakePotentialVoter(u) ==
    /\ Reading("voters") /\ u \in db.voters
    /\ Commit(PotentialVoterTaken(db, u))

Leave(u) == u \in db.here /\ Commit(Left(db, u))

CreateMembership(p, r) ==
    LET row == [db EXCEPT !.role[p] = r] IN
    /\ Reading("groups") /\ db.role[p] = "out" /\ p[2] \in db.here
    /\ Commit(IF r = "none" THEN row ELSE RoleAdded(row, p[2], r))

DeleteMembership(p) ==
    LET told == IF db.role[p] = "none" THEN db ELSE RoleRemoved(db, p[1], p[2], db.role[p])
    IN /\ db.role[p] # "out"
       /\ Commit([told EXCEPT !.role[p] = "out", !.share[p] = 0])

DeleteTransfer(u) ==
    /\ db.transfer[u] # Nobody
    /\ Commit(DropTransfers(db, {u}))

\* ActiveUserViewSet.active
BecomeActive(u) ==
    /\ Reading("active") /\ db.activeOn /\ u \in db.here
    /\ u \notin ToSet(db.active)
    /\ Commit([db EXCEPT !.active = Append(@, u)])

\* ActiveUserViewSet.active and purge, which asks Connection for the users.
BecomeInactive(us) ==
    /\ db.activeOn /\ us # {}
    /\ Commit([db EXCEPT !.active = Without(@, us)])

\* The active_users component is enabled or disabled; the rows stay.
ToggleActive ==
    /\ Reading("active")
    /\ Commit([db EXCEPT !.activeOn = ~@])

-----------------------------------------------------------------------------
(* Requests that save what they validated earlier.                         *)

Begin(r) == req = Idle /\ req' = r /\ UNCHANGED <<policy, db>>
Finish(kind, s, saves) ==
    /\ req.kind = kind /\ req' = Idle
    /\ db' = IF saves THEN s ELSE db
    /\ UNCHANGED policy

\* MeetingGroupSerializer; validate_delegate_to is a check of what is stored.
MayUpdate(g, votes, to) ==
    \/ Reading("votes") /\ votes # db.votes[g] /\ to = db.to[g]
    \/ /\ Reading("delegations") /\ votes = db.votes[g] /\ to # db.to[g]
       /\ to # NoGroup => to # g /\ db.to[to] = NoGroup /\ Delegated(db, g) = {}

\* MeetingGroupViewSet.update and bulk_create.
UpdateGroup(g, votes, to) ==
    /\ MayUpdate(g, votes, to)
    /\ Commit(GroupSaved(db, g, votes, to))

\* The same, saved later.
BeginGroup(g, votes, to) ==
    /\ Reading("delegations") /\ MayUpdate(g, votes, to)
    /\ Begin([kind |-> "group", of |-> g, votes |-> votes, to |-> to])

FinishGroup == Finish("group", GroupSaved(db, req.of, req.votes, req.to), TRUE)

\* GroupMembershipViewSet.update changes the role or the votes and saves both.
BeginMember(p, r, share) ==
    /\ db.role[p] # "out"
    /\ \/ Reading("groups") /\ r # db.role[p] /\ share = db.share[p]
       \/ Reading("shares") /\ r = db.role[p] /\ share # db.share[p]
    /\ Begin([kind |-> "member", of |-> p, role |-> r, share |-> share,
              old |-> db.role[p], lost |-> FALSE])

\* perform_update: a role that replaces another one is not told of, but a row
\* that was deleted meanwhile is inserted and told of.
FinishMember ==
    LET p == req.of
        row == [db EXCEPT !.role[p] = req.role, !.share[p] = req.share]
        added == req.role # "none" /\ (req.old = "none" \/ req.lost)
        removed == req.role = "none" /\ req.old # "none"
    IN Finish("member",
              CASE added -> RoleAdded(row, p[2], req.role)
                [] removed -> RoleRemoved(row, p[1], p[2], req.old)
                [] OTHER -> row,
              req.lost => db.role[p] = "out")

\* MainAndSubstVT.check, with the transfers other than the source's own.
MayReceive(source, target) ==
    /\ \A u \in Users \ {source} : db.transfer[u] # target
    /\ db.transfer[target] = Nobody
    /\ target \notin Mains(db)
    /\ \E g \in Groups : InGroupAs(db, g, source, "main") /\ InGroupAs(db, g, target, "substitute")

\* VoteTransferSerializer.validate; a source gives its vote away once.
BeginTransfer(source, target) ==
    /\ Reading("transfers") /\ source # target /\ {source, target} \subseteq db.here
    /\ MayReceive(source, target)
    /\ Begin([kind |-> IF db.transfer[source] = Nobody THEN "transfer" ELSE "reassign",
              of |-> source, target |-> target, lost |-> FALSE])

Transferred == [db EXCEPT !.transfer[req.of] = req.target]

\* VoteTransfer.save looks at the meeting's roles again, and the constraint
\* lets a source have one row.
SaveTransfer(inserts) ==
    Finish(req.kind, Transferred,
           /\ {req.of, req.target} \subseteq db.here
           /\ inserts => db.transfer[req.of] = Nobody)

FinishTransfer == req.kind = "transfer" /\ SaveTransfer(TRUE)

\* VoteTransferReassignSerializer; a row that is gone is inserted again.
FinishReassign == req.kind = "reassign" /\ SaveTransfer(req.lost)

\* SetDelegationVotersViewSet.set_delegation_voters
BeginDelegation(g, weights) ==
    /\ Reading("shares") /\ db.votes[g] > 0
    /\ SumFunction(weights) = db.votes[g]
    /\ DOMAIN weights \subseteq Members(db, g) \cap db.voters
    /\ Begin([kind |-> "delegation", of |-> g, weights |-> weights])

\* Rows that are gone are created by update_or_create, without a role.
FinishDelegation ==
    LET given(p) == p[1] = req.of /\ p[2] \in DOMAIN req.weights
        row(p) == IF given(p) THEN req.weights[p[2]] ELSE 0
    IN Finish("delegation",
              [db EXCEPT !.share = [p \in Pairs |-> IF p[1] = req.of THEN row(p) ELSE @[p]],
                         !.role = [p \in Pairs |-> IF given(p) /\ @[p] = "out" THEN "none"
                                                   ELSE @[p]]],
              TRUE)

\* A slow request begins when none is in flight.
BeginNext ==
    /\ req = Idle
    /\ \/ \E u, v \in Users : BeginTransfer(u, v)
       \/ \E p \in Pairs, r \in RolesOf(policy) \cup {"none"}, n \in 0..MaxVotes :
             BeginMember(p, r, n)
       \/ \E g \in Groups :
             \/ \E n \in 0..MaxVotes, h \in Groups \cup {NoGroup} : BeginGroup(g, n, h)
             \/ \E us \in SUBSET Users : \E weights \in [us -> 1..MaxVotes] :
                   BeginDelegation(g, weights)

Next ==
    \/ \E u \in Users :
          \/ GivePotentialVoter(u) \/ TakePotentialVoter(u) \/ Leave(u)
          \/ DeleteTransfer(u) \/ BecomeActive(u)
    \/ \E us \in SUBSET ToSet(db.active) : BecomeInactive(us)
    \/ \E p \in Pairs :
          \/ DeleteMembership(p)
          \/ \E r \in RolesOf(policy) \cup {"none"} : CreateMembership(p, r)
    \/ \E g \in Groups, n \in 0..MaxVotes, h \in Groups \cup {NoGroup} : UpdateGroup(g, n, h)
    \/ ToggleActive
    \/ BeginNext
    \/ FinishGroup \/ FinishMember \/ FinishTransfer \/ FinishReassign \/ FinishDelegation

Spec == Init /\ [][Next]_vars

-----------------------------------------------------------------------------
TypeOK ==
    /\ policy \in Policies
    /\ db.voters \subseteq db.here /\ db.here \subseteq Users
    /\ db.role \in [Pairs -> RolesOf(policy) \cup {"none", "out"}]
    /\ db.share \in [Pairs -> 0..MaxVotes]
    /\ db.votes \in [Groups -> 0..MaxVotes]
    /\ db.to \in [Groups -> Groups \cup {NoGroup}]
    /\ db.transfer \in [Users -> Users \cup {Nobody}]
    /\ ToSet(db.active) \subseteq Users /\ IsInjective(db.active)

\* Whoever gets a vote is a participant, whichever policy, group, delegation or
\* transfer it comes from and whatever requests overlap with the leaving.
VotersAreParticipants == ~Refused(db) => DOMAIN Voters(db) \subseteq db.here

\* Policies that share out votes never share out more than there are: the votes
\* of the groups, one for each main delegate, or one for each group.
WeightWithinVotes ==
    LET weights == Voters(db)
        ordinary == DOMAIN weights \ Members(db, SKRGroup)
    IN ~Refused(db) =>
        CASE policy \in {"group_auto_eq_rnd_bf", "gv_auto_before_p", "main_subst_active",
                         "skk_kfum"} -> SumFunction(weights) <= TotalVotes(db)
          [] policy = "main_subst_delegate" -> SumFunction(weights) <= Cardinality(Mains(db))
          [] policy = "skr_agarrad" ->
                SumFunctionOnSet(weights, ordinary) <= Cardinality(Groups)
          [] OTHER -> TRUE

\* A register holds nobody who may not vote, and no more votes than there are.
RegistersAreSound == TypeOK /\ VotersAreParticipants /\ WeightWithinVotes

\* A main delegate goes without a vote only when the whole group's votes are
\* given to others, and a substitute never votes in the place of a main delegate
\* who could: the order MainSubstActivePolicy promises, whoever is active and
\* whichever groups share members.
MainDelegatesFirst ==
    LET voters == DOMAIN Voters(db)
        main(g) == {u \in Users : InGroupAs(db, g, u, "main")}
        able == IF db.activeOn THEN ToSet(db.active) ELSE db.here
    IN policy = "main_subst_active" =>
        \A g \in Groups :
            main(g) \cap able \subseteq voters \/ Cardinality(voters \cap main(g)) >= db.votes[g]
=============================================================================
