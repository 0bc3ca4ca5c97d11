---------------------------- MODULE Membership ----------------------------
(***************************************************************************)
(* Who belongs to a meeting and with which roles.  Four things write the   *)
(* MeetingRoles rows: moderators, group memberships through the roles they *)
(* carry, invites, and the automatic access policy.  What a row's deletion *)
(* takes with it is spread over signal handlers of five applications.      *)
(*                                                                         *)
(* The tables are the record db.  Operators that take and return such a    *)
(* record are methods that run inside one transaction; an action applies   *)
(* one request.  Requests that decide from a copy they read earlier (role  *)
(* changes, answers to an invite, validated but not yet saved invites) are *)
(* read in one step and committed in another: at most one of them is in    *)
(* flight, everything else may happen in between.                          *)
(*                                                                         *)
(* A moderator outside Users makes the moderators' requests.               *)
(***************************************************************************)
EXTENDS FiniteSets, FiniteSetsExt

CONSTANTS
    Users, Groups,
    GroupRoles,   \* the group roles of the meeting dialect
    Grants,       \* GroupRole.roles: the meeting roles a group role carries
    Blocked,      \* block_roles of the dialect
    Idents,       \* the user_data invites are addressed to
    Owner,        \* the user with that user_data
    Emails,       \* the Idents that are email addresses
    Offered,      \* the sets of roles moderators write in requests
    NoRow,        \* no MeetingRoles row
    NotMember,    \* no GroupMembership row, or no MeetingGroupAnnotation row
    NoRole,       \* a GroupMembership or annotation with role = None
    NoInvite,     \* no MeetingInvite row
    Nobody        \* used_by = None

VARIABLES
    db,      \* the tables
    phase,   \* Meeting.state: upcoming (or ongoing), closed, archived
    req      \* what the request in flight has read

vars == <<db, phase, req>>

Roles == {"pa", "mo", "di"}
InviteStates == {"open", "accepted", "rejected", "revoked", "expired"}

Invites == [state : InviteStates, roles : SUBSET Roles, used_by : Users \cup {Nobody}]

ASSUME MembershipAssumption ==
    /\ Grants \in [GroupRoles -> SUBSET (Roles \ {"pa"})]
    /\ Blocked \subseteq Roles \ {"pa", "mo"}
    /\ Owner \in [Idents -> Users]
    /\ Emails \subseteq Idents
    /\ Offered \subseteq (SUBSET Roles) \ {{}}

ASSUME FiniteAssumption == IsFiniteSet(Users) /\ IsFiniteSet(Groups)

ASSUME NonesAssumption ==
    /\ \A rs \in SUBSET Roles : NoRow # rs
    /\ NoRole \notin GroupRoles
    /\ NotMember \notin GroupRoles \cup {NoRole} \cup Groups \X (GroupRoles \cup {NoRole})
    /\ NoInvite \notin Invites
    /\ Nobody \notin Users

Idle == [kind |-> "idle"]

\* roles: assigned of each MeetingRoles row; lists: who has a role in a speaker
\* system; member: GroupMembership.role; notes: the invites' group annotations;
\* dialect: one that defines GroupRoles and sets group_roles_active.
\* joined and gone are the rows created and deleted: joined by commits whose
\* on_commit handler still has to run, gone by the current transaction.
Init ==
    /\ db = [roles |-> [u \in Users |-> NoRow], lists |-> {},
             member |-> [g \in Groups |-> [u \in Users |-> NotMember]],
             invite |-> [i \in Idents |-> NoInvite],
             notes |-> [i \in Idents |-> [g \in Groups |-> NotMember]],
             dialect |-> FALSE, joined |-> {}, gone |-> {}]
    /\ phase = "upcoming"
    /\ req = Idle

-----------------------------------------------------------------------------
(* Roles.                                                                  *)

\* Roles.get_required_roles: every role requires participant.
Required(rs) == IF rs = {} THEN {} ELSE rs \cup {"pa"}

\* Mutant: only the roles named are removed.
ReverseRequiredSame(rs) == rs

\* Roles.get_reverse_required_roles
ReverseRequired(rs) == IF "pa" \in rs THEN Roles ELSE rs

Assigned(s, u) == IF s.roles[u] = NoRow THEN {} ELSE s.roles[u]
IsModerator(s, u) == "mo" \in Assigned(s, u)
\* MeetingInviteManager._ignore_roles
Ignored(s) == IF s.dialect THEN Blocked ELSE {}

SaveRoles(s, u, rs) ==
    [s EXCEPT !.roles[u] = rs,
              !.joined = IF s.roles[u] = NoRow THEN @ \cup {u} ELSE @]

DropInvites(s, is) ==
    [s EXCEPT !.invite = [i \in Idents |-> IF i \in is THEN NoInvite ELSE @[i]],
              !.notes = [i \in Idents |-> IF i \in is
                                          THEN [g \in Groups |-> NotMember] ELSE @[i]],
              !.gone = @ \cup is]

UsedBy(s, u) == {i \in Idents : s.invite[i] # NoInvite /\ s.invite[i].used_by = u}

\* Mutant: the invites of a user who leaves are kept.
LeftKeepingInvites(s, u) ==
    [s EXCEPT !.roles[u] = NoRow, !.gone = @ \cup {u},
              !.member = [g \in Groups |-> [@[g] EXCEPT ![u] = NotMember]]]

\* The pre_delete handlers of a MeetingRoles row: group memberships and used
\* invites go with it.  The handlers of the memberships find no role to take.
Left(s, u) ==
    LET kept == [s EXCEPT !.roles[u] = NoRow, !.gone = @ \cup {u},
                          !.member = [g \in Groups |-> [@[g] EXCEPT ![u] = NotMember]]]
    IN DropInvites(kept, UsedBy(s, u))

\* Roles.add on a row that was read with the roles base.
AddTo(s, u, base, rs) ==
    IF Required(rs) \subseteq base THEN s ELSE SaveRoles(s, u, base \cup Required(rs))

\* Roles.remove on such a row, with the roles_removed handler that takes the
\* speaker system roles of someone who is no longer a participant.
RemoveFrom(s, u, base, rs) ==
    LET left == base \ ReverseRequired(rs)
        saved == [SaveRoles(s, u, left) EXCEPT
                      !.lists = IF "pa" \in base \ left THEN @ \ {u} ELSE @]
    IN IF left = base THEN s
       ELSE IF left = {} THEN Left(saved, u) ELSE saved

\* Meeting.add_roles, whose get_or_create leaves a row even when rs is empty.
AddRoles(s, u, rs) ==
    LET row == IF s.roles[u] = NoRow THEN SaveRoles(s, u, {}) ELSE s
    IN AddTo(row, u, Assigned(row, u), rs)

\* Meeting.remove_roles
RemoveRoles(s, u, rs) ==
    IF s.roles[u] = NoRow THEN s ELSE RemoveFrom(s, u, s.roles[u], rs)

-----------------------------------------------------------------------------
(* Group memberships.                                                      *)

\* handle_meeting_roles_through_role_added
RoleGranted(s, u, r) == IF Grants[r] = {} THEN s ELSE AddRoles(s, u, Grants[r])

\* handle_meeting_roles_through_removed: what a role in another group still
\* grants stays.
RoleWithdrawn(s, g, u, r) ==
    LET others == {s.member[h][u] : h \in Groups \ {g}} \cap GroupRoles
    IN IF s.dialect
       THEN RemoveRoles(s, u, Grants[r] \ UNION {Grants[o] : o \in others}) ELSE s

\* GroupMembership.objects.create; post_save tells of the role.
AddMembership(s, g, u, r) ==
    LET row == [s EXCEPT !.member[g][u] = r]
    IN IF r = NoRole THEN row ELSE RoleGranted(row, u, r)

\* GroupMembershipViewSet.perform_update: a role that is replaced by another
\* one is neither withdrawn nor granted.
UpdateMembership(s, g, u, r) ==
    LET old == s.member[g][u]
        row == [s EXCEPT !.member[g][u] = r]
    IN CASE old = NoRole /\ r # NoRole -> RoleGranted(row, u, r)
         [] old # NoRole /\ r = NoRole -> RoleWithdrawn(row, g, u, old)
         [] OTHER -> row

\* The pre_delete handler runs first.
DropMembership(s, g, u) ==
    LET old == s.member[g][u]
        told == IF old \in GroupRoles THEN RoleWithdrawn(s, g, u, old) ELSE s
    IN [told EXCEPT !.member[g][u] = NotMember]

\* The memberships and annotations of a group that is deleted cascade.
GroupDropped(s, g) ==
    LET Drop(u, t) == DropMembership(t, g, u)
        members == {u \in Users : s.member[g][u] # NotMember}
    IN [FoldSet(Drop, s, members) EXCEPT
           !.notes = [i \in Idents |-> [@[i] EXCEPT ![g] = NotMember]]]

-----------------------------------------------------------------------------
(* Invites.                                                                *)

\* InviteGroup.accepted, for one annotation.
ApplyNote(s, g, u, r) ==
    LET old == s.member[g][u]
        bare == [s EXCEPT !.member[g][u] = NoRole]
        row(t) == [t EXCEPT !.member[g][u] = r]
    IN CASE old = NotMember -> AddMembership(s, g, u, r)
         [] old \in GroupRoles /\ r = NoRole -> RoleWithdrawn(bare, g, u, old)
         [] old = NoRole /\ r # NoRole -> RoleGranted(row(s), u, r)
         [] old \in GroupRoles /\ r # NoRole /\ old # r ->
               RoleGranted(row(RoleWithdrawn(bare, g, u, old)), u, r)
         [] OTHER -> s

\* InviteStateMachine.accept with after_accept, and the save of the copy.
Accept(s, i, u, copy) ==
    LET noted == {g \in Groups : s.notes[i][g] # NotMember}
        Note(g, t) == ApplyNote(t, g, u, s.notes[i][g])
        applied == FoldSet(Note, AddRoles(s, u, copy.roles), noted)
    IN [applied EXCEPT
            !.invite[i] = [copy EXCEPT !.state = "accepted", !.used_by = u],
            !.notes[i] = [g \in Groups |-> NotMember]]

\* after_reject; the login service rejects for a user it does not name.
Reject(s, i, u, copy) ==
    [s EXCEPT !.invite[i] = [copy EXCEPT !.state = "rejected",
                                         !.used_by = IF u = Nobody THEN @ ELSE u]]

\* MeetingInviteManager._update_assigned_roles: both differences are taken
\* with the roles the user had before.
UpdateAssigned(s, u, rs) ==
    LET current == Assigned(s, u)
        removed == RemoveRoles(s, u, current \ (rs \cup Ignored(s)))
        added == rs \ (current \cup Ignored(s))
    IN IF added = {} THEN removed ELSE AddRoles(removed, u, added)

NewInvite(rs) == [state |-> "open", roles |-> rs, used_by |-> Nobody]

\* MeetingInviteManager.create_or_update_mixed for one recipient.  An invite
\* that went with its user's row is created anew.
CreateOrUpdate(s, i, offered) ==
    LET rs == offered \ Ignored(s)
        inv == s.invite[i]
        reopened == IF inv.state \in {"open", "accepted"} THEN inv.state ELSE "open"
        updated == [s EXCEPT !.invite[i] = [inv EXCEPT !.roles = rs, !.state = reopened]]
        synced == IF inv.used_by = Nobody \/ inv.roles = rs THEN updated
                  ELSE UpdateAssigned(updated, inv.used_by, rs)
    IN IF inv = NoInvite THEN [s EXCEPT !.invite[i] = NewInvite(rs)]
       ELSE IF synced.invite[i] = NoInvite
       THEN [synced EXCEPT !.invite[i] = NewInvite(rs)] ELSE synced

\* InviteGroup.annotate: whoever has used the invite, to accept or to reject
\* it, becomes a member at once; update_or_create signals only what it creates.
Annotate(s, i, g, r) ==
    LET u == s.invite[i].used_by IN
    IF u = Nobody THEN [s EXCEPT !.notes[i][g] = r]
    ELSE IF s.member[g][u] = NotMember THEN AddMembership(s, g, u, r)
    ELSE [s EXCEPT !.member[g][u] = r]

\* The group columns of a row: none, or a group with or without a role.
GroupColumns(s) ==
    {NotMember} \cup Groups \X ({NoRole} \cup (IF s.dialect THEN GroupRoles ELSE {}))

\* A group role that was deleted since the row was validated maps to None.
StoreInvite(s, i, offered, column) ==
    LET row == CreateOrUpdate(s, i, offered)
    IN IF column = NotMember THEN row
       ELSE Annotate(row, i, column[1], IF s.dialect THEN column[2] ELSE NoRole)

\* Mutant: accepted invites are taken to have had their effect.
LockoutByOpenInvites(s, i, offered) ==
    /\ "mo" \notin offered
    /\ s.invite[i] # NoInvite
    /\ s.invite[i].state # "accepted"
    /\ s.invite[i].used_by # Nobody
    /\ IsModerator(s, s.invite[i].used_by)

\* _raise_if_moderator_lockout
Lockout(s, i, offered) ==
    /\ "mo" \notin offered
    /\ s.invite[i] # NoInvite
    /\ s.invite[i].used_by # Nobody
    /\ IsModerator(s, s.invite[i].used_by)

-----------------------------------------------------------------------------
(* Requests that commit in the step they read in.                          *)

NotArchived == phase # "archived"

\* A commit; the request in flight may have lost the row it read.
Commit(s) ==
    /\ db' = [s EXCEPT !.gone = {}]
    /\ req' = IF req # Idle /\ req.of \in s.gone THEN [req EXCEPT !.lost = TRUE] ELSE req
    /\ UNCHANGED phase

\* AutomaticAccessViewSet.join: the only check is that the policy is active.
Join(u) == Commit(AddRoles(db, u, {"pa"}))

\* make_speaker_system_users_participants
AddSystemRole(u) ==
    /\ NotArchived
    /\ Commit(AddRoles([db EXCEPT !.lists = @ \cup {u}], u, {"pa"}))

CreateMembership(g, u, r) ==
    /\ NotArchived /\ db.member[g][u] = NotMember
    /\ "pa" \in Assigned(db, u)
    /\ r = NoRole \/ db.dialect
    /\ Commit(AddMembership(db, g, u, r))

ChangeMembership(g, u, r) ==
    /\ NotArchived /\ db.member[g][u] # NotMember
    /\ r = NoRole \/ db.dialect
    /\ Commit(UpdateMembership(db, g, u, r))

DeleteMembership(g, u) ==
    /\ NotArchived /\ db.member[g][u] # NotMember
    /\ Commit(DropMembership(db, g, u))

\* MeetingGroupViewSet.destroy
DeleteGroup(g) == NotArchived /\ Commit(GroupDropped(db, g))

\* DialectHandler.install
InstallDialect ==
    /\ phase = "upcoming" /\ ~db.dialect
    /\ Commit([db EXCEPT !.dialect = TRUE])

\* DialectHandler.remove: SET_NULL on memberships and annotations sends no
\* signal.
RemoveDialect ==
    LET Bare(r) == IF r \in GroupRoles THEN NoRole ELSE r IN
    /\ phase = "upcoming" /\ db.dialect
    /\ Commit([db EXCEPT
           !.dialect = FALSE,
           !.member = [g \in Groups |-> [u \in Users |-> Bare(@[g][u])]],
           !.notes = [i \in Idents |-> [g \in Groups |-> Bare(@[i][g])]]])

\* import_invites: participant is always among the roles, and the lockout check
\* is inside the transaction.
ImportInvite(i, offered, column) ==
    /\ NotArchived
    /\ ~Lockout(db, i, offered \cup {"pa"})
    /\ Commit(StoreInvite(db, i, offered \cup {"pa"}, column))

\* perform_destroy, bulk_delete and cleanup_invites.
DeleteInvite(i) ==
    /\ db.invite[i] # NoInvite
    /\ Commit(DropInvites(db, {i}))

\* bulk_revoke, and the revoke and expire events of the invite's endpoint.
CloseInvite(i, to) ==
    /\ NotArchived
    /\ db.invite[i] # NoInvite /\ db.invite[i].state = "open"
    /\ Commit([db EXCEPT !.invite[i].state = to])

\* The same endpoint takes accept and reject, in the name of the moderator.
AnswerAsModerator(i, u, answer) ==
    /\ IsModerator(db, u)
    /\ db.invite[i] # NoInvite /\ db.invite[i].state = "open"
    /\ Commit(IF answer = "accept" THEN Accept(db, i, u, db.invite[i])
              ELSE Reject(db, i, u, db.invite[i]))

ClearAnnotations(i) ==
    /\ NotArchived /\ db.invite[i] # NoInvite
    /\ Commit([db EXCEPT !.notes[i] = [g \in Groups |-> NotMember]])

\* expire_unused_invites; the day count is left out.
ExpireUnused ==
    /\ phase = "closed"
    /\ Commit([db EXCEPT !.invite = [i \in Idents |->
           IF @[i] # NoInvite /\ @[i].state = "open"
           THEN [@[i] EXCEPT !.state = "expired"] ELSE @[i]]])

\* InvitesView.add_roles and remove_roles of the token API, and
\* MeetingInvite.change_roles.
TokenChange(i, rs, add) ==
    LET inv == db.invite[i]
        new == IF add THEN inv.roles \cup rs ELSE inv.roles \ ReverseRequired(rs)
        roles == Required(new) \ Ignored(db)
        saved == [db EXCEPT !.invite[i].roles = roles]
    IN /\ inv # NoInvite
       /\ "mo" \notin rs \cup inv.roles
       /\ ~(inv.state = "accepted" /\ IsModerator(db, inv.used_by))
       /\ new # {} /\ Required(new) # inv.roles
       /\ Commit(IF inv.state = "accepted"
                 THEN UpdateAssigned(saved, inv.used_by, roles) ELSE saved)

\* meeting_roles_created runs after the commit that created the row, and
\* auto_use_invite accepts an open invite to the user's email address.
UseInvite(u) ==
    LET told == [db EXCEPT !.joined = @ \ {u}]
        matching == {i \in Emails : /\ Owner[i] = u /\ db.invite[i] # NoInvite
                                    /\ db.invite[i].state = "open"}
    IN /\ u \in db.joined
       /\ IF matching = {} THEN Commit(told)
          ELSE \E i \in matching : Commit(Accept(told, i, u, db.invite[i]))

\* Meeting.close and reopening.
CloseOrReopen ==
    /\ NotArchived
    /\ phase' = IF phase = "closed" THEN "upcoming" ELSE "closed"
    /\ UNCHANGED <<db, req>>

\* archive_meeting: open invites expire.
Archive ==
    /\ phase = "closed" /\ phase' = "archived"
    /\ db' = [db EXCEPT !.invite = [i \in Idents |->
           IF @[i] # NoInvite /\ @[i].state = "open"
           THEN [@[i] EXCEPT !.state = "expired"] ELSE @[i]]]
    /\ UNCHANGED req

-----------------------------------------------------------------------------
(* Requests that commit what they decided from an earlier read.            *)

\* A full row is saved: an update, or an insert when the row is gone, which a
\* unique constraint refuses if there is another one.
MayInsert(row, none) == req.lost => row = none

Begin(r) == req = Idle /\ req' = r /\ UNCHANGED <<db, phase>>

\* Commits s if the save succeeds; the request is over either way.
Finish(s, saves) ==
    /\ db' = IF saves THEN [s EXCEPT !.gone = {}] ELSE db
    /\ req' = Idle
    /\ UNCHANGED phase

\* MeetingRolesViewSet.add_roles and remove_roles.
BeginRoles(kind, u, rs) ==
    /\ NotArchived /\ db.roles[u] # NoRow
    /\ Begin([kind |-> kind, of |-> u, roles |-> rs, copy |-> db.roles[u],
              lost |-> FALSE])

FinishAdd ==
    /\ req.kind = "add"
    /\ Finish(AddTo(db, req.of, req.copy, req.roles), MayInsert(db.roles[req.of], NoRow))

FinishRemove ==
    /\ req.kind = "remove"
    /\ Finish(RemoveFrom(db, req.of, req.copy, req.roles),
              MayInsert(db.roles[req.of], NoRow))

\* get_or_create of a row that is not there is one step.
AddNewcomer(u, rs) ==
    /\ NotArchived /\ db.roles[u] = NoRow
    /\ Commit(AddRoles(db, u, rs))

\* HandleMatchedInvitesViewSet and MatchInvitesViewSet: get_object finds open
\* invites; nothing checks again.
BeginAnswer(i, u, answer) ==
    /\ db.invite[i] # NoInvite /\ db.invite[i].state = "open"
    /\ Begin([kind |-> answer, of |-> i, user |-> u, copy |-> db.invite[i],
              lost |-> FALSE])

FinishAnswer ==
    /\ req.kind \in {"accept", "reject"}
    /\ Finish(IF req.kind = "accept" THEN Accept(db, req.of, req.user, req.copy)
              ELSE Reject(db, req.of, req.user, req.copy),
              MayInsert(db.invite[req.of], NoInvite))

\* ModeratorMeetingField
MayCreate(i, offered) == NotArchived

\* InviteCreateViaTokenSerializer
TokenMayCreate(i, offered) ==
    /\ "mo" \notin offered
    /\ db.invite[i] # NoInvite => "mo" \notin db.invite[i].roles

\* InviteCreateSerializer.validate, for moderators and for the token API.
BeginCreate(i, offered, column) ==
    /\ MayCreate(i, offered) \/ TokenMayCreate(i, offered)
    /\ ~Lockout(db, i, offered)
    /\ Begin([kind |-> "create", of |-> i, roles |-> offered, column |-> column,
              lost |-> FALSE])

\* InviteCreateSerializer.save
FinishCreate ==
    /\ req.kind = "create"
    /\ Finish(StoreInvite(db, req.of, req.roles, req.column), TRUE)

Rollback == req # Idle /\ req' = Idle /\ UNCHANGED <<db, phase>>

-----------------------------------------------------------------------------
Next ==
    \/ \E u \in Users :
          \/ Join(u) \/ AddSystemRole(u) \/ UseInvite(u)
          \/ \E rs \in Offered :
                BeginRoles("add", u, rs) \/ BeginRoles("remove", u, rs) \/ AddNewcomer(u, rs)
          \/ \E g \in Groups : DeleteMembership(g, u)
          \/ \E g \in Groups, r \in GroupRoles \cup {NoRole} :
                CreateMembership(g, u, r) \/ ChangeMembership(g, u, r)
          \/ \E i \in Idents, answer \in {"accept", "reject"} : AnswerAsModerator(i, u, answer)
    \/ \E i \in Idents :
          \/ DeleteInvite(i) \/ ClearAnnotations(i)
          \/ CloseInvite(i, "revoked") \/ CloseInvite(i, "expired")
          \/ BeginAnswer(i, Owner[i], "accept")
          \/ \E u \in {Owner[i], Nobody} : BeginAnswer(i, u, "reject")
          \/ \E rs \in Offered, add \in BOOLEAN : TokenChange(i, rs, add)
          \/ \E rs \in Offered, column \in GroupColumns(db) :
                \/ ImportInvite(i, rs, column)
                \/ BeginCreate(i, rs, column)
    \/ \E g \in Groups : DeleteGroup(g)
    \/ InstallDialect \/ RemoveDialect \/ ExpireUnused \/ CloseOrReopen \/ Archive
    \/ FinishAdd \/ FinishRemove \/ FinishAnswer \/ FinishCreate \/ Rollback

Spec == Init /\ [][Next]_vars

-----------------------------------------------------------------------------
TypeOK ==
    /\ db.roles \in [Users -> (SUBSET Roles) \cup {NoRow}]
    /\ db.lists \subseteq Users
    /\ db.member \in [Groups -> [Users -> GroupRoles \cup {NoRole, NotMember}]]
    /\ db.invite \in [Idents -> Invites \cup {NoInvite}]
    /\ db.notes \in [Idents -> [Groups -> GroupRoles \cup {NoRole, NotMember}]]
    /\ db.dialect \in BOOLEAN
    /\ db.joined \subseteq Users /\ db.gone = {}
    /\ phase \in {"upcoming", "closed", "archived"}

\* Whatever requests overlap, nobody has a role without the participant role
\* it requires, as Roles.add and Roles.remove promise.
RolesAreClosed == \A u \in Users : Required(Assigned(db, u)) = Assigned(db, u)

\* An accepted invite belongs to a participant of the meeting: the invites a
\* user has accepted go when the user leaves, and are not left by a request
\* that overlaps the leaving.
AcceptedMeansMember ==
    \A i \in Idents :
        db.invite[i] # NoInvite /\ db.invite[i].state = "accepted" =>
            db.roles[db.invite[i].used_by] # NoRow

\* Only participants have roles in the meeting's speaker systems.
SystemRoleNeedsParticipant == \A u \in db.lists : "pa" \in Assigned(db, u)

\* What is left of an accepted invite is no unprocessed annotation, which
\* nothing would ever apply.
AcceptedIsApplied ==
    \A i \in Idents :
        db.invite[i] # NoInvite /\ db.invite[i].state = "accepted" =>
            \A g \in Groups : db.notes[i][g] = NotMember

\* Every role, in the meeting and in its speaker systems, rests on participation.
RolesRestOnParticipation == TypeOK /\ RolesAreClosed /\ SystemRoleNeedsParticipant

\* An accepted invite is that of a member and has nothing left to apply.
AcceptedInvitesAreDone == AcceptedMeansMember /\ AcceptedIsApplied

\* A group role that carried the moderator role is no longer the user's.
LosesGroupRole(u) ==
    \E g \in Groups : /\ db.member[g][u] \in GroupRoles
                      /\ "mo" \in Grants[db.member[g][u]]
                      /\ db'.member[g][u] # db.member[g][u]

\* Nobody loses the moderator role through an import, the token API's change
\* of roles, an answered invite or a job, unless a group role that carried it
\* goes: otherwise only a request to remove the user's roles takes it, the
\* create endpoint on an invite the user has used, or a request that writes
\* back what it read before the role was given.
ModeratorsKept ==
    [][\A u \in Users :
          IsModerator(db, u) /\ ~IsModerator(db', u) =>
              \/ LosesGroupRole(u)
              \/ FinishRemove /\ req.of = u
              \/ FinishAdd /\ req.of = u /\ "mo" \notin req.copy
              \/ FinishCreate /\ db.invite[req.of].used_by = u]_vars
=============================================================================
