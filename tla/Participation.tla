--------------------------- MODULE Participation ---------------------------
(***************************************************************************)
(* Who takes part in the meeting, on the pages: the speaker system of a    *)
(* room with its lists and speakers, meeting groups with their members and *)
(* group roles, and the active users, vote transfers and electoral         *)
(* registers.  As in Contents each kind has its tables, the requests, the  *)
(* receivers and the collectors, and a behaviour is about one kind.  How   *)
(* a queue is ordered is the subject of SpeakerQueue, what roles follow    *)
(* from a membership that of Membership; here a user joins a queue at the  *)
(* end.                                                                    *)
(***************************************************************************)
EXTENDS Contents

CONSTANTS
    Lists,        \* speaker lists; each is created at most once
    ListsOfItem,  \* the ones of them that belong to the agenda item
    Groups,       \* meeting groups
    GroupVotes,   \* votes a group or a member may be given; 0 stands for none
    Watchers,     \* users who open pages with speakers
    SpeakerRoles, \* roles in a speaker system
    MaxSpeakers   \* speakers at a time, on all lists

VARIABLES
    tbl,     \* the tables of this module
    view     \* per user, what their pages show of them

allVars == <<contentsVars, tbl, view>>

ASSUME ParticipationAssumption ==
    /\ ListsOfItem \subseteq Lists /\ Watchers \subseteq Users
    /\ GroupVotes \subseteq Nat /\ 0 \in GroupVotes /\ MaxSpeakers \in Nat

-----------------------------------------------------------------------------
(* The rows.                                                               *)

SpeakerListSystem ==
    [state : {"active", "inactive", "archived"}, active_list : Lists \cup {NoRow}]
\* The order names who is in the queue or speaks.
SpeakerList == [is_open : BOOLEAN, order : {s \in SeqOf(Users, Cardinality(Users)) : IsInjective(s)}]
\* A finished turn keeps its seconds; a moderator may correct them.
SpeakerPhases == {"queued", "speaking", "spoken", "corrected"}
MeetingGroup == [votes : GroupVotes, delegate_to : Groups \cup {NoRow}]
GroupMembership == [votes : GroupVotes, role : BOOLEAN]

Waiting == {"queued", "speaking"}

ListRow(t, l) == t.lists[l]
SpeakerRow(t, l, u) == t.speakers[<<l, u>>]

Ongoing(t, l) == {u \in Users : SpeakerRow(t, l, u) = "speaking"}
ActiveSpeaker(t, l) == IF Ongoing(t, l) = {} THEN NoRow ELSE CHOOSE u \in Ongoing(t, l) : TRUE

IsActiveList(t, l) == t.system # NoRow /\ t.system.active_list = l

-----------------------------------------------------------------------------
(* Payloads and collectors.                                                *)

\* SpeakerListSerializer; order is the one of the instance it is given.
ListPayload(t, l, order) ==
    [is_open |-> ListRow(t, l).is_open, queue |-> order, current |-> ActiveSpeaker(t, l)]

ListNow(t, l) ==
    IF ListRow(t, l) = NoRow THEN NoRow ELSE ListPayload(t, l, ListRow(t, l).order)

NoLists == [l \in Lists |-> NoRow]
NoSpeakers == [s \in Lists \X Users |-> NoRow]

\* AgendaItemSpeakerLists: lists of an active system only.
AgendaItemSpeakerLists(t) ==
    [l \in Lists |-> IF t.system # NoRow /\ t.system.state = "active" /\ l \in ListsOfItem
                     THEN ListNow(t, l) ELSE NoRow]

\* The speakers of a list.
SpeakerPayloads(t, l) == [u \in Users |-> SpeakerRow(t, l, u)]

\* The list and its speakers, of the room's active list.
ActiveSpeakerList(t) ==
    [lists |-> [l \in Lists |-> IF IsActiveList(t, l) THEN ListNow(t, l) ELSE NoRow],
     speakers |-> [s \in Lists \X Users |->
                      IF IsActiveList(t, s[1]) THEN SpeakerPayloads(t, s[1])[s[2]] ELSE NoRow]]

\* The system of the meeting's room and the user's own roles in it.
SpeakerSystems(c, t) == [system |-> t.system, roles |-> t.roles[c]]

MeetingGroups(t) == [groups |-> t.groups, members |-> t.members]

\* Group roles are collected when the meeting uses them.
MeetingGroupRoles(t) == t.group_roles_active /\ t.group_role

\* ActiveUsersCollector is applicable when the component is enabled.
ActiveUsers(t) == IF t.active_component THEN t.active_users ELSE {}

VoteTransfers(t) == [transfers |-> t.transfers]

LatestElectoralRegister(t) == [register |-> t.register]

MeetingView(c, t) ==
    SpeakerSystems(c, t) @@ MeetingGroups(t) @@ VoteTransfers(t) @@ LatestElectoralRegister(t)
    @@ [group_role |-> MeetingGroupRoles(t), active |-> ActiveUsers(t)]

-----------------------------------------------------------------------------
(* Messages.                                                               *)

SpeakingMsg(channel, part, key, data) ==
    [channel |-> channel, part |-> part, key |-> key, data |-> data]

ListMsg(channel, l, data) == SpeakingMsg(channel, "lists", l, data)
SpeakerMsg(l, u, data) == SpeakingMsg("room", "speakers", <<l, u>>, data)
ToMeeting(key, data) == SpeakingMsg("meeting", "meeting", key, data)

Receives(c, shown, channel) ==
    \/ channel \in {"meeting", c}
    \/ channel = "item" /\ shown.item.open
    \/ channel = "room" /\ shown.room.open

\* Rows are kept by their key and replaced; roles.changed and roles.removed say
\* which roles were added and which are gone.  The roles go with the system.  A
\* room's page shows one list, the one it was told of last.
Shown(shown, msg) ==
    CASE msg.key = "system" /\ msg.data = NoRow ->
            [shown EXCEPT !.meeting.system = NoRow, !.meeting.roles = {}]
      [] msg.key = "group" -> [shown EXCEPT !.meeting.groups[msg.data[1]] = msg.data[2]]
      [] msg.key = "member" -> [shown EXCEPT !.meeting.members[msg.data[1]] = msg.data[2]]
      [] msg.key = "active user" ->
            [shown EXCEPT !.meeting.active = IF msg.data[2] THEN @ \cup {msg.data[1]}
                                             ELSE @ \ {msg.data[1]}]
      [] msg.key = "transfer" -> [shown EXCEPT !.meeting.transfers[msg.data[1]] = msg.data[2]]
      [] msg.part = "meeting" -> [shown EXCEPT !.meeting[msg.key] = msg.data]
      [] msg.part = "roles.changed" -> [shown EXCEPT !.meeting.roles = @ \cup msg.data]
      [] msg.part = "roles.removed" -> [shown EXCEPT !.meeting.roles = @ \ msg.data]
      [] msg.part = "speakers" -> [shown EXCEPT !.room.speakers[msg.key] = msg.data]
      [] msg.part = "lists" ->
            IF msg.channel = "item" THEN [shown EXCEPT !.item.lists[msg.key] = msg.data]
            ELSE [shown EXCEPT !.room.lists = [NoLists EXCEPT ![msg.key] = msg.data],
                               !.room.speakers = [s \in Lists \X Users |->
                                                     IF s[1] = msg.key THEN @[s] ELSE NoRow]]

\* What was published in the transaction, as its batcher sends it, and what the
\* receivers send after the commit.
Deliver(batched, after) ==
    view' = [c \in Users |->
                FoldLeft(Shown, view[c],
                         SelectSeq(Sent(batched) \o after,
                                   LAMBDA msg : Receives(c, view[c], msg.channel)))]

Store(t, batched, after) ==
    /\ tbl' = t
    /\ Deliver(batched, after)
    /\ UNCHANGED contentsVars

\* notify_changed_speaker_list, after the commit; a list that was just created
\* is not active.
NotifyChangedList(t, l) ==
    (IF l \in ListsOfItem THEN <<ListMsg("item", l, ListNow(t, l))>> ELSE <<>>)
    \o (IF IsActiveList(t, l) THEN <<ListMsg("room", l, ListNow(t, l))>> ELSE <<>>)

\* send_speaker_list_with_current_when_changed, with the order of the speaker's
\* own copy of the list.
SendListWithCurrent(t, l, order) ==
    IF ~IsActiveList(t, l) THEN <<>>
    ELSE (IF l \in ListsOfItem THEN <<ListMsg("item", l, ListPayload(t, l, order))>> ELSE <<>>)
         \o <<ListMsg("room", l, ListPayload(t, l, order))>>

PushSpeakerChanged(t, l, u) ==
    IF IsActiveList(t, l) THEN <<SpeakerMsg(l, u, SpeakerRow(t, l, u))>> ELSE <<>>

\* pre_delete: the list is looked up while the rows are still there.
PushSpeakersDeleted(gone) ==
    SetToSeq({SpeakerMsg(s[1], s[2], NoRow) : s \in {s \in gone : IsActiveList(tbl, s[1])}})

\* notify_changed_speaker_system and, when the active list was changed,
\* notify_active_list_changed: the list and its speakers, if it has any.
SaveSystem(t) ==
    <<ToMeeting("system", t.system)>>
    \o (IF t.system.active_list = tbl.system.active_list \/ t.system.active_list = NoRow
        THEN <<>>
        ELSE LET l == t.system.active_list IN
             <<ListMsg("room", l, ListNow(t, l))>>
             \o SetToSeq({SpeakerMsg(l, u, SpeakerRow(t, l, u)) :
                          u \in {u \in Users : SpeakerRow(t, l, u) # NoRow}}))

-----------------------------------------------------------------------------
(* The speaker system and its roles.                                       *)

NotArchived == tbl.system # NoRow /\ tbl.system.state # "archived"

CreateSystem ==
    LET row == [state |-> "active", active_list |-> NoRow] IN
    /\ tbl.system = NoRow
    /\ Store([tbl EXCEPT !.system = row], <<ToMeeting("system", row)>>, <<>>)

\* PATCH: any list of the system may be made the active one.  The settings of a
\* system are left out.
PatchSystem(active) ==
    LET t == [tbl EXCEPT !.system.active_list = active] IN
    /\ NotArchived
    /\ active # NoRow => ListRow(tbl, active) # NoRow
    /\ t # tbl
    /\ Store(t, SaveSystem(t), <<>>)

ActivateSystem ==
    LET t == [tbl EXCEPT !.system.state = "active"] IN
    /\ tbl.system # NoRow /\ tbl.system.state = "inactive"
    /\ Store(t, SaveSystem(t), <<>>)

\* no_active_speaker looks at the active list; on_inactivate clears it.
InactivateSystem ==
    LET t == [tbl EXCEPT !.system.state = "inactive", !.system.active_list = NoRow] IN
    /\ tbl.system # NoRow /\ tbl.system.state = "active"
    /\ \A l \in Lists : IsActiveList(tbl, l) => Ongoing(tbl, l) = {}
    /\ Store(t, SaveSystem(t), <<>>)

\* The system goes with its lists, speakers and roles.
DeleteSystem ==
    /\ NotArchived /\ tbl.system.active_list = NoRow
    /\ Store([tbl EXCEPT !.system = NoRow, !.lists = NoLists, !.speakers = NoSpeakers,
                         !.roles = [u \in Users |-> {}],
                         !.used = @ \cup {l \in Lists : ListRow(tbl, l) # NoRow}],
             <<ToMeeting("system", NoRow)>>
             \o SetToSeq({ListMsg("item", l, NoRow) :
                          l \in {l \in ListsOfItem : ListRow(tbl, l) # NoRow}}),
             <<>>)

\* Archiving the meeting: unfinished speakers are deleted and orders emptied
\* before the system is saved.  The meeting was closed before that.
ArchiveSystem ==
    LET gone == {s \in Lists \X Users : tbl.speakers[s] \in Waiting}
        ordered == {l \in Lists : ListRow(tbl, l) # NoRow /\ ListRow(tbl, l).order # <<>>}
        t == [tbl EXCEPT !.system.state = "archived", !.system.active_list = NoRow,
                         !.speakers = [s \in Lists \X Users |->
                                          IF s \in gone THEN NoRow ELSE @[s]],
                         !.lists = [l \in Lists |-> IF l \in ordered
                                                    THEN [@[l] EXCEPT !.order = <<>>]
                                                    ELSE @[l]]] IN
    /\ NotArchived
    /\ Store(t, PushSpeakersDeleted(gone) \o SaveSystem(t),
             FlattenSeq(SetToSeq({NotifyChangedList(t, l) : l \in ordered})))

RolesMsg(u, action, roles) == <<SpeakingMsg(u, action, "", roles)>>

\* RoleContextMixin.add_roles: the signal carries the roles that are new.
AddSpeakerRoles(u, roles) ==
    LET new == roles \ tbl.roles[u] IN
    /\ NotArchived /\ new # {}
    /\ Store([tbl EXCEPT !.roles[u] = @ \cup new], RolesMsg(u, "roles.changed", new), <<>>)

RolesRemoved(u, gone) ==
    /\ gone # {}
    /\ Store([tbl EXCEPT !.roles[u] = @ \ gone], RolesMsg(u, "roles.removed", gone), <<>>)

RemoveSpeakerRoles(u, roles) == NotArchived /\ RolesRemoved(u, roles \cap tbl.roles[u])

\* Who is no participant any more has no role in its systems, archived or not.
ParticipantRemoved(u) == RolesRemoved(u, tbl.roles[u])

-----------------------------------------------------------------------------
(* Lists and speakers.                                                     *)

HasList(l) == ListRow(tbl, l) # NoRow

CreateList(l) ==
    LET t == [tbl EXCEPT !.lists[l] = [is_open |-> TRUE, order |-> <<>>]] IN
    /\ NotArchived /\ ~HasList(l) /\ l \notin tbl.used
    /\ Store(t, <<>>, NotifyChangedList(t, l))

PatchList(l, open) ==
    LET t == [tbl EXCEPT !.lists[l].is_open = open] IN
    /\ NotArchived /\ HasList(l) /\ open # ListRow(tbl, l).is_open
    /\ Store(t, <<>>, NotifyChangedList(t, l))

\* The system's active_list is set to null by the database.
DeleteList(l) ==
    /\ NotArchived /\ HasList(l)
    /\ LET gone == {s \in {l} \X Users : tbl.speakers[s] # NoRow} IN
       Store([tbl EXCEPT !.lists[l] = NoRow, !.used = @ \cup {l},
                         !.speakers = [s \in Lists \X Users |-> IF s \in gone THEN NoRow ELSE @[s]],
                         !.system.active_list = IF @ = l THEN NoRow ELSE @],
             (IF l \in ListsOfItem THEN <<ListMsg("item", l, NoRow)>> ELSE <<>>)
             \o PushSpeakersDeleted(gone),
             <<>>)

\* SpeakerList.reorder: who is in the queue, the new ones last; saved when it
\* is another order.
Reorder(t, l) ==
    LET waiting == {u \in Users : SpeakerRow(t, l, u) \in Waiting}
        kept == SelectSeq(ListRow(t, l).order, LAMBDA u : u \in waiting)
        order == kept \o SetToSeq(waiting \ ToSet(kept)) IN
    [t EXCEPT !.lists[l].order = order]

SavedOrder(t, l) == IF ListRow(t, l) = ListRow(tbl, l) THEN <<>> ELSE NotifyChangedList(t, l)

\* The list is open for the user (enter), or a moderator adds them and the
\* system is active (POST of a speaker).
MayEnter(l, u) ==
    /\ NotArchived
    /\ \/ ListRow(tbl, l).is_open /\ (u = Moderator \/ tbl.roles[u] # {})
       \/ tbl.system.state = "active"

EnterList(l, u) ==
    LET t == Reorder([tbl EXCEPT !.speakers[<<l, u>>] = "queued"], l) IN
    /\ HasList(l) /\ SpeakerRow(tbl, l, u) = NoRow
    /\ MayEnter(l, u)
    /\ Quantify(Lists \X Users, LAMBDA s : tbl.speakers[s] # NoRow) < MaxSpeakers
    /\ Store(t, <<>>, PushSpeakerChanged(t, l, u) \o SavedOrder(t, l))

\* leave, and DELETE of a speaker, by a moderator also of one who speaks or has
\* spoken.
LeaveList(l, u) ==
    LET t == Reorder([tbl EXCEPT !.speakers[<<l, u>>] = NoRow], l) IN
    /\ NotArchived /\ HasList(l) /\ SpeakerRow(tbl, l, u) # NoRow
    /\ Store(t, PushSpeakersDeleted({<<l, u>>}), SavedOrder(t, l))

ShuffleList(l, order) ==
    LET t == [tbl EXCEPT !.lists[l].order = order] IN
    /\ NotArchived /\ HasList(l) /\ Ongoing(tbl, l) = {}
    /\ ToSet(order) = ToSet(ListRow(tbl, l).order) /\ IsInjective(order)
    /\ order # ListRow(tbl, l).order
    /\ Store(t, <<>>, NotifyChangedList(t, l))

\* Mutant: the receiver of a speaker that was saved is not connected.
SpeakerSavedSilently(t, l, u, order) == PushSpeakerChanged(t, l, u)

\* The two receivers of a speaker that was saved.
SpeakerSaved(t, l, u, order) == SendListWithCurrent(t, l, order) \o PushSpeakerChanged(t, l, u)

\* Whoever speaks is stopped first, and leaves the order.  The speaker that is
\* started holds the list as it was read with the speaker.
StartTurn(l, u) ==
    LET before == ListRow(tbl, l).order
        stopped == Ongoing(tbl, l)
        t == [tbl EXCEPT
                !.speakers = [s \in Lists \X Users |->
                                 IF s = <<l, u>> THEN "speaking"
                                 ELSE IF s \in {l} \X stopped THEN "spoken" ELSE @[s]],
                !.lists[l].order = SelectSeq(@, LAMBDA v : v \notin stopped)] IN
    /\ HasList(l) /\ SpeakerRow(tbl, l, u) = "queued"
    /\ IsActiveList(tbl, l)
    /\ Store(t, <<>>,
             (IF stopped = {} THEN <<>>
              ELSE SpeakerSaved(t, l, ActiveSpeaker(tbl, l), ListRow(t, l).order)
                   \o NotifyChangedList(t, l))
             \o SpeakerSaved(t, l, u, before))

StopTurn(l, u) ==
    LET before == ListRow(tbl, l).order
        t == [tbl EXCEPT !.speakers[<<l, u>>] = "spoken",
                         !.lists[l].order = SelectSeq(@, LAMBDA v : v # u)] IN
    /\ HasList(l) /\ SpeakerRow(tbl, l, u) = "speaking"
    /\ Store(t, <<>>, SpeakerSaved(t, l, u, before) \o NotifyChangedList(t, l))

\* undo, and a PATCH of the seconds of a finished turn: only the speaker is
\* saved.
ChangeSpeaker(l, u, phase) ==
    LET t == [tbl EXCEPT !.speakers[<<l, u>>] = phase] IN
    /\ HasList(l)
    /\ <<SpeakerRow(tbl, l, u), phase>> \in
          {<<"speaking", "queued">>, <<"spoken", "corrected">>, <<"corrected", "spoken">>}
    /\ phase # "queued" => NotArchived
    /\ Store(t, <<>>, SpeakerSaved(t, l, u, ListRow(tbl, l).order))

\* close_and_deactivate_when_ai_closes; nobody may be speaking.  The item is
\* opened again without an effect on the lists.
CloseAgendaItem ==
    LET closed == {l \in ListsOfItem : HasList(l) /\ ListRow(tbl, l).is_open}
        t == [tbl EXCEPT !.lists = [l \in Lists |-> IF l \in closed
                                                    THEN [@[l] EXCEPT !.is_open = FALSE]
                                                    ELSE @[l]],
                         !.system = IF @ # NoRow /\ @.active_list \in ListsOfItem
                                    THEN [@ EXCEPT !.active_list = NoRow] ELSE @] IN
    /\ \A l \in ListsOfItem : Ongoing(tbl, l) = {}
    /\ t # tbl
    /\ Store(t, IF t.system = tbl.system THEN <<>> ELSE SaveSystem(t),
             FlattenSeq(SetToSeq({NotifyChangedList(t, l) : l \in closed})))

ClosedPages == [item |-> [open |-> FALSE, lists |-> NoLists, complete |-> FALSE],
                room |-> [open |-> FALSE, lists |-> NoLists, speakers |-> NoSpeakers]]

\* The page of the agenda item, and that of the room; one at a time.
OpenSpeakerPage(c, part) ==
    /\ ~view[c].item.open /\ ~view[c].room.open
    /\ view' = [view EXCEPT ![c] =
                   IF part = "item"
                   THEN [@ EXCEPT !.item = [open |-> TRUE,
                                            lists |-> AgendaItemSpeakerLists(tbl),
                                            complete |-> /\ tbl.system # NoRow
                                                         /\ tbl.system.state = "active"]]
                   ELSE [@ EXCEPT !.room = ActiveSpeakerList(tbl) @@ [open |-> TRUE]]]
    /\ UNCHANGED <<contentsVars, tbl>>

\* Leaving the channel drops what the page showed.
CloseSpeakerPage(c, part) ==
    /\ view[c][part].open
    /\ view' = [view EXCEPT ![c][part] = ClosedPages[part]]
    /\ UNCHANGED <<contentsVars, tbl>>

SystemNext ==
    \/ CreateSystem
    \/ \E active \in Lists \cup {NoRow} : PatchSystem(active)
    \/ ActivateSystem \/ InactivateSystem \/ DeleteSystem \/ ArchiveSystem

RolesNext ==
    \/ SystemNext
    \/ \E u \in Users, roles \in SUBSET SpeakerRoles :
          AddSpeakerRoles(u, roles) \/ RemoveSpeakerRoles(u, roles)
    \/ \E u \in Users : ParticipantRemoved(u)
    \/ \E l \in Lists : CreateList(l) \/ \E u \in Users : EnterList(l, u)

SpeakingNext ==
    \/ SystemNext
    \/ CloseAgendaItem
    \/ \E l \in Lists :
          \/ CreateList(l) \/ DeleteList(l)
          \/ \E open \in BOOLEAN : PatchList(l, open)
          \/ \E order \in {s \in SeqOf(Users, Cardinality(Users)) : IsInjective(s)} :
                ShuffleList(l, order)
          \/ \E u \in Users :
                \/ EnterList(l, u) \/ LeaveList(l, u) \/ StartTurn(l, u) \/ StopTurn(l, u)
                \/ \E phase \in SpeakerPhases : ChangeSpeaker(l, u, phase)
    \/ \E c \in Watchers, part \in {"item", "room"} :
          OpenSpeakerPage(c, part) \/ CloseSpeakerPage(c, part)

-----------------------------------------------------------------------------
(* Meeting groups, members and the group role.                             *)

GroupMsg(g, row) == ToMeeting("group", <<g, row>>)
MemberMsg(g, u, row) == ToMeeting("member", <<<<g, u>>, row>>)

HasGroup(g) == tbl.groups[g] # NoRow

CreateGroup(g, votes) ==
    LET row == [votes |-> votes, delegate_to |-> NoRow] IN
    /\ ~HasGroup(g)
    /\ Store([tbl EXCEPT !.groups[g] = row], <<GroupMsg(g, row)>>, <<>>)

\* validate_delegate_to
MayDelegate(g, to) ==
    to # NoRow =>
        /\ to # g /\ HasGroup(to) /\ tbl.groups[to].delegate_to = NoRow
        /\ \A other \in Groups : HasGroup(other) => tbl.groups[other].delegate_to # g

Shares(t, g) == {u \in Users : t.members[<<g, u>>] # NoRow /\ t.members[<<g, u>>].votes > 0}
VoteSum(t, g) == FoldSet(LAMBDA u, sum : sum + t.members[<<g, u>>].votes, 0, Shares(t, g))

\* The membership is saved, and sent as any other.
ClearedShare(g, u, row) == <<MemberMsg(g, u, row)>>

\* PATCH of a group: before it is saved the shares are cleared when the group
\* has no votes or fewer than they sum up to.
PatchGroup(g, votes, to) ==
    LET row == [votes |-> votes, delegate_to |-> to]
        cleared == IF votes > 0 /\ VoteSum(tbl, g) > 0 /\ VoteSum(tbl, g) <= votes THEN {}
                   ELSE Shares(tbl, g)
        member(u) == [tbl.members[<<g, u>>] EXCEPT !.votes = 0]
        t == [tbl EXCEPT !.groups[g] = row,
                         !.members = [k \in Groups \X Users |->
                                         IF k \in {g} \X cleared THEN member(k[2]) ELSE @[k]]] IN
    /\ HasGroup(g) /\ MayDelegate(g, to)
    /\ t # tbl
    /\ Store(t, FlattenSeq(SetToSeq({ClearedShare(g, u, member(u)) : u \in cleared}))
                \o <<GroupMsg(g, row)>>, <<>>)

\* delegate_to of another group is RESTRICT; members go with the group.
DeleteGroup(g) ==
    LET gone == {k \in {g} \X Users : tbl.members[k] # NoRow} IN
    /\ HasGroup(g)
    /\ \A other \in Groups : HasGroup(other) => tbl.groups[other].delegate_to # g
    /\ Store([tbl EXCEPT !.groups[g] = NoRow,
                         !.members = [k \in Groups \X Users |-> IF k \in gone THEN NoRow ELSE @[k]]],
             SetToSeq({MemberMsg(k[1], k[2], NoRow) : k \in gone}) \o <<GroupMsg(g, NoRow)>>,
             <<>>)

\* POST and PATCH of a membership; a role needs a meeting that uses roles.
SaveMember(g, u, row) ==
    LET read == tbl.members[<<g, u>>] IN
    /\ HasGroup(g) /\ row # read
    /\ row.role /\ (read = NoRow \/ ~read.role) => tbl.group_roles_active /\ tbl.group_role
    /\ Store([tbl EXCEPT !.members[<<g, u>>] = row], <<MemberMsg(g, u, row)>>, <<>>)

DeleteMember(g, u) ==
    /\ tbl.members[<<g, u>>] # NoRow
    /\ Store([tbl EXCEPT !.members[<<g, u>>] = NoRow], <<MemberMsg(g, u, NoRow)>>, <<>>)

\* A dialect that is installed brings the group role and turns roles on.  A role
\* made after this one was deleted is another row.
InstallGroupRole ==
    /\ ~tbl.group_roles_active
    /\ Store([tbl EXCEPT !.group_role = TRUE, !.group_roles_active = TRUE],
             <<ToMeeting("group_role", TRUE)>>, <<>>)

\* ON DELETE SET_NULL: the memberships lose the role without a message.
DeleteGroupRole ==
    /\ tbl.group_role
    /\ Store([tbl EXCEPT !.group_role = FALSE,
                         !.members = [k \in Groups \X Users |->
                                         IF @[k] = NoRow THEN NoRow
                                         ELSE [@[k] EXCEPT !.role = FALSE]]],
             <<ToMeeting("group_role", FALSE)>>, <<>>)

GroupsNext ==
    \/ \E g \in Groups, votes \in GroupVotes :
          \/ CreateGroup(g, votes)
          \/ \E to \in Groups \cup {NoRow} : PatchGroup(g, votes, to)
    \/ \E g \in Groups : DeleteGroup(g)
    \/ \E g \in Groups, u \in Users :
          \/ DeleteMember(g, u)
          \/ \E row \in GroupMembership : SaveMember(g, u, row)
    \/ InstallGroupRole \/ DeleteGroupRole

-----------------------------------------------------------------------------
(* Active users, vote transfers and registers.                             *)

\* send_active_state_when_enabled: whoever is active, when the component is
\* saved and enabled.
SaveActiveComponent(enabled) ==
    /\ enabled # tbl.active_component
    /\ Store([tbl EXCEPT !.active_component = enabled],
             IF enabled THEN <<ToMeeting("active", tbl.active_users)>> ELSE <<>>, <<>>)

ActiveMsg(u, active) == ToMeeting("active user", <<u, active>>)

\* get_or_create sends nothing for a row that was there.
BecomeActive(u) ==
    /\ tbl.active_component /\ u \notin tbl.active_users
    /\ Store([tbl EXCEPT !.active_users = @ \cup {u}], <<ActiveMsg(u, TRUE)>>, <<>>)

\* A user who goes, or the users without a recent connection.
BecomeInactive(users) ==
    /\ tbl.active_component /\ users # {} /\ users \subseteq tbl.active_users
    /\ Store([tbl EXCEPT !.active_users = @ \ users],
             SetToSeq({ActiveMsg(u, FALSE) : u \in users}), <<>>)

TransferMsg(source, target) == ToMeeting("transfer", <<source, target>>)

\* A user transfers to another one who has not transferred; who has received a
\* vote transfers none (module Electorate has the policies).
SaveTransfer(source, target) ==
    /\ target # source /\ tbl.transfers[target] = NoRow /\ tbl.transfers[source] # target
    /\ \A u \in Users : tbl.transfers[u] # source
    /\ Store([tbl EXCEPT !.transfers[source] = target], <<TransferMsg(source, target)>>, <<>>)

DeleteTransfer(source) ==
    /\ tbl.transfers[source] # NoRow
    /\ Store([tbl EXCEPT !.transfers[source] = NoRow], <<TransferMsg(source, NoRow)>>, <<>>)

TransfersOf(u) == {v \in Users : tbl.transfers[v] # NoRow /\ (v = u \/ tbl.transfers[v] = u)}

\* The roles of a user are deleted: their transfers and presence go with them.
RemoveFromMeeting(u) ==
    Store([tbl EXCEPT !.active_users = @ \ {u},
                      !.transfers = [v \in Users |-> IF v \in TransfersOf(u) THEN NoRow ELSE @[v]]],
          SetToSeq({TransferMsg(v, NoRow) : v \in TransfersOf(u)}
                   \cup {ActiveMsg(v, FALSE) : v \in tbl.active_users \cap {u}}),
          <<>>)

\* new_er_created, after the weights are stored.
NewRegister(voters) ==
    /\ voters # tbl.register
    /\ Store([tbl EXCEPT !.register = voters], <<ToMeeting("register", voters)>>, <<>>)

PresenceNext ==
    \/ \E enabled \in BOOLEAN : SaveActiveComponent(enabled)
    \/ \E u \in Users : BecomeActive(u) \/ DeleteTransfer(u) \/ RemoveFromMeeting(u)
    \/ \E users \in SUBSET Users : BecomeInactive(users) \/ NewRegister(users)
    \/ \E source, target \in Users : SaveTransfer(source, target)

-----------------------------------------------------------------------------

\* A page that subscribes again to the meeting.
ReopenMeetingPage(c) ==
    /\ view' = [view EXCEPT ![c].meeting = MeetingView(c, tbl)]
    /\ view' # view
    /\ UNCHANGED <<contentsVars, tbl>>

ParticipationInit ==
    /\ ContentsInit
    /\ tbl = [system |-> NoRow, lists |-> NoLists, speakers |-> NoSpeakers, used |-> {},
              roles |-> [u \in Users |-> {}],
              groups |-> [g \in Groups |-> NoRow],
              members |-> [k \in Groups \X Users |-> NoRow],
              group_role |-> FALSE, group_roles_active |-> FALSE,
              active_component |-> FALSE, active_users |-> {},
              transfers |-> [u \in Users |-> NoRow], register |-> {}]
    /\ view = [c \in Users |-> [meeting |-> MeetingView(c, tbl)] @@ ClosedPages]

ParticipationNext ==
    \/ ContentsNext /\ UNCHANGED <<tbl, view>>
    \/ focus = "roles" /\ RolesNext
    \/ focus = "speaking" /\ SpeakingNext
    \/ focus = "groups" /\ GroupsNext
    \/ focus = "presence" /\ PresenceNext
    \/ focus \in {"roles", "speaking", "groups", "presence"} /\ \E c \in Watchers : ReopenMeetingPage(c)

ParticipationSpec == ParticipationInit /\ [][ParticipationNext]_allVars

-----------------------------------------------------------------------------
(* What the pages promise.                                                 *)

\* The tables hold what their columns allow.
TablesOK ==
    /\ tbl.system \in SpeakerListSystem \cup {NoRow}
    /\ \A l \in Lists : tbl.lists[l] \in SpeakerList \cup {NoRow}
    /\ \A s \in Lists \X Users : tbl.speakers[s] \in SpeakerPhases \cup {NoRow}
    /\ \A u \in Users : tbl.roles[u] \subseteq SpeakerRoles
    /\ \A g \in Groups : tbl.groups[g] \in MeetingGroup \cup {NoRow}
    /\ \A k \in Groups \X Users : tbl.members[k] \in GroupMembership \cup {NoRow}

\* The active list of the system, unless it was deleted.
LiveSystem(row) ==
    IF row # NoRow /\ row.active_list # NoRow /\ ~HasList(row.active_list)
    THEN [row EXCEPT !.active_list = NoRow] ELSE row

\* The role of a member, while there is a group role.
LiveMembers(members) ==
    [k \in Groups \X Users |->
        IF members[k] # NoRow /\ ~tbl.group_role THEN [members[k] EXCEPT !.role = FALSE]
        ELSE members[k]]

\* Two payloads of a list agree but for a finished speaker that is still named
\* in the queue and a speaker whose start was undone.
SameList(shown, now, l) ==
    \/ shown = NoRow /\ now = NoRow
    \/ /\ shown # NoRow /\ now # NoRow
       /\ shown.is_open = now.is_open
       /\ SelectSeq(shown.queue, LAMBDA u : SpeakerRow(tbl, l, u) \in Waiting) = now.queue
       /\ \/ shown.current = now.current
          \/ shown.current # NoRow /\ SpeakerRow(tbl, l, shown.current) = "queued"

\* A page that stays open shows who takes part: the speaker system and the
\* user's roles in it, groups and members with their shares, who is active,
\* vote transfers and the register; on the agenda item its lists with queue and
\* speaker, and in the room the active list and every speaker of it, whatever
\* became active, was started, stopped, left or deleted since it was opened.
PagesShowParticipants ==
    /\ TablesOK
    /\ \A c \in Users :
           LET now == MeetingView(c, tbl)
               meeting == view[c].meeting
               item == view[c].item
               room == view[c].room IN
           /\ [meeting EXCEPT !.system = LiveSystem(@), !.members = LiveMembers(@),
                              !.active = now.active] = now
           /\ tbl.active_component => meeting.active = now.active
           /\ \A l \in ListsOfItem : item.open =>
                 \/ SameList(item.lists[l], ListNow(tbl, l), l)
                 \/ item.lists[l] = NoRow /\ ~item.complete
           /\ room.open => \A l \in Lists : IsActiveList(tbl, l) =>
                 /\ SameList(room.lists[l], ListNow(tbl, l), l)
                 /\ \A u \in Users : SpeakerRow(tbl, l, u) # NoRow =>
                       room.speakers[<<l, u>>] = SpeakerRow(tbl, l, u)
=============================================================================
