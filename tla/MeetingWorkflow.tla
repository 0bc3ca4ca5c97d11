------------------------- MODULE MeetingWorkflow -------------------------
(***************************************************************************)
(* The workflow of one meeting and of everything whose state is tied to    *)
(* it: its agenda items, their polls and proposals, and the speaker list   *)
(* that is active in the meeting room.                                     *)
(*                                                                         *)
(* A request is one step.  The REST endpoint that sends an event to a      *)
(* state machine runs in one durable transaction (core/rest_api/mixins.py) *)
(* and either commits everything the handler did or nothing.               *)
(*                                                                         *)
(* Every request is made by a moderator, who holds every role the          *)
(* permissions ask for; the parts of the permissions that read workflow    *)
(* states are the guards below.                                            *)
(***************************************************************************)
EXTENDS Naturals, FiniteSets

CONSTANTS
    AgendaItems,     \* primary keys an agenda item of the meeting may get
    Polls,           \* primary keys of polls
    Proposals,       \* primary keys of proposals
    PollItem,        \* the agenda item each poll is created on
    PollProposals,   \* the proposals each poll is created with
    ProposalItem,    \* the agenda item each proposal is made on
    ListItems,       \* the agenda items that have a speaker list
    NoList           \* SpeakerListSystem.active_list = None

VARIABLES
    meeting,           \* Meeting.state, "absent" once the row is deleted
    preDelete,         \* Meeting.pre_delete_state while the state is deleting
    startTime,         \* whether Meeting.start_time is set
    deleteRequested,   \* Meeting.delete_requested: unset, recent or overdue
    item,              \* AgendaItem.state per primary key
    poll,              \* Poll.state per primary key
    result,            \* Poll.result: the proposals it approves and denies
    proposal,          \* Proposal.state per primary key
    activeList,        \* SpeakerListSystem.active_list, by its agenda item
    speaking,          \* the agenda items whose list has a current speaker
    systemArchived     \* SpeakerListSystem.state = archived

meetingVars == <<meeting, preDelete, startTime, deleteRequested>>
pollVars == <<poll, result>>
speakerVars == <<activeList, speaking, systemArchived>>
vars == <<meetingVars, item, pollVars, proposal, speakerVars>>

MeetingStates ==
    {"upcoming", "ongoing", "closed", "archiving", "archived", "deleting"}
ItemStates == {"private", "upcoming", "ongoing", "closed", "archived"}
PollStates == {"private", "upcoming", "ongoing", "finished", "withheld",
               "canceled", "failed", "no_result"}
ProposalStates ==
    {"published", "retracted", "voting", "approved", "denied", "unhandled"}

NoResult == [approved |-> {}, denied |-> {}]
Results(p) ==
    {r \in [approved : SUBSET PollProposals[p],
            denied : SUBSET PollProposals[p]] : r.approved \cap r.denied = {}}

ASSUME ConstantsAssumption ==
    /\ PollItem \in [Polls -> AgendaItems]
    /\ ProposalItem \in [Proposals -> AgendaItems]
    /\ PollProposals \in [Polls -> SUBSET Proposals]
    /\ \A p \in Polls, q \in Proposals :
          q \in PollProposals[p] => ProposalItem[q] = PollItem[p]
    /\ ListItems \subseteq AgendaItems
    /\ NoList \notin AgendaItems

TypeOK ==
    /\ meeting \in MeetingStates \cup {"absent"}
    /\ preDelete \in (MeetingStates \ {"deleting"}) \cup {"none"}
    /\ startTime \in BOOLEAN
    /\ deleteRequested \in {"unset", "recent", "overdue"}
    /\ item \in [AgendaItems -> ItemStates \cup {"absent"}]
    /\ poll \in [Polls -> PollStates \cup {"absent"}]
    /\ result \in [Polls -> [approved : SUBSET Proposals,
                             denied : SUBSET Proposals]]
    /\ proposal \in [Proposals -> ProposalStates \cup {"absent"}]
    /\ activeList \in ListItems \cup {NoList}
    /\ speaking \subseteq ListItems
    /\ systemArchived \in BOOLEAN

\* A meeting as CreateMeetingSerializer leaves it, nothing in it yet.
Init ==
    /\ meeting = "upcoming"
    /\ preDelete = "none"
    /\ startTime = FALSE
    /\ deleteRequested = "unset"
    /\ item = [a \in AgendaItems |-> "absent"]
    /\ poll = [p \in Polls |-> "absent"]
    /\ result = [p \in Polls |-> NoResult]
    /\ proposal = [q \in Proposals |-> "absent"]
    /\ activeList = NoList
    /\ speaking = {}
    /\ systemArchived = FALSE

-----------------------------------------------------------------------------
(* What the guards of the state machines and the permissions read.         *)

MeetingArchivedStates == {"archiving", "archived", "deleting"}

\* rules.is_not_archived on an agenda item that exists.
ItemNotArchived(a) == item[a] \notin {"absent", "archived"}

\* agenda.rules.upcoming_ongoing_or_private_ai
ItemPermissive(a) == item[a] \in {"private", "upcoming", "ongoing"}

NoOngoingPolls == \A p \in Polls : poll[p] # "ongoing"
NoOngoingPollsOn(a) == \A p \in Polls : PollItem[p] = a => poll[p] # "ongoing"

\* meeting_upcoming_ongoing
MeetingUpcomingOngoing == meeting \in {"upcoming", "ongoing"}

\* speaker.signals.check_no_active_speaker_when_meeting_closes, for the
\* transitions whose target is closed or deleting.
NoActiveSpeaker == speaking = {}

-----------------------------------------------------------------------------
(* Meeting events.                                                         *)

MakeUpcoming ==
    /\ meeting = "ongoing"
    /\ meeting' = "upcoming"
    /\ UNCHANGED <<preDelete, startTime, deleteRequested, item, pollVars,
                   proposal, speakerVars>>

\* Mutant: on_make_ongoing does not set start_time.
MakeOngoingUnrecorded ==
    /\ meeting \in {"upcoming", "closed"}
    /\ meeting' = "ongoing"
    /\ UNCHANGED <<preDelete, startTime, deleteRequested, item, pollVars,
                   proposal, speakerVars>>

MakeOngoing ==
    /\ meeting \in {"upcoming", "closed"}
    /\ meeting' = "ongoing"
    /\ startTime' = TRUE
    /\ UNCHANGED <<preDelete, deleteRequested, item, pollVars, proposal,
                   speakerVars>>

Close ==
    /\ meeting = "ongoing"
    /\ NoOngoingPolls
    /\ NoActiveSpeaker
    /\ meeting' = "closed"
    /\ UNCHANGED <<preDelete, startTime, deleteRequested, item, pollVars,
                   proposal, speakerVars>>

RequestArchiving ==
    /\ meeting = "closed"
    /\ meeting' = "archiving"
    /\ UNCHANGED <<preDelete, startTime, deleteRequested, item, pollVars,
                   proposal, speakerVars>>

AbortArchiving ==
    /\ meeting = "archiving"
    /\ NoActiveSpeaker
    /\ meeting' = "closed"
    /\ UNCHANGED <<preDelete, startTime, deleteRequested, item, pollVars,
                   proposal, speakerVars>>

\* Mutant: on_request_delete does not set delete_requested.
RequestDeleteUndated ==
    /\ meeting \in MeetingStates \ {"deleting"}
    /\ NoActiveSpeaker
    /\ meeting' = "deleting"
    /\ preDelete' = meeting
    /\ UNCHANGED <<startTime, deleteRequested, item, pollVars, proposal,
                   speakerVars>>

RequestDelete ==
    /\ meeting \in MeetingStates \ {"deleting"}
    /\ NoActiveSpeaker
    /\ meeting' = "deleting"
    /\ preDelete' = meeting
    /\ deleteRequested' = "recent"
    /\ UNCHANGED <<startTime, item, pollVars, proposal, speakerVars>>

\* pre_delete_state keeps its value in the row; nothing reads it again before
\* request_delete overwrites it, so the model forgets it here.
AbortDelete ==
    /\ meeting = "deleting"
    /\ preDelete = "closed" => NoActiveSpeaker
    /\ meeting' = preDelete
    /\ preDelete' = "none"
    /\ deleteRequested' = "unset"
    /\ UNCHANGED <<startTime, item, pollVars, proposal, speakerVars>>

\* Meeting.archive() and the receivers of archive_meeting.  No request calls
\* it: it is run by hand on meetings whose archiving was requested.
Archive ==
    /\ meeting = "archiving"
    /\ meeting' = "archived"
    /\ item' = [a \in AgendaItems |->
                   IF item[a] = "absent" THEN "absent" ELSE "archived"]
    /\ activeList' = NoList
    /\ speaking' = {}
    /\ systemArchived' = TRUE
    /\ UNCHANGED <<preDelete, startTime, deleteRequested, pollVars, proposal>>

\* The rows that go with the meeting's row (ON DELETE CASCADE).
DeleteMeetingRow ==
    /\ meeting' = "absent"
    /\ preDelete' = "none"
    /\ startTime' = FALSE
    /\ deleteRequested' = "unset"
    /\ item' = [a \in AgendaItems |-> "absent"]
    /\ poll' = [p \in Polls |-> "absent"]
    /\ result' = [p \in Polls |-> NoResult]
    /\ proposal' = [q \in Proposals |-> "absent"]
    /\ activeList' = NoList
    /\ speaking' = {}
    /\ systemArchived' = FALSE

\* DELETE /api/meetings/: any state, moderators only.
DestroyMeeting ==
    /\ meeting # "absent"
    /\ DeleteMeetingRow

\* DELETE_AFTER_DAYS pass after request_delete.
GracePeriodEnds ==
    /\ deleteRequested = "recent"
    /\ deleteRequested' = "overdue"
    /\ UNCHANGED <<meeting, preDelete, startTime, item, pollVars, proposal,
                   speakerVars>>

\* The rows the query of the weekly job selects.
DueForDeletion ==
    /\ meeting = "deleting"
    /\ ~startTime
    /\ deleteRequested = "overdue"

DeleteRequestedMeetings ==
    /\ DueForDeletion
    /\ DeleteMeetingRow

MeetingNext ==
    \/ MakeUpcoming
    \/ MakeOngoing
    \/ Close
    \/ RequestArchiving
    \/ AbortArchiving
    \/ RequestDelete
    \/ AbortDelete
    \/ Archive
    \/ DestroyMeeting
    \/ GracePeriodEnds
    \/ DeleteRequestedMeetings

-----------------------------------------------------------------------------
(* Agenda item events.                                                     *)

\* The row of the transition table that takes the agenda item to the target,
\* with its condition and validators.
MayMakeItemUpcoming(a) ==
    \/ item[a] \in {"private", "closed"}
    \/ item[a] = "ongoing" /\ NoOngoingPollsOn(a)

\* Mutant: unpublish has no validator no_ongoing_polls.
MayUnpublishItemOverPolls(a) == item[a] \in {"upcoming", "closed", "ongoing"}

MayUnpublishItem(a) ==
    \/ item[a] \in {"upcoming", "closed"}
    \/ item[a] = "ongoing" /\ NoOngoingPollsOn(a)

MayMakeItemOngoing(a) ==
    /\ item[a] \in {"private", "upcoming", "closed"}
    /\ meeting = "ongoing"

\* The last conjunct is speaker.signals.check_no_active_speaker.
MayCloseItem(a) ==
    /\ item[a] \in {"private", "upcoming", "ongoing"}
    /\ meeting # "upcoming"
    /\ NoOngoingPollsOn(a)
    /\ a \notin speaking

MayMoveItem(a, target) ==
    \/ target = "upcoming" /\ MayMakeItemUpcoming(a)
    \/ target = "private" /\ MayUnpublishItem(a)
    \/ target = "ongoing" /\ MayMakeItemOngoing(a)
    \/ target = "closed" /\ MayCloseItem(a)

\* speaker.signals.close_and_deactivate_when_ai_closes: the lists of the
\* closed items stop being the active list.
DeactivateLists(closed) ==
    activeList' = IF activeList \in closed THEN NoList ELSE activeList

\* What is left when the rows of some agenda items are deleted (ON DELETE
\* CASCADE of polls, proposals and speaker lists, SET_NULL of active_list).
DeleteItemRows(gone) ==
    /\ item' = [a \in AgendaItems |-> IF a \in gone THEN "absent" ELSE item[a]]
    /\ poll' = [p \in Polls |->
                   IF PollItem[p] \in gone THEN "absent" ELSE poll[p]]
    /\ result' = [p \in Polls |->
                     IF PollItem[p] \in gone THEN NoResult ELSE result[p]]
    /\ proposal' = [q \in Proposals |->
                       IF ProposalItem[q] \in gone THEN "absent" ELSE proposal[q]]
    /\ activeList' = IF activeList \in gone THEN NoList ELSE activeList
    /\ speaking' = speaking \ gone
    /\ UNCHANGED <<meetingVars, systemArchived>>

CreateItem(a) ==
    /\ item[a] = "absent"
    /\ meeting \notin MeetingArchivedStates \cup {"absent"}
    /\ item' = [item EXCEPT ![a] = "private"]
    /\ UNCHANGED <<meetingVars, pollVars, proposal, speakerVars>>

\* POST /api/agenda-items/<pk>/event/
MoveItem(a, target) ==
    /\ MayMoveItem(a, target)
    /\ item' = [item EXCEPT ![a] = target]
    /\ IF target = "closed" THEN DeactivateLists({a}) ELSE UNCHANGED activeList
    /\ UNCHANGED <<meetingVars, pollVars, proposal, speaking, systemArchived>>

\* POST /api/agenda-items/bulk-change/: the items that may not move are
\* skipped, the others move in one transaction.
BulkChange(chosen, target) ==
    LET moved == {a \in chosen : MayMoveItem(a, target)} IN
    /\ meeting \notin MeetingArchivedStates \cup {"absent"}
    /\ \A a \in chosen : item[a] # "absent"
    /\ item' = [a \in AgendaItems |-> IF a \in moved THEN target ELSE item[a]]
    /\ IF target = "closed" THEN DeactivateLists(moved) ELSE UNCHANGED activeList
    /\ UNCHANGED <<meetingVars, pollVars, proposal, speaking, systemArchived>>

DeleteItem(a) ==
    /\ ItemNotArchived(a)
    /\ DeleteItemRows({a})

\* POST /api/agenda-items/bulk-delete/: not while the meeting is ongoing.
BulkDelete(chosen) ==
    /\ meeting \in {"upcoming", "closed"}
    /\ \A a \in chosen : item[a] # "absent"
    /\ DeleteItemRows(chosen)

ItemNext ==
    \/ \E a \in AgendaItems : CreateItem(a) \/ DeleteItem(a)
    \/ \E a \in AgendaItems, target \in ItemStates : MoveItem(a, target)
    \/ \E chosen \in (SUBSET AgendaItems) \ {{}} :
          \/ BulkDelete(chosen)
          \/ \E target \in ItemStates : BulkChange(chosen, target)

-----------------------------------------------------------------------------
(* Poll events.                                                            *)

\* Poll._lock_proposals and Poll._publish_proposals
LockProposals(p) ==
    proposal' = [q \in Proposals |->
                    IF q \in PollProposals[p] /\ proposal[q] = "published"
                    THEN "voting" ELSE proposal[q]]

PublishProposals(p) ==
    proposal' = [q \in Proposals |->
                    IF q \in PollProposals[p] /\ proposal[q] = "voting"
                    THEN "published" ELSE proposal[q]]

\* The transitions of ProposalStateMachine; force=True skips the permission.
ApproveSources == {"published", "voting", "denied"}
DenySources == {"published", "voting", "approved"}
PublishSources == {"retracted", "voting", "approved", "denied", "unhandled"}

\* What Poll.set_proposals_from_result does to one proposal of the poll: a
\* transition the proposal's state does not allow is skipped.
ResultState(r, q) ==
    CASE q \in r.approved ->
            IF proposal[q] \in ApproveSources THEN "approved" ELSE proposal[q]
      [] q \in r.denied ->
            IF proposal[q] \in DenySources THEN "denied" ELSE proposal[q]
      [] OTHER ->
            IF proposal[q] \in PublishSources THEN "published" ELSE proposal[q]

SetProposalsFromResult(p, r) ==
    proposal' = [q \in Proposals |->
                    IF q \in PollProposals[p] THEN ResultState(r, q)
                    ELSE proposal[q]]

\* Mutant: the permission does not ask for the agenda item's state.
MayChangePollArchived(p) == item[PollItem[p]] # "absent"

\* poll.rules.polls_context_not_archived, for PERM.CHANGE_STATE and DELETE
MayChangePoll(p) == ItemNotArchived(PollItem[p])

\* Validator meeting_and_ai_ongoing.
MayStartPoll(p) ==
    /\ MayChangePoll(p)
    /\ item[PollItem[p]] = "ongoing"
    /\ meeting = "ongoing"

\* PollCreateSerializer: PERM.ADD is checked against the agenda item; with
\* start the poll is started in the same transaction.
CreatePoll(p, start) ==
    /\ poll[p] = "absent"
    /\ ItemPermissive(PollItem[p])
    /\ \A q \in PollProposals[p] : proposal[q] # "absent"
    /\ IF start
       THEN /\ MayStartPoll(p)
            /\ poll' = [poll EXCEPT ![p] = "ongoing"]
            /\ LockProposals(p)
       ELSE /\ poll' = [poll EXCEPT ![p] = "private"]
            /\ UNCHANGED proposal
    /\ UNCHANGED <<meetingVars, item, result, speakerVars>>

MakePollUpcoming(p) ==
    /\ poll[p] = "private"
    /\ MayChangePoll(p)
    /\ poll' = [poll EXCEPT ![p] = "upcoming"]
    /\ LockProposals(p)
    /\ UNCHANGED <<meetingVars, item, result, speakerVars>>

MakePollOngoing(p) ==
    /\ poll[p] \in {"private", "upcoming"}
    /\ MayStartPoll(p)
    /\ poll' = [poll EXCEPT ![p] = "ongoing"]
    /\ LockProposals(p)
    /\ UNCHANGED <<meetingVars, item, result, speakerVars>>

UnpublishPoll(p) ==
    /\ poll[p] = "upcoming"
    /\ MayChangePoll(p)
    /\ poll' = [poll EXCEPT ![p] = "private"]
    /\ UNCHANGED <<meetingVars, item, result, proposal, speakerVars>>

CancelPoll(p) ==
    /\ poll[p] = "ongoing"
    /\ MayChangePoll(p)
    /\ poll' = [poll EXCEPT ![p] = "canceled"]
    /\ PublishProposals(p)
    /\ UNCHANGED <<meetingVars, item, result, speakerVars>>

\* Mutant: close is also a transition out of withheld.
CloseSourcesWithheld == {"ongoing", "failed", "canceled", "withheld"}

\* The states PollStateMachine.close starts from.
CloseSources == {"ongoing", "failed", "canceled"}

\* The close event and the automatic transition out of closed.  Which one is
\* taken depends on the votes (module PollVoting); here each is possible.
ClosePoll(p) ==
    /\ poll[p] \in CloseSources
    /\ MayChangePoll(p)
    /\ \/ /\ \E state \in {"no_result", "failed"} :
                poll' = [poll EXCEPT ![p] = state]
          /\ UNCHANGED <<result, proposal>>
       \/ \E r \in Results(p) :
             /\ result' = [result EXCEPT ![p] = r]
             /\ \/ /\ poll' = [poll EXCEPT ![p] = "withheld"]
                   /\ UNCHANGED proposal
                \/ /\ poll' = [poll EXCEPT ![p] = "finished"]
                   /\ SetProposalsFromResult(p, r)
    /\ UNCHANGED <<meetingVars, item, speakerVars>>

PublishResult(p) ==
    /\ poll[p] = "withheld"
    /\ MayChangePoll(p)
    /\ poll' = [poll EXCEPT ![p] = "finished"]
    /\ SetProposalsFromResult(p, result[p])
    /\ UNCHANGED <<meetingVars, item, result, speakerVars>>

WithholdResult(p) ==
    /\ poll[p] = "finished"
    /\ MayChangePoll(p)
    /\ poll' = [poll EXCEPT ![p] = "withheld"]
    /\ UNCHANGED <<meetingVars, item, result, proposal, speakerVars>>

DeletePoll(p) ==
    /\ poll[p] # "absent"
    /\ MayChangePoll(p)
    /\ poll' = [poll EXCEPT ![p] = "absent"]
    /\ result' = [result EXCEPT ![p] = NoResult]
    /\ UNCHANGED <<meetingVars, item, proposal, speakerVars>>

PollNext ==
    \E p \in Polls :
        \/ \E start \in BOOLEAN : CreatePoll(p, start)
        \/ MakePollUpcoming(p)
        \/ MakePollOngoing(p)
        \/ UnpublishPoll(p)
        \/ CancelPoll(p)
        \/ ClosePoll(p)
        \/ PublishResult(p)
        \/ WithholdResult(p)
        \/ DeletePoll(p)

-----------------------------------------------------------------------------
(* Proposal events sent by a moderator.                                    *)

\* PERM.CHANGE on proposals
MayChangeProposal(q) ==
    /\ ItemNotArchived(ProposalItem[q])
    /\ MeetingUpcomingOngoing

AddProposal(q) ==
    /\ proposal[q] = "absent"
    /\ ItemPermissive(ProposalItem[q])
    /\ proposal' = [proposal EXCEPT ![q] = "published"]
    /\ UNCHANGED <<meetingVars, item, pollVars, speakerVars>>

RetractProposal(q) ==
    /\ proposal[q] = "published"
    /\ ItemPermissive(ProposalItem[q])
    /\ proposal' = [proposal EXCEPT ![q] = "retracted"]
    /\ UNCHANGED <<meetingVars, item, pollVars, speakerVars>>

\* The events lock_for_vote, approve, deny, mark_unhandled and publish.
MoveProposal(q, target) ==
    /\ MayChangeProposal(q)
    /\ \/ target = "voting" /\ proposal[q] \in {"published", "retracted"}
       \/ target = "approved" /\ proposal[q] \in ApproveSources
       \/ target = "denied" /\ proposal[q] \in DenySources
       \/ target = "unhandled" /\ proposal[q] = "published"
       \/ target = "published" /\ proposal[q] \in PublishSources
    /\ proposal' = [proposal EXCEPT ![q] = target]
    /\ UNCHANGED <<meetingVars, item, pollVars, speakerVars>>

UsedInPoll(q) == \E p \in Polls : poll[p] # "absent" /\ q \in PollProposals[p]

DeleteProposal(q) ==
    /\ proposal[q] # "absent"
    /\ ~UsedInPoll(q)
    /\ ItemPermissive(ProposalItem[q])
    /\ proposal' = [proposal EXCEPT ![q] = "absent"]
    /\ UNCHANGED <<meetingVars, item, pollVars, speakerVars>>

ProposalNext ==
    \E q \in Proposals :
        \/ AddProposal(q)
        \/ RetractProposal(q)
        \/ \E target \in ProposalStates : MoveProposal(q, target)
        \/ DeleteProposal(q)

-----------------------------------------------------------------------------
(* Which list is active and whether somebody is speaking on it.  The queue *)
(* of a list is the business of module SpeakerQueue.                       *)

\* PATCH of the speaker system's active_list
SetActiveList(l) ==
    /\ meeting # "absent"
    /\ ~systemArchived
    /\ l # NoList => item[l] # "absent"
    /\ activeList' = l
    /\ UNCHANGED <<meetingVars, item, pollVars, proposal, speaking,
                   systemArchived>>

\* Starting a speaker stops the one who was speaking on the same list.
StartSpeaker(l) ==
    /\ activeList = l
    /\ speaking' = speaking \cup {l}
    /\ UNCHANGED <<meetingVars, item, pollVars, proposal, activeList,
                   systemArchived>>

\* The stop and the undo request: nobody is the list's current speaker.
StopSpeaker(l) ==
    /\ l \in speaking
    /\ speaking' = speaking \ {l}
    /\ UNCHANGED <<meetingVars, item, pollVars, proposal, activeList,
                   systemArchived>>

SpeakerNext ==
    \/ \E l \in ListItems \cup {NoList} : SetActiveList(l)
    \/ \E l \in ListItems : StartSpeaker(l) \/ StopSpeaker(l)

-----------------------------------------------------------------------------

Next == MeetingNext \/ ItemNext \/ PollNext \/ ProposalNext \/ SpeakerNext

Spec == Init /\ [][Next]_vars

\* The scheduler runs the weekly job and time passes; nobody has to send a
\* request.
FairSpec ==
    /\ Spec
    /\ WF_vars(GracePeriodEnds)
    /\ WF_vars(DeleteRequestedMeetings)

-----------------------------------------------------------------------------
(* What the workflow promises.                                             *)

\* The state the meeting is in, or goes back to when its deletion is aborted.
EffectiveState == IF meeting = "deleting" THEN preDelete ELSE meeting

\* A poll collects votes only on an agenda item that is ongoing: every event
\* that takes an agenda item out of ongoing (alone or in bulk) is refused
\* while one of its polls is, and a poll starts only on an ongoing item.
OngoingPollHasOngoingItem ==
    \A p \in Polls : poll[p] = "ongoing" => item[PollItem[p]] = "ongoing"

\* No poll is open in a meeting that was closed, whatever was requested after
\* that: archiving, deletion, aborting either of them.
FinishedMeetingHasNoOngoingPoll ==
    EffectiveState \in {"closed", "archiving", "archived"} => NoOngoingPolls

\* The permissions of polls, proposals and agenda items look at the agenda
\* item's archived state only, never at the meeting's.  They are right because
\* the items are archived exactly when the meeting is, which also has no
\* active list and nobody speaking, and requesting and aborting the deletion
\* of an archived meeting keeps it so.
ArchivedMeetingIsSealed ==
    /\ EffectiveState = "archived" =>
          /\ \A a \in AgendaItems : item[a] \in {"archived", "absent"}
          /\ systemArchived
          /\ activeList = NoList
          /\ speaking = {}
    /\ EffectiveState # "archived" => \A a \in AgendaItems : item[a] # "archived"

\* The weekly job deletes no meeting in which a poll was ever opened: an event
\* that a poll needs (make_ongoing) has set start_time, and nothing resets it.
PurgeSparesHeldMeetings ==
    DueForDeletion => \A p \in Polls : poll[p] \in {"absent", "private", "upcoming"}

\* A proposal is never deleted from under a poll that votes on it.
PollProposalsExist ==
    \A p \in Polls :
        poll[p] # "absent" =>
            /\ item[PollItem[p]] # "absent"
            /\ \A q \in PollProposals[p] : proposal[q] # "absent"

\* Polls rest on their content: they are open only on an ongoing item and in a
\* meeting that is not over, and what they vote on is there.
PollsRestOnContent ==
    OngoingPollHasOngoingItem /\ FinishedMeetingHasNoOngoingPoll /\ PollProposalsExist

\* Nothing inside an archived meeting changes any more, except that the
\* meeting is deleted with everything in it.
ArchivedContentFrozen ==
    [][EffectiveState = "archived" =>
          \/ UNCHANGED <<item, poll, result, proposal, activeList, speaking>>
          \/ meeting' = "absent"]_vars

\* A result that was published or withheld stays the one that was counted,
\* until the poll itself is deleted.
CountedResultStands ==
    [][\A p \in Polls :
          poll[p] \in {"finished", "withheld"} =>
              \/ poll'[p] \in {"finished", "withheld"} /\ result'[p] = result[p]
              \/ poll'[p] = "absent"]_vars

LifeOf(p) == INSTANCE PollLifecycle WITH
                 state <- poll[p], outcome <- result[p], Undecided <- NoResult

\* Every poll keeps the promises of PollLifecycle: whatever happens to the
\* agenda items and the meeting around it, it goes through its states in order
\* and its result is written once, until the poll is deleted with it.
PollsKeepLifecycle ==
    /\ \A p \in Polls : LifeOf(p)!LifeInit
    /\ [][\A p \in Polls : LifeOf(p)!LifeNext \/ UNCHANGED <<poll[p], result[p]>>]_vars

\* A meeting that never started and whose deletion was requested is deleted by
\* the job, unless the request is aborted.
RequestedDeletionHappens ==
    (meeting = "deleting" /\ ~startTime) ~> (meeting # "deleting")

(* What docs/workflows.md says "should be enforced in code".               *)
=============================================================================
