------------------------- MODULE LiveView_proofs -------------------------
(***************************************************************************)
(* Proof, for any number of agenda items, polls, proposals and speaker     *)
(* lists, of the safety properties of the meeting's workflow, and that the *)
(* messages of the signal receivers keep an open page equal to what the    *)
(* collectors would send; and of what the contents of an agenda item and a *)
(* room promise beside their pages, for any users, texts and polls.        *)
(*                                                                         *)
(* The receivers look at a row and at the agenda item it is under.  What   *)
(* the proof needs from the workflow is that nothing exists under an item  *)
(* that does not, before and after a step, and that an archived item goes  *)
(* nowhere but away.                                                       *)
(*                                                                         *)
(* Contents and Participation share no variable with the workflow; their   *)
(* part stands at the end.                                                 *)
(***************************************************************************)
EXTENDS LiveView, Participation, TLAPS

-----------------------------------------------------------------------------
(* The workflow                                                            *)

\* pre_delete_state is meaningful exactly while the deletion is pending.
PreDeleteKept == preDelete = "none" <=> meeting # "deleting"

\* A meeting without a start_time has never left upcoming, so nothing that
\* needs an ongoing meeting has happened in it.
UnstartedMeetingIsBlank ==
    ~startTime =>
        /\ EffectiveState \in {"upcoming", "absent"}
        /\ \A p \in Polls : poll[p] \in {"absent", "private", "upcoming"}

\* The inductive invariant.
IInv ==
    /\ TypeOK
    /\ PreDeleteKept
    /\ UnstartedMeetingIsBlank
    /\ OngoingPollHasOngoingItem
    /\ FinishedMeetingHasNoOngoingPoll
    /\ ArchivedMeetingIsSealed
    /\ PollProposalsExist

\* Every state the program starts in satisfies the invariant.
LEMMA InitIInv == Init => IInv
<1> SUFFICES ASSUME Init PROVE IInv
    OBVIOUS
<1> USE ConstantsAssumption DEF Init
<1>1. TypeOK
    BY DEF TypeOK, NoResult, MeetingStates
<1>2. PreDeleteKept /\ UnstartedMeetingIsBlank
    BY DEF PreDeleteKept, UnstartedMeetingIsBlank, EffectiveState
<1>3. OngoingPollHasOngoingItem /\ FinishedMeetingHasNoOngoingPoll
    BY DEF OngoingPollHasOngoingItem, FinishedMeetingHasNoOngoingPoll,
           NoOngoingPolls
<1>4. ArchivedMeetingIsSealed /\ PollProposalsExist
    BY DEF ArchivedMeetingIsSealed, PollProposalsExist, EffectiveState
<1> QED
    BY <1>1, <1>2, <1>3, <1>4 DEF IInv

-----------------------------------------------------------------------------
\* Every meeting event, and the job that deletes meetings, keeps the types.
LEMMA MeetingKeepsTypes == TypeOK /\ PreDeleteKept /\ MeetingNext => TypeOK'
<1> SUFFICES ASSUME TypeOK, PreDeleteKept, MeetingNext PROVE TypeOK'
    OBVIOUS
<1> USE ConstantsAssumption DEF TypeOK, pollVars, speakerVars
<1>1. CASE MakeUpcoming
    BY <1>1 DEF MakeUpcoming, MeetingStates
<1>2. CASE MakeOngoing
    BY <1>2 DEF MakeOngoing, MeetingStates
<1>3. CASE Close
    BY <1>3 DEF Close, MeetingStates
<1>4. CASE RequestArchiving
    BY <1>4 DEF RequestArchiving, MeetingStates
<1>5. CASE AbortArchiving
    BY <1>5 DEF AbortArchiving, MeetingStates
<1>6. CASE RequestDelete
    BY <1>6 DEF RequestDelete, MeetingStates
<1>7. CASE AbortDelete
    BY <1>7 DEF AbortDelete, MeetingStates, PreDeleteKept
<1>8. CASE Archive
    BY <1>8 DEF Archive, MeetingStates, ItemStates
<1>9. CASE DestroyMeeting
    BY <1>9 DEF DestroyMeeting, DeleteMeetingRow, NoResult, MeetingStates
<1>10. CASE GracePeriodEnds
    BY <1>10 DEF GracePeriodEnds, MeetingStates
<1>11. CASE DeleteRequestedMeetings
    BY <1>11 DEF DeleteRequestedMeetings, DeleteMeetingRow, NoResult,
       MeetingStates
<1> QED
    BY <1>1, <1>2, <1>3, <1>4, <1>5, <1>6, <1>7, <1>8, <1>9, <1>10, <1>11 DEF
       MeetingNext

\* Every meeting event, and the job that deletes meetings, preserves the
\* invariant.
LEMMA MeetingKeepsIInv == IInv /\ MeetingNext => IInv'
<1> SUFFICES ASSUME IInv, MeetingNext PROVE IInv'
    OBVIOUS
<1>1. TypeOK'
    BY MeetingKeepsTypes DEF IInv
<1> USE ConstantsAssumption DEF IInv, TypeOK, MeetingStates, PreDeleteKept,
       UnstartedMeetingIsBlank, OngoingPollHasOngoingItem,
       FinishedMeetingHasNoOngoingPoll, ArchivedMeetingIsSealed,
       PollProposalsExist, EffectiveState, NoOngoingPolls, pollVars,
       speakerVars
<1>2. CASE MakeUpcoming
  <2>1. PreDeleteKept' /\ UnstartedMeetingIsBlank' /\ ArchivedMeetingIsSealed'
    BY <1>2 DEF MakeUpcoming
  <2>2. /\ OngoingPollHasOngoingItem' /\ FinishedMeetingHasNoOngoingPoll'
        /\ PollProposalsExist'
    BY <1>2 DEF MakeUpcoming
  <2> QED
    BY <1>1, <2>1, <2>2
<1>3. CASE MakeOngoing
  <2>1. PreDeleteKept' /\ UnstartedMeetingIsBlank' /\ ArchivedMeetingIsSealed'
    BY <1>3 DEF MakeOngoing
  <2>2. /\ OngoingPollHasOngoingItem' /\ FinishedMeetingHasNoOngoingPoll'
        /\ PollProposalsExist'
    BY <1>3 DEF MakeOngoing
  <2> QED
    BY <1>1, <2>1, <2>2
<1>4. CASE Close
  <2>1. PreDeleteKept' /\ UnstartedMeetingIsBlank' /\ ArchivedMeetingIsSealed'
    BY <1>4 DEF Close
  <2>2. /\ OngoingPollHasOngoingItem' /\ FinishedMeetingHasNoOngoingPoll'
        /\ PollProposalsExist'
    BY <1>4 DEF Close
  <2> QED
    BY <1>1, <2>1, <2>2
<1>5. CASE RequestArchiving
  <2>1. PreDeleteKept' /\ UnstartedMeetingIsBlank' /\ ArchivedMeetingIsSealed'
    BY <1>5 DEF RequestArchiving
  <2>2. /\ OngoingPollHasOngoingItem' /\ FinishedMeetingHasNoOngoingPoll'
        /\ PollProposalsExist'
    BY <1>5 DEF RequestArchiving
  <2> QED
    BY <1>1, <2>1, <2>2
<1>6. CASE AbortArchiving
  <2>1. PreDeleteKept' /\ UnstartedMeetingIsBlank' /\ ArchivedMeetingIsSealed'
    BY <1>6 DEF AbortArchiving
  <2>2. /\ OngoingPollHasOngoingItem' /\ FinishedMeetingHasNoOngoingPoll'
        /\ PollProposalsExist'
    BY <1>6 DEF AbortArchiving
  <2> QED
    BY <1>1, <2>1, <2>2
<1>7. CASE RequestDelete
  <2>1. PreDeleteKept' /\ UnstartedMeetingIsBlank' /\ ArchivedMeetingIsSealed'
    BY <1>7 DEF RequestDelete
  <2>2. /\ OngoingPollHasOngoingItem' /\ FinishedMeetingHasNoOngoingPoll'
        /\ PollProposalsExist'
    BY <1>7 DEF RequestDelete
  <2> QED
    BY <1>1, <2>1, <2>2
<1>8. CASE AbortDelete
  <2>1. PreDeleteKept' /\ UnstartedMeetingIsBlank' /\ ArchivedMeetingIsSealed'
    BY <1>8 DEF AbortDelete
  <2>2. /\ OngoingPollHasOngoingItem' /\ FinishedMeetingHasNoOngoingPoll'
        /\ PollProposalsExist'
    BY <1>8 DEF AbortDelete
  <2> QED
    BY <1>1, <2>1, <2>2
<1>9. CASE Archive
  <2>1. PreDeleteKept' /\ UnstartedMeetingIsBlank' /\ ArchivedMeetingIsSealed'
    BY <1>9 DEF Archive
  <2>2. /\ OngoingPollHasOngoingItem' /\ FinishedMeetingHasNoOngoingPoll'
        /\ PollProposalsExist'
    BY <1>9 DEF Archive
  <2> QED
    BY <1>1, <2>1, <2>2
<1>10. CASE DestroyMeeting
  <2>1. PreDeleteKept' /\ UnstartedMeetingIsBlank' /\ ArchivedMeetingIsSealed'
    BY <1>10 DEF DestroyMeeting, DeleteMeetingRow, NoResult
  <2>2. /\ OngoingPollHasOngoingItem' /\ FinishedMeetingHasNoOngoingPoll'
        /\ PollProposalsExist'
    BY <1>10 DEF DestroyMeeting, DeleteMeetingRow, NoResult
  <2> QED
    BY <1>1, <2>1, <2>2
<1>11. CASE GracePeriodEnds
  <2>1. PreDeleteKept' /\ UnstartedMeetingIsBlank' /\ ArchivedMeetingIsSealed'
    BY <1>11 DEF GracePeriodEnds
  <2>2. /\ OngoingPollHasOngoingItem' /\ FinishedMeetingHasNoOngoingPoll'
        /\ PollProposalsExist'
    BY <1>11 DEF GracePeriodEnds
  <2> QED
    BY <1>1, <2>1, <2>2
<1>12. CASE DeleteRequestedMeetings
  <2>1. PreDeleteKept' /\ UnstartedMeetingIsBlank' /\ ArchivedMeetingIsSealed'
    BY <1>12 DEF DeleteRequestedMeetings, DeleteMeetingRow, NoResult
  <2>2. /\ OngoingPollHasOngoingItem' /\ FinishedMeetingHasNoOngoingPoll'
        /\ PollProposalsExist'
    BY <1>12 DEF DeleteRequestedMeetings, DeleteMeetingRow, NoResult
  <2> QED
    BY <1>1, <2>1, <2>2
<1> QED
    BY <1>2, <1>3, <1>4, <1>5, <1>6, <1>7, <1>8, <1>9, <1>10, <1>11, <1>12 DEF
       MeetingNext

-----------------------------------------------------------------------------
\* Every agenda item request keeps the types.
LEMMA ItemKeepsTypes == TypeOK /\ PreDeleteKept /\ ItemNext => TypeOK'
<1> SUFFICES ASSUME TypeOK, PreDeleteKept, ItemNext PROVE TypeOK'
    OBVIOUS
<1> USE ConstantsAssumption DEF TypeOK, meetingVars, pollVars, speakerVars
<1>1. ASSUME NEW a \in AgendaItems, CreateItem(a) PROVE TypeOK'
    BY <1>1 DEF CreateItem, ItemStates
<1>2. ASSUME NEW a \in AgendaItems, DeleteItem(a) PROVE TypeOK'
    BY <1>2 DEF DeleteItem, DeleteItemRows, NoResult, ItemStates
<1>3. ASSUME NEW a \in AgendaItems, NEW target \in ItemStates, MoveItem(a,
       target) PROVE TypeOK'
    BY <1>3 DEF MoveItem, DeactivateLists, ItemStates
<1>4. ASSUME NEW chosen \in SUBSET AgendaItems, BulkDelete(chosen) PROVE
       TypeOK'
    BY <1>4 DEF BulkDelete, DeleteItemRows, NoResult, ItemStates
<1>5. ASSUME NEW chosen \in SUBSET AgendaItems, NEW target \in ItemStates,
       BulkChange(chosen, target) PROVE TypeOK'
    BY <1>5 DEF BulkChange, DeactivateLists, ItemStates
<1> QED
    BY <1>1, <1>2, <1>3, <1>4, <1>5 DEF ItemNext

\* Every agenda item request preserves the invariant.
LEMMA ItemKeepsIInv == IInv /\ ItemNext => IInv'
<1> SUFFICES ASSUME IInv, ItemNext PROVE IInv'
    OBVIOUS
<1>1. TypeOK'
    BY ItemKeepsTypes DEF IInv
<1> USE ConstantsAssumption DEF IInv, TypeOK, MeetingStates, PreDeleteKept,
       UnstartedMeetingIsBlank, OngoingPollHasOngoingItem,
       FinishedMeetingHasNoOngoingPoll, ArchivedMeetingIsSealed,
       PollProposalsExist, EffectiveState, NoOngoingPolls, meetingVars,
       pollVars, speakerVars
<1>2. ASSUME NEW a \in AgendaItems, CreateItem(a) PROVE IInv'
  <2>1. PreDeleteKept' /\ UnstartedMeetingIsBlank' /\ ArchivedMeetingIsSealed'
    BY <1>2 DEF CreateItem, MeetingArchivedStates
  <2>2. /\ OngoingPollHasOngoingItem' /\ FinishedMeetingHasNoOngoingPoll'
        /\ PollProposalsExist'
    BY <1>2 DEF CreateItem, MeetingArchivedStates
  <2> QED
    BY <1>1, <2>1, <2>2
<1>3. ASSUME NEW a \in AgendaItems, DeleteItem(a) PROVE IInv'
  <2>1. PreDeleteKept' /\ UnstartedMeetingIsBlank' /\ ArchivedMeetingIsSealed'
    BY <1>3 DEF DeleteItem, DeleteItemRows, NoResult, ItemNotArchived
  <2>2. /\ OngoingPollHasOngoingItem' /\ FinishedMeetingHasNoOngoingPoll'
        /\ PollProposalsExist'
    BY <1>3 DEF DeleteItem, DeleteItemRows, NoResult, ItemNotArchived
  <2> QED
    BY <1>1, <2>1, <2>2
<1>4. ASSUME NEW a \in AgendaItems, NEW target \in ItemStates, MoveItem(a,
       target) PROVE IInv'
  <2>1. PreDeleteKept' /\ UnstartedMeetingIsBlank' /\ ArchivedMeetingIsSealed'
    BY <1>4 DEF MoveItem, MayMoveItem, MayMakeItemUpcoming, MayUnpublishItem,
       MayMakeItemOngoing, MayCloseItem, NoOngoingPollsOn, DeactivateLists
  <2>2. /\ OngoingPollHasOngoingItem' /\ FinishedMeetingHasNoOngoingPoll'
        /\ PollProposalsExist'
    BY <1>4 DEF MoveItem, MayMoveItem, MayMakeItemUpcoming, MayUnpublishItem,
       MayMakeItemOngoing, MayCloseItem, NoOngoingPollsOn, DeactivateLists
  <2> QED
    BY <1>1, <2>1, <2>2
<1>5. ASSUME NEW chosen \in SUBSET AgendaItems, BulkDelete(chosen) PROVE IInv'
  <2>1. PreDeleteKept' /\ UnstartedMeetingIsBlank' /\ ArchivedMeetingIsSealed'
    BY <1>5 DEF BulkDelete, DeleteItemRows, NoResult
  <2>2. /\ OngoingPollHasOngoingItem' /\ FinishedMeetingHasNoOngoingPoll'
        /\ PollProposalsExist'
    BY <1>5 DEF BulkDelete, DeleteItemRows, NoResult
  <2> QED
    BY <1>1, <2>1, <2>2
<1>6. ASSUME NEW chosen \in SUBSET AgendaItems, NEW target \in ItemStates,
       BulkChange(chosen, target) PROVE IInv'
  <2>1. PreDeleteKept' /\ UnstartedMeetingIsBlank' /\ ArchivedMeetingIsSealed'
    BY <1>6 DEF BulkChange, MeetingArchivedStates, MayMoveItem,
       MayMakeItemUpcoming, MayUnpublishItem, MayMakeItemOngoing, MayCloseItem,
       NoOngoingPollsOn, DeactivateLists
  <2>2. /\ OngoingPollHasOngoingItem' /\ FinishedMeetingHasNoOngoingPoll'
        /\ PollProposalsExist'
    BY <1>6 DEF BulkChange, MeetingArchivedStates, MayMoveItem,
       MayMakeItemUpcoming, MayUnpublishItem, MayMakeItemOngoing, MayCloseItem,
       NoOngoingPollsOn, DeactivateLists
  <2> QED
    BY <1>1, <2>1, <2>2
<1> QED
    BY <1>2, <1>3, <1>4, <1>5, <1>6 DEF ItemNext

-----------------------------------------------------------------------------
\* Whatever result a poll applies, its proposals stay in declared states and
\* none appears or disappears.
LEMMA ResultMovesProposals ==
    ASSUME TypeOK, NEW p \in Polls, NEW r, SetProposalsFromResult(p, r)
    PROVE  /\ proposal' \in [Proposals -> ProposalStates \cup {"absent"}]
           /\ \A q \in Proposals :
                  proposal[q] # "absent" => proposal'[q] # "absent"
<1>1. ASSUME NEW q \in Proposals
      PROVE  ResultState(r, q) \in ProposalStates \/ ResultState(r, q) = proposal[q]
    BY DEF ResultState, ProposalStates
<1> QED
    BY <1>1 DEF SetProposalsFromResult, TypeOK, ProposalStates

-----------------------------------------------------------------------------
\* Every poll request keeps the types.
LEMMA PollKeepsTypes == TypeOK /\ PreDeleteKept /\ PollNext => TypeOK'
<1> SUFFICES ASSUME TypeOK, PreDeleteKept, PollNext PROVE TypeOK'
    OBVIOUS
<1> USE ConstantsAssumption DEF TypeOK, meetingVars, speakerVars, pollVars
<1>1. ASSUME NEW p \in Polls, NEW start \in BOOLEAN, CreatePoll(p, start) PROVE
       TypeOK'
  <2>1. poll' \in [Polls -> PollStates \cup {"absent"}]
    BY <1>1 DEF CreatePoll, PollStates
  <2>2. proposal' \in [Proposals -> ProposalStates \cup {"absent"}]
    BY <1>1 DEF CreatePoll, LockProposals, ProposalStates
  <2>3. UNCHANGED <<meetingVars, item, result, speakerVars>>
    BY <1>1 DEF CreatePoll
  <2> QED
    BY <2>1, <2>2, <2>3
<1>2. ASSUME NEW p \in Polls, MakePollUpcoming(p) PROVE TypeOK'
    BY <1>2 DEF MakePollUpcoming, LockProposals, PollStates, ProposalStates,
       NoResult
<1>3. ASSUME NEW p \in Polls, MakePollOngoing(p) PROVE TypeOK'
    BY <1>3 DEF MakePollOngoing, LockProposals, PollStates, ProposalStates,
       NoResult
<1>4. ASSUME NEW p \in Polls, UnpublishPoll(p) PROVE TypeOK'
    BY <1>4 DEF UnpublishPoll, PollStates, ProposalStates, NoResult
<1>5. ASSUME NEW p \in Polls, CancelPoll(p) PROVE TypeOK'
    BY <1>5 DEF CancelPoll, PublishProposals, PollStates, ProposalStates,
       NoResult
<1>6. ASSUME NEW p \in Polls, ClosePoll(p) PROVE TypeOK'
    BY <1>6, ResultMovesProposals DEF ClosePoll, Results, PollStates,
       ProposalStates, NoResult
<1>7. ASSUME NEW p \in Polls, PublishResult(p) PROVE TypeOK'
    BY <1>7, ResultMovesProposals DEF PublishResult, PollStates,
       ProposalStates, NoResult
<1>8. ASSUME NEW p \in Polls, WithholdResult(p) PROVE TypeOK'
    BY <1>8 DEF WithholdResult, PollStates, ProposalStates, NoResult
<1>9. ASSUME NEW p \in Polls, DeletePoll(p) PROVE TypeOK'
    BY <1>9 DEF DeletePoll, PollStates, ProposalStates, NoResult
<1> QED
    BY <1>1, <1>2, <1>3, <1>4, <1>5, <1>6, <1>7, <1>8, <1>9 DEF PollNext

\* Every poll request preserves the invariant.
LEMMA PollKeepsIInv == IInv /\ PollNext => IInv'
<1> SUFFICES ASSUME IInv, PollNext PROVE IInv'
    OBVIOUS
<1>1. TypeOK'
    BY PollKeepsTypes DEF IInv
<1> USE ConstantsAssumption DEF IInv, TypeOK, MeetingStates, PreDeleteKept,
       UnstartedMeetingIsBlank, OngoingPollHasOngoingItem,
       FinishedMeetingHasNoOngoingPoll, ArchivedMeetingIsSealed,
       PollProposalsExist, EffectiveState, NoOngoingPolls, meetingVars,
       speakerVars, pollVars
<1>2. ASSUME NEW p \in Polls, NEW start \in BOOLEAN, CreatePoll(p, start) PROVE
       IInv'
  <2>1. PreDeleteKept' /\ UnstartedMeetingIsBlank' /\ ArchivedMeetingIsSealed'
    BY <1>2 DEF CreatePoll, ItemPermissive, MayStartPoll
  <2>2. /\ OngoingPollHasOngoingItem' /\ FinishedMeetingHasNoOngoingPoll'
        /\ PollProposalsExist'
    BY <1>2 DEF CreatePoll, ItemPermissive, LockProposals, MayStartPoll
  <2> QED
    BY <1>1, <2>1, <2>2
<1>3. ASSUME NEW p \in Polls, MakePollUpcoming(p) PROVE IInv'
  <2>1. PreDeleteKept' /\ UnstartedMeetingIsBlank' /\ ArchivedMeetingIsSealed'
    BY <1>3 DEF MakePollUpcoming
  <2>2. /\ OngoingPollHasOngoingItem' /\ FinishedMeetingHasNoOngoingPoll'
        /\ PollProposalsExist'
    BY <1>3 DEF MakePollUpcoming, LockProposals
  <2> QED
    BY <1>1, <2>1, <2>2
<1>4. ASSUME NEW p \in Polls, MakePollOngoing(p) PROVE IInv'
  <2>1. PreDeleteKept' /\ UnstartedMeetingIsBlank' /\ ArchivedMeetingIsSealed'
    BY <1>4 DEF MakePollOngoing, MayStartPoll
  <2>2. /\ OngoingPollHasOngoingItem' /\ FinishedMeetingHasNoOngoingPoll'
        /\ PollProposalsExist'
    BY <1>4 DEF MakePollOngoing, LockProposals, MayStartPoll
  <2> QED
    BY <1>1, <2>1, <2>2
<1>5. ASSUME NEW p \in Polls, UnpublishPoll(p) PROVE IInv'
  <2>1. PreDeleteKept' /\ UnstartedMeetingIsBlank' /\ ArchivedMeetingIsSealed'
    BY <1>5 DEF UnpublishPoll
  <2>2. /\ OngoingPollHasOngoingItem' /\ FinishedMeetingHasNoOngoingPoll'
        /\ PollProposalsExist'
    BY <1>5 DEF UnpublishPoll
  <2> QED
    BY <1>1, <2>1, <2>2
<1>6. ASSUME NEW p \in Polls, CancelPoll(p) PROVE IInv'
  <2>1. PreDeleteKept' /\ UnstartedMeetingIsBlank' /\ ArchivedMeetingIsSealed'
    BY <1>6 DEF CancelPoll
  <2>2. /\ OngoingPollHasOngoingItem' /\ FinishedMeetingHasNoOngoingPoll'
        /\ PollProposalsExist'
    BY <1>6 DEF CancelPoll, PublishProposals
  <2> QED
    BY <1>1, <2>1, <2>2
<1>7. ASSUME NEW p \in Polls, ClosePoll(p) PROVE IInv'
  <2>1. PreDeleteKept' /\ UnstartedMeetingIsBlank' /\ ArchivedMeetingIsSealed'
    BY <1>7 DEF ClosePoll, CloseSources
  <2>2. /\ OngoingPollHasOngoingItem' /\ FinishedMeetingHasNoOngoingPoll'
        /\ PollProposalsExist'
    BY <1>7, ResultMovesProposals DEF ClosePoll, CloseSources, Results
  <2> QED
    BY <1>1, <2>1, <2>2
<1>8. ASSUME NEW p \in Polls, PublishResult(p) PROVE IInv'
  <2>1. PreDeleteKept' /\ UnstartedMeetingIsBlank' /\ ArchivedMeetingIsSealed'
    BY <1>8 DEF PublishResult
  <2>2. /\ OngoingPollHasOngoingItem' /\ FinishedMeetingHasNoOngoingPoll'
        /\ PollProposalsExist'
    BY <1>8, ResultMovesProposals DEF PublishResult
  <2> QED
    BY <1>1, <2>1, <2>2
<1>9. ASSUME NEW p \in Polls, WithholdResult(p) PROVE IInv'
  <2>1. PreDeleteKept' /\ UnstartedMeetingIsBlank' /\ ArchivedMeetingIsSealed'
    BY <1>9 DEF WithholdResult
  <2>2. /\ OngoingPollHasOngoingItem' /\ FinishedMeetingHasNoOngoingPoll'
        /\ PollProposalsExist'
    BY <1>9 DEF WithholdResult
  <2> QED
    BY <1>1, <2>1, <2>2
<1>10. ASSUME NEW p \in Polls, DeletePoll(p) PROVE IInv'
  <2>1. PreDeleteKept' /\ UnstartedMeetingIsBlank' /\ ArchivedMeetingIsSealed'
    BY <1>10 DEF DeletePoll
  <2>2. /\ OngoingPollHasOngoingItem' /\ FinishedMeetingHasNoOngoingPoll'
        /\ PollProposalsExist'
    BY <1>10 DEF DeletePoll
  <2> QED
    BY <1>1, <2>1, <2>2
<1> QED
    BY <1>2, <1>3, <1>4, <1>5, <1>6, <1>7, <1>8, <1>9, <1>10 DEF PollNext

-----------------------------------------------------------------------------
\* Every proposal request keeps the types.
LEMMA ProposalKeepsTypes == TypeOK /\ PreDeleteKept /\ ProposalNext => TypeOK'
<1> SUFFICES ASSUME TypeOK, PreDeleteKept, ProposalNext PROVE TypeOK'
    OBVIOUS
<1> USE ConstantsAssumption DEF TypeOK, meetingVars, pollVars, speakerVars
<1>1. ASSUME NEW q \in Proposals, AddProposal(q) PROVE TypeOK'
    BY <1>1 DEF AddProposal, ProposalStates
<1>2. ASSUME NEW q \in Proposals, RetractProposal(q) PROVE TypeOK'
    BY <1>2 DEF RetractProposal, ProposalStates
<1>3. ASSUME NEW q \in Proposals, NEW target \in ProposalStates,
       MoveProposal(q, target) PROVE TypeOK'
    BY <1>3 DEF MoveProposal, ApproveSources, DenySources, PublishSources,
       ProposalStates
<1>4. ASSUME NEW q \in Proposals, DeleteProposal(q) PROVE TypeOK'
    BY <1>4 DEF DeleteProposal, ProposalStates
<1> QED
    BY <1>1, <1>2, <1>3, <1>4 DEF ProposalNext

\* Every proposal request preserves the invariant.
LEMMA ProposalKeepsIInv == IInv /\ ProposalNext => IInv'
<1> SUFFICES ASSUME IInv, ProposalNext PROVE IInv'
    OBVIOUS
<1>1. TypeOK'
    BY ProposalKeepsTypes DEF IInv
<1> USE ConstantsAssumption DEF IInv, TypeOK, MeetingStates, PreDeleteKept,
       UnstartedMeetingIsBlank, OngoingPollHasOngoingItem,
       FinishedMeetingHasNoOngoingPoll, ArchivedMeetingIsSealed,
       PollProposalsExist, EffectiveState, NoOngoingPolls, meetingVars,
       pollVars, speakerVars
<1>2. ASSUME NEW q \in Proposals, AddProposal(q) PROVE IInv'
  <2>1. PreDeleteKept' /\ UnstartedMeetingIsBlank' /\ ArchivedMeetingIsSealed'
    BY <1>2 DEF AddProposal, ItemPermissive
  <2>2. /\ OngoingPollHasOngoingItem' /\ FinishedMeetingHasNoOngoingPoll'
        /\ PollProposalsExist'
    BY <1>2 DEF AddProposal, ItemPermissive
  <2> QED
    BY <1>1, <2>1, <2>2
<1>3. ASSUME NEW q \in Proposals, RetractProposal(q) PROVE IInv'
  <2>1. PreDeleteKept' /\ UnstartedMeetingIsBlank' /\ ArchivedMeetingIsSealed'
    BY <1>3 DEF RetractProposal
  <2>2. /\ OngoingPollHasOngoingItem' /\ FinishedMeetingHasNoOngoingPoll'
        /\ PollProposalsExist'
    BY <1>3 DEF RetractProposal
  <2> QED
    BY <1>1, <2>1, <2>2
<1>4. ASSUME NEW q \in Proposals, NEW target \in ProposalStates,
       MoveProposal(q, target) PROVE IInv'
  <2>1. PreDeleteKept' /\ UnstartedMeetingIsBlank' /\ ArchivedMeetingIsSealed'
    BY <1>4 DEF MoveProposal, ApproveSources, DenySources, PublishSources,
       ProposalStates
  <2>2. /\ OngoingPollHasOngoingItem' /\ FinishedMeetingHasNoOngoingPoll'
        /\ PollProposalsExist'
    BY <1>4 DEF MoveProposal, ApproveSources, DenySources, PublishSources,
       ProposalStates
  <2> QED
    BY <1>1, <2>1, <2>2
<1>5. ASSUME NEW q \in Proposals, DeleteProposal(q) PROVE IInv'
  <2>1. PreDeleteKept' /\ UnstartedMeetingIsBlank' /\ ArchivedMeetingIsSealed'
    BY <1>5 DEF DeleteProposal, UsedInPoll
  <2>2. /\ OngoingPollHasOngoingItem' /\ FinishedMeetingHasNoOngoingPoll'
        /\ PollProposalsExist'
    BY <1>5 DEF DeleteProposal, UsedInPoll
  <2> QED
    BY <1>1, <2>1, <2>2
<1> QED
    BY <1>2, <1>3, <1>4, <1>5 DEF ProposalNext

-----------------------------------------------------------------------------
\* Every request about the active list and its speaker keeps the types.
LEMMA SpeakerKeepsTypes == TypeOK /\ PreDeleteKept /\ SpeakerNext => TypeOK'
<1> SUFFICES ASSUME TypeOK, PreDeleteKept, SpeakerNext PROVE TypeOK'
    OBVIOUS
<1> USE ConstantsAssumption DEF TypeOK, meetingVars, pollVars
<1>1. ASSUME NEW l \in ListItems \cup {NoList}, SetActiveList(l) PROVE TypeOK'
    BY <1>1 DEF SetActiveList
<1>2. ASSUME NEW l \in ListItems, StartSpeaker(l) PROVE TypeOK'
    BY <1>2 DEF StartSpeaker
<1>3. ASSUME NEW l \in ListItems, StopSpeaker(l) PROVE TypeOK'
    BY <1>3 DEF StopSpeaker
<1> QED
    BY <1>1, <1>2, <1>3 DEF SpeakerNext

\* Every request about the active list and its speaker preserves the
\* invariant.
LEMMA SpeakerKeepsIInv == IInv /\ SpeakerNext => IInv'
<1> SUFFICES ASSUME IInv, SpeakerNext PROVE IInv'
    OBVIOUS
<1>1. TypeOK'
    BY SpeakerKeepsTypes DEF IInv
<1> USE ConstantsAssumption DEF IInv, TypeOK, MeetingStates, PreDeleteKept,
       UnstartedMeetingIsBlank, OngoingPollHasOngoingItem,
       FinishedMeetingHasNoOngoingPoll, ArchivedMeetingIsSealed,
       PollProposalsExist, EffectiveState, NoOngoingPolls, meetingVars,
       pollVars
<1>2. ASSUME NEW l \in ListItems \cup {NoList}, SetActiveList(l) PROVE IInv'
  <2>1. PreDeleteKept' /\ UnstartedMeetingIsBlank' /\ ArchivedMeetingIsSealed'
    BY <1>2 DEF SetActiveList
  <2>2. /\ OngoingPollHasOngoingItem' /\ FinishedMeetingHasNoOngoingPoll'
        /\ PollProposalsExist'
    BY <1>2 DEF SetActiveList
  <2> QED
    BY <1>1, <2>1, <2>2
<1>3. ASSUME NEW l \in ListItems, StartSpeaker(l) PROVE IInv'
  <2>1. PreDeleteKept' /\ UnstartedMeetingIsBlank' /\ ArchivedMeetingIsSealed'
    BY <1>3 DEF StartSpeaker
  <2>2. /\ OngoingPollHasOngoingItem' /\ FinishedMeetingHasNoOngoingPoll'
        /\ PollProposalsExist'
    BY <1>3 DEF StartSpeaker
  <2> QED
    BY <1>1, <2>1, <2>2
<1>4. ASSUME NEW l \in ListItems, StopSpeaker(l) PROVE IInv'
  <2>1. PreDeleteKept' /\ UnstartedMeetingIsBlank' /\ ArchivedMeetingIsSealed'
    BY <1>4 DEF StopSpeaker
  <2>2. /\ OngoingPollHasOngoingItem' /\ FinishedMeetingHasNoOngoingPoll'
        /\ PollProposalsExist'
    BY <1>4 DEF StopSpeaker
  <2> QED
    BY <1>1, <2>1, <2>2
<1> QED
    BY <1>2, <1>3, <1>4 DEF SpeakerNext

-----------------------------------------------------------------------------
\* The invariant is inductive.
LEMMA NextKeepsIInv == IInv /\ [Next]_vars => IInv'
<1> SUFFICES ASSUME IInv, [Next]_vars PROVE IInv'
    OBVIOUS
<1>1. CASE UNCHANGED vars
    BY <1>1 DEF vars, meetingVars, pollVars, speakerVars, IInv, TypeOK,
       PreDeleteKept, UnstartedMeetingIsBlank, OngoingPollHasOngoingItem,
       FinishedMeetingHasNoOngoingPoll, ArchivedMeetingIsSealed,
       PollProposalsExist, EffectiveState, NoOngoingPolls
<1> QED
    BY <1>1, MeetingKeepsIInv, ItemKeepsIInv, PollKeepsIInv,
       ProposalKeepsIInv, SpeakerKeepsIInv DEF Next

\* The inductive invariant holds in every state a meeting can reach.
THEOREM Invariance == Spec => []IInv
    BY InitIInv, NextKeepsIInv, PTL DEF Spec

\* Every column the workflow reads holds a state its state machine declares.
THEOREM TypeCorrect == Spec => []TypeOK
<1>1. IInv => TypeOK
    BY DEF IInv
<1> QED
    BY <1>1, Invariance, PTL

\* Votes are collected only on ongoing agenda items and never in a meeting that
\* was closed, and no proposal is deleted from under a poll, for any agenda.
THEOREM PollsRest == Spec => []PollsRestOnContent
<1>1. IInv => PollsRestOnContent
    BY DEF IInv, PollsRestOnContent
<1> QED
    BY <1>1, Invariance, PTL

\* Agenda items are archived exactly when their meeting is: the permissions
\* may look at the agenda item alone.
THEOREM ArchiveSeals == Spec => []ArchivedMeetingIsSealed
<1>1. IInv => ArchivedMeetingIsSealed
    BY DEF IInv
<1> QED
    BY <1>1, Invariance, PTL

\* The weekly job never deletes a meeting in which a poll was opened.
THEOREM PurgeIsSafe == Spec => []PurgeSparesHeldMeetings
<1>1. IInv => PurgeSparesHeldMeetings
    BY DEF IInv, UnstartedMeetingIsBlank, PurgeSparesHeldMeetings,
           DueForDeletion
<1> QED
    BY <1>1, Invariance, PTL

-----------------------------------------------------------------------------
\* Nothing in an archived meeting changes, except by deleting the meeting.
LEMMA ArchivedStepsFreeze ==
    IInv /\ [Next]_vars =>
        (EffectiveState = "archived" =>
            \/ UNCHANGED <<item, poll, result, proposal, activeList, speaking>>
            \/ meeting' = "absent")
<1> SUFFICES ASSUME IInv, [Next]_vars, EffectiveState = "archived"
             PROVE  \/ UNCHANGED <<item, poll, result, proposal, activeList,
                                   speaking>>
                    \/ meeting' = "absent"
    OBVIOUS
<1> USE ConstantsAssumption DEF meetingVars, pollVars, speakerVars
<1>1. /\ \A a \in AgendaItems : item[a] \in {"archived", "absent"}
      /\ systemArchived /\ activeList = NoList /\ speaking = {}
      /\ meeting \in {"archived", "deleting"}
      /\ preDelete \in {"archived", "none"}
      /\ meeting = "deleting" => preDelete = "archived"
    BY DEF IInv, ArchivedMeetingIsSealed, EffectiveState, TypeOK,
           MeetingStates, PreDeleteKept
<1>2. CASE MeetingNext
    BY <1>1, <1>2 DEF MeetingNext, MakeUpcoming, MakeOngoing, Close,
       RequestArchiving, AbortArchiving, RequestDelete, AbortDelete, Archive,
       DestroyMeeting, DeleteMeetingRow, GracePeriodEnds,
       DeleteRequestedMeetings
<1>3. CASE ItemNext
  <2>1. ASSUME NEW a \in AgendaItems, NEW target \in ItemStates,
               MayMoveItem(a, target)
        PROVE  FALSE
      BY <1>1, <2>1 DEF MayMoveItem, MayMakeItemUpcoming, MayUnpublishItem,
         MayMakeItemOngoing, MayCloseItem
  <2> QED
      BY <1>1, <1>3, <2>1 DEF ItemNext, CreateItem, DeleteItem, MoveItem,
         BulkDelete, BulkChange, ItemNotArchived, MeetingArchivedStates
<1>4. CASE PollNext
  <2>1. ASSUME NEW p \in Polls
        PROVE  ~MayChangePoll(p) /\ ~ItemPermissive(PollItem[p])
      BY <1>1 DEF MayChangePoll, ItemNotArchived, ItemPermissive
  <2> QED
      BY <1>4, <2>1 DEF PollNext, CreatePoll, MakePollUpcoming,
         MakePollOngoing, UnpublishPoll, CancelPoll, ClosePoll, PublishResult,
         WithholdResult, DeletePoll, MayStartPoll
<1>5. CASE ProposalNext
  <2>1. ASSUME NEW q \in Proposals
        PROVE  ~MayChangeProposal(q) /\ ~ItemPermissive(ProposalItem[q])
      BY <1>1 DEF MayChangeProposal, ItemNotArchived, ItemPermissive
  <2> QED
      BY <1>5, <2>1 DEF ProposalNext, AddProposal, RetractProposal,
         MoveProposal, DeleteProposal
<1>6. CASE SpeakerNext
    BY <1>1, <1>6 DEF SpeakerNext, SetActiveList, StartSpeaker, StopSpeaker
<1>7. CASE UNCHANGED vars
    BY <1>7 DEF vars
<1> QED
    BY <1>2, <1>3, <1>4, <1>5, <1>6, <1>7 DEF Next

\* An archived meeting is frozen.
THEOREM ArchiveIsFrozen == Spec => ArchivedContentFrozen
    BY Invariance, ArchivedStepsFreeze, PTL DEF Spec, ArchivedContentFrozen

\* No request touches a counted result before the poll's row is deleted.
LEMMA StepsKeepResults ==
    IInv /\ [Next]_vars =>
        \A p \in Polls :
            poll[p] \in {"finished", "withheld"} =>
                \/ poll'[p] \in {"finished", "withheld"} /\ result'[p] = result[p]
                \/ poll'[p] = "absent"
<1> SUFFICES ASSUME IInv, [Next]_vars, NEW p \in Polls,
                    poll[p] \in {"finished", "withheld"}
             PROVE  \/ /\ poll'[p] \in {"finished", "withheld"}
                       /\ result'[p] = result[p]
                    \/ poll'[p] = "absent"
    OBVIOUS
<1> USE DEF IInv, TypeOK, pollVars
<1>1. CASE MeetingNext
    BY <1>1 DEF MeetingNext, MakeUpcoming, MakeOngoing, Close,
       RequestArchiving, AbortArchiving, RequestDelete, AbortDelete, Archive,
       DestroyMeeting, DeleteMeetingRow, GracePeriodEnds,
       DeleteRequestedMeetings
<1>2. CASE ItemNext
  <2>1. CASE \E gone : DeleteItemRows(gone)
    BY <2>1 DEF DeleteItemRows
  <2>2. CASE UNCHANGED pollVars
    BY <2>2
  <2> QED
    BY <1>2, <2>1, <2>2 DEF ItemNext, CreateItem, DeleteItem, MoveItem, BulkDelete, BulkChange
<1>3. ASSUME NEW x \in Polls, NEW start \in BOOLEAN,
             \/ CreatePoll(x, start) \/ MakePollUpcoming(x)
             \/ MakePollOngoing(x) \/ UnpublishPoll(x) \/ CancelPoll(x)
             \/ PublishResult(x) \/ WithholdResult(x) \/ DeletePoll(x)
      PROVE  \/ poll'[p] \in {"finished", "withheld"} /\ result'[p] = result[p]
             \/ poll'[p] = "absent"
    BY <1>3 DEF CreatePoll, MakePollUpcoming, MakePollOngoing, UnpublishPoll,
       CancelPoll, PublishResult, WithholdResult, DeletePoll
<1>4. ASSUME NEW x \in Polls, ClosePoll(x)
      PROVE  poll'[p] = poll[p] /\ result'[p] = result[p]
    BY <1>4 DEF ClosePoll, CloseSources
<1>5. CASE PollNext
    BY <1>3, <1>4, <1>5 DEF PollNext
<1>6. CASE ProposalNext \/ SpeakerNext
    BY <1>6 DEF ProposalNext, AddProposal, RetractProposal, MoveProposal,
       DeleteProposal, SpeakerNext, SetActiveList, StartSpeaker, StopSpeaker
<1>7. CASE UNCHANGED vars
    BY <1>7 DEF vars
<1> QED
    BY <1>1, <1>2, <1>5, <1>6, <1>7 DEF Next

\* A counted result stands.
THEOREM ResultsStand == Spec => CountedResultStands
    BY Invariance, StepsKeepResults, PTL DEF Spec, CountedResultStands

-----------------------------------------------------------------------------
\* Seen from a poll, a step that deletes its row removes it.
LEMMA RowGone ==
    ASSUME NEW p \in Polls, poll'[p] = "absent", result'[p] = NoResult
    PROVE  LifeOf(p)!LifeNext
BY DEF LifeOf!LifeNext, LifeOf!Remove

\* Every event of the poll itself is a step of its life cycle.
LEMMA PollEventLives ==
    ASSUME IInv, NEW p \in Polls, NEW start \in BOOLEAN,
           \/ CreatePoll(p, start) \/ MakePollUpcoming(p) \/ MakePollOngoing(p)
           \/ UnpublishPoll(p) \/ CancelPoll(p) \/ ClosePoll(p)
           \/ PublishResult(p) \/ WithholdResult(p) \/ DeletePoll(p)
    PROVE  LifeOf(p)!LifeNext
<1> USE DEF IInv, TypeOK, LifeOf!LifeNext
<1>1. CASE CreatePoll(p, start) \/ MakePollUpcoming(p) \/ UnpublishPoll(p)
           \/ MakePollOngoing(p)
    BY <1>1 DEF CreatePoll, MakePollUpcoming, UnpublishPoll, MakePollOngoing,
       LifeOf!Prepare, LifeOf!Open, LifeOf!Prepared
<1>2. CASE CancelPoll(p)
    BY <1>2 DEF CancelPoll, LifeOf!Interrupt
<1>3. CASE ClosePoll(p)
  <2>1. poll[p] \in {"ongoing", "canceled", "failed"}
    BY <1>3 DEF ClosePoll, CloseSources
  <2>2. \/ poll'[p] \in {"finished", "withheld"}
        \/ poll'[p] \in {"no_result", "failed"} /\ result'[p] = result[p]
    BY <1>3 DEF ClosePoll
  <2> QED
    BY <2>1, <2>2 DEF LifeOf!End, LifeOf!Decided
<1>4. CASE PublishResult(p) \/ WithholdResult(p)
    BY <1>4 DEF PublishResult, WithholdResult, LifeOf!HideOrShow, LifeOf!Decided
<1>5. CASE DeletePoll(p)
    BY <1>5, RowGone DEF DeletePoll
<1> QED
    BY <1>1, <1>2, <1>3, <1>4, <1>5

\* Every step leaves a poll alone or is a step of its life cycle.
LEMMA StepsLive ==
    IInv /\ [Next]_vars =>
        \A p \in Polls : LifeOf(p)!LifeNext \/ UNCHANGED <<poll[p], result[p]>>
<1> SUFFICES ASSUME IInv, [Next]_vars, NEW p \in Polls
             PROVE  LifeOf(p)!LifeNext \/ UNCHANGED <<poll[p], result[p]>>
    OBVIOUS
<1>1. CASE MeetingNext
  <2>1. \/ UNCHANGED <<poll, result>>
        \/ poll'[p] = "absent" /\ result'[p] = NoResult
    BY <1>1 DEF MeetingNext, MakeUpcoming, MakeOngoing, Close,
       RequestArchiving, AbortArchiving, RequestDelete, AbortDelete, Archive,
       DestroyMeeting, DeleteMeetingRow, GracePeriodEnds,
       DeleteRequestedMeetings, pollVars
  <2> QED
    BY <2>1, RowGone
<1>2. CASE ItemNext
  <2>1. \/ poll'[p] = poll[p] /\ result'[p] = result[p]
        \/ poll'[p] = "absent" /\ result'[p] = NoResult
    BY <1>2 DEF ItemNext, CreateItem, DeleteItem, MoveItem, BulkDelete,
       BulkChange, DeleteItemRows, pollVars
  <2> QED
    BY <2>1, RowGone
<1>3. ASSUME NEW x \in Polls, NEW start \in BOOLEAN,
             \/ CreatePoll(x, start) \/ MakePollUpcoming(x) \/ MakePollOngoing(x)
             \/ UnpublishPoll(x) \/ CancelPoll(x) \/ ClosePoll(x)
             \/ PublishResult(x) \/ WithholdResult(x) \/ DeletePoll(x)
      PROVE  LifeOf(p)!LifeNext \/ UNCHANGED <<poll[p], result[p]>>
  <2>1. CASE x = p
    BY <1>3, <2>1, PollEventLives
  <2>2. CASE x # p
    BY <1>3, <2>2
    DEF CreatePoll, MakePollUpcoming, MakePollOngoing, UnpublishPoll, CancelPoll,
        ClosePoll, PublishResult, WithholdResult, DeletePoll, IInv, TypeOK
  <2> QED
    BY <2>1, <2>2
<1>4. CASE PollNext
    BY <1>3, <1>4 DEF PollNext
<1>5. CASE ProposalNext \/ SpeakerNext
    BY <1>5 DEF ProposalNext, AddProposal, RetractProposal, MoveProposal,
       DeleteProposal, SpeakerNext, SetActiveList, StartSpeaker, StopSpeaker, pollVars
<1>6. CASE UNCHANGED vars
    BY <1>6 DEF vars, pollVars
<1> QED
    BY <1>1, <1>2, <1>4, <1>5, <1>6 DEF Next

\* Every poll implements PollLifecycle, with its result as the outcome.
THEOREM ImplementsLifecycles == Spec => PollsKeepLifecycle
<1>1. Init => \A p \in Polls : LifeOf(p)!LifeInit
    BY DEF Init, LifeOf!LifeInit
<1> QED
    BY <1>1, Invariance, StepsLive, PTL DEF Spec, PollsKeepLifecycle

-----------------------------------------------------------------------------
(* The open pages                                                          *)

\* Content exists only under an agenda item that does.
ContentHasItem ==
    /\ \A q \in Proposals : item[ProposalItem[q]] = "absent" => proposal[q] = "absent"
    /\ \A p \in Polls : item[PollItem[p]] = "absent" => poll[p] = "absent"

\* An archived item stays archived or is deleted.
ArchivedStays ==
    \A a \in AgendaItems : item[a] = "archived" => item'[a] \in {"archived", "absent"}

\* The inductive invariant: each client's tables are functions of the rows.
SeenType ==
    seen = [c \in Clients |->
               [item |-> [a \in AgendaItems |-> seen[c].item[a]],
                proposal |-> [q \in Proposals |-> seen[c].proposal[q]],
                poll |-> [p \in Polls |-> seen[c].poll[p]]]]

ItemShown(c, a) == seen[c].item[a] = AgendaItemsFor(c)[a]

ProposalShown(c, q) ==
    \/ seen[c].proposal[q] = ProposalsFor(c)[q]
    \/ item[ProposalItem[q]] = "archived" /\ seen[c].proposal[q] = "absent"

PollShown(c, p) ==
    \/ seen[c].poll[p] = PollsFor(c)[p]
    \/ item[PollItem[p]] = "archived" /\ seen[c].poll[p] = NotShown

PagesShown ==
    /\ SeenType
    /\ \A c \in Clients :
          /\ \A a \in AgendaItems : ItemShown(c, a)
          /\ \A q \in Proposals : ProposalShown(c, q)
          /\ \A p \in Polls : PollShown(c, p)

LiveInv == IInv /\ ContentHasItem /\ PagesShown

-----------------------------------------------------------------------------
\* No request leaves content under a deleted agenda item.
LEMMA NextContentHasItem == IInv /\ ContentHasItem /\ [Next]_vars => ContentHasItem'
<1> SUFFICES ASSUME IInv, ContentHasItem, [Next]_vars PROVE ContentHasItem'
    OBVIOUS
<1>1. IInv'
    BY NextKeepsIInv
<1>2. \A p \in Polls : item'[PollItem[p]] = "absent" => poll'[p] = "absent"
    BY <1>1 DEF IInv, PollProposalsExist
<1>3. ASSUME NEW q \in Proposals, item'[ProposalItem[q]] = "absent"
      PROVE  proposal'[q] = "absent"
  <2> DEFINE a == ProposalItem[q]
  <2>1. a \in AgendaItems /\ (item[a] = "absent" => proposal[q] = "absent")
    BY ConstantsAssumption DEF ContentHasItem
  <2>2. CASE MeetingNext
    BY <1>3, <2>1, <2>2 DEF IInv, TypeOK, MeetingNext, MakeUpcoming, MakeOngoing, Close,
       RequestArchiving, AbortArchiving, RequestDelete, AbortDelete, Archive,
       DestroyMeeting, DeleteMeetingRow, GracePeriodEnds, DeleteRequestedMeetings
  <2>3. CASE ItemNext
    <3>1. a \in AgendaItems /\ item \in [AgendaItems -> ItemStates \cup {"absent"}]
      BY <2>1 DEF IInv, TypeOK
    <3>2. CASE \E x \in AgendaItems : CreateItem(x)
      BY <1>3, <2>1, <3>1, <3>2 DEF CreateItem
    <3>3. CASE \E x \in AgendaItems, target \in ItemStates : MoveItem(x, target)
      BY <1>3, <2>1, <3>1, <3>3 DEF MoveItem, ItemStates
    <3>4. CASE \E chosen \in SUBSET AgendaItems, target \in ItemStates :
                  BulkChange(chosen, target)
      BY <1>3, <2>1, <3>1, <3>4 DEF BulkChange, ItemStates
    <3>5. CASE \E gone : DeleteItemRows(gone)
      BY <1>3, <2>1, <3>1, <3>5 DEF DeleteItemRows
    <3> QED
      BY <2>3, <3>2, <3>3, <3>4, <3>5 DEF ItemNext, DeleteItem, BulkDelete
  <2>4. CASE PollNext
    <3>1. item' = item
      BY <2>4 DEF PollNext, CreatePoll, MakePollUpcoming, MakePollOngoing,
         UnpublishPoll, CancelPoll, ClosePoll, PublishResult, WithholdResult, DeletePoll
    <3>2. proposal[q] = "absent"
      BY <1>3, <2>1, <3>1
    <3>3. ASSUME NEW x \in Polls, q \in PollProposals[x], poll[x] # "absent" PROVE FALSE
      BY <3>2, <3>3 DEF IInv, PollProposalsExist
    <3> QED
      BY <2>4, <3>2, <3>3 DEF PollNext, CreatePoll, MakePollUpcoming, MakePollOngoing,
         UnpublishPoll, CancelPoll, ClosePoll, PublishResult, WithholdResult, DeletePoll,
         LockProposals, PublishProposals, SetProposalsFromResult, ResultState,
         ApproveSources, DenySources, PublishSources
  <2>5. CASE ProposalNext
    BY <1>3, <2>1, <2>5 DEF IInv, TypeOK, ProposalNext, AddProposal, RetractProposal,
       MoveProposal, DeleteProposal, ItemPermissive, MayChangeProposal, ItemNotArchived
  <2>6. CASE SpeakerNext
    BY <1>3, <2>1, <2>6 DEF SpeakerNext, SetActiveList, StartSpeaker, StopSpeaker
  <2>7. CASE UNCHANGED vars
    BY <1>3, <2>1, <2>7 DEF vars
  <2> QED
    BY <2>2, <2>3, <2>4, <2>5, <2>6, <2>7 DEF Next
<1> QED
    BY <1>2, <1>3 DEF ContentHasItem

\* Only the deletion of the meeting touches an archived item.
LEMMA NextArchivedStays == IInv /\ [Next]_vars => ArchivedStays
<1> SUFFICES ASSUME IInv, [Next]_vars, NEW a \in AgendaItems, item[a] = "archived"
             PROVE  item'[a] \in {"archived", "absent"}
    BY DEF ArchivedStays
<1>1. EffectiveState = "archived"
    BY DEF IInv, ArchivedMeetingIsSealed
<1>2. meeting # "absent"
    BY <1>1 DEF EffectiveState
<1>3. CASE item' = item
    BY <1>3
<1>4. CASE meeting' = "absent"
  <2>1. MeetingNext
    BY <1>2, <1>4 DEF Next, ItemNext, CreateItem, DeleteItem, MoveItem, BulkDelete,
       BulkChange, DeleteItemRows, PollNext, CreatePoll, MakePollUpcoming,
       MakePollOngoing, UnpublishPoll, CancelPoll, ClosePoll, PublishResult,
       WithholdResult, DeletePoll, ProposalNext, AddProposal, RetractProposal,
       MoveProposal, DeleteProposal, SpeakerNext, SetActiveList, StartSpeaker,
       StopSpeaker, vars, meetingVars
  <2>2. DeleteMeetingRow
    BY <1>2, <1>4, <2>1 DEF MeetingNext, MakeUpcoming, MakeOngoing, Close,
       RequestArchiving, AbortArchiving, RequestDelete, AbortDelete, Archive,
       DestroyMeeting, GracePeriodEnds, DeleteRequestedMeetings, IInv, TypeOK,
       MeetingStates, PreDeleteKept
  <2> QED
    BY <2>2 DEF DeleteMeetingRow
<1> QED
    BY <1>1, <1>3, <1>4, ArchivedStepsFreeze

-----------------------------------------------------------------------------
(* One row of one client's tables, from before a request to after it.      *)

\* Items: no fact about the request is needed.
LEMMA ItemStaysShown ==
    ASSUME NEW c \in Clients, NEW a \in AgendaItems, ItemShown(c, a),
           seen'[c].item[a] = Receive(c).item[a]
    PROVE  ItemShown(c, a)'
<1> DEFINE old == item[a]
           new == item'[a]
<1>1. seen[c].item[a] = IF c = "participant" /\ old = "private" THEN "absent" ELSE old
    BY DEF ItemShown, AgendaItemsFor, ItemPrivateTo
<1>2. seen'[c].item[a] =
          IF ItemGone(c, a) THEN "absent"
          ELSE IF PublishAgendaChanged(c, a) THEN new ELSE seen[c].item[a]
    BY DEF Receive
<1>3. ItemGone(c, a) <=>
          \/ new # old /\ new = "private" /\ old # "absent" /\ c = "participant"
          \/ old # "absent" /\ new = "absent"
    BY DEF ItemGone, AiMadePrivate, AgendaDelete, Transition, Saved, Deleted
<1>4. PublishAgendaChanged(c, a) <=>
          new # old /\ new # "absent" /\ (c = "moderator" \/ new # "private")
    BY DEF PublishAgendaChanged, Saved
<1>5. AgendaItemsFor(c)'[a] =
          IF c = "participant" /\ new = "private" THEN "absent" ELSE new
    BY DEF AgendaItemsFor, ItemPrivateTo
<1>6. c \in {"participant", "moderator"}
    BY DEF Clients
<1>7. seen'[c].item[a] = AgendaItemsFor(c)'[a]
  <2> HIDE DEF old, new
  <2> QED
    BY <1>1, <1>2, <1>3, <1>4, <1>5, <1>6
<1> QED
    BY <1>7 DEF ItemShown

\* Proposals, under an agenda item that may move in the same request.
LEMMA ProposalStaysShown ==
    ASSUME NEW c \in Clients, NEW q \in Proposals, ProposalShown(c, q),
           seen'[c].proposal[q] = Receive(c).proposal[q],
           ContentHasItem, ContentHasItem', ArchivedStays
    PROVE  ProposalShown(c, q)'
<1> DEFINE a == ProposalItem[q]
           old == item[a]
           new == item'[a]
           was == proposal[q]
           is == proposal'[q]
           shown == seen[c].proposal[q]
<1>1. a \in AgendaItems
    BY ConstantsAssumption
<1>2. \/ shown = IF c = "participant" /\ old = "private" THEN "absent" ELSE was
      \/ old = "archived" /\ shown = "absent"
    BY DEF ProposalShown, ProposalsFor, ItemPrivateTo
<1>3. seen'[c].proposal[q] =
          IF ProposalDelete(c, q) \/ ItemGone(c, a) THEN "absent"
          ELSE IF ProposalUpdated(c, q) \/ PrivateAiPublished(c, a) THEN is ELSE shown
    BY DEF Receive
<1>4. ItemGone(c, a) <=>
          \/ new # old /\ new = "private" /\ old # "absent" /\ c = "participant"
          \/ old # "absent" /\ new = "absent"
    BY DEF ItemGone, AiMadePrivate, AgendaDelete, Transition, Saved, Deleted
<1>5. ProposalDelete(c, q) <=>
          was # "absent" /\ is = "absent" /\ (c = "moderator" \/ old # "private")
    BY DEF ProposalDelete, Deleted
<1>6. ProposalUpdated(c, q) <=>
          is # was /\ is # "absent" /\ (c = "moderator" \/ new # "private")
    BY DEF ProposalUpdated, Saved
<1>7. PrivateAiPublished(c, a) <=>
          /\ new # old /\ new # "absent" /\ new # "archived" /\ old = "private"
          /\ c = "participant"
    BY DEF PrivateAiPublished, Transition, Saved
<1>8. /\ old = "absent" => was = "absent"
      /\ new = "absent" => is = "absent"
      /\ old = "archived" => new \in {"archived", "absent"}
    BY <1>1 DEF ContentHasItem, ArchivedStays
<1>9. ProposalsFor(c)'[q] = IF c = "participant" /\ new = "private" THEN "absent" ELSE is
    BY DEF ProposalsFor, ItemPrivateTo
<1>10. c \in {"participant", "moderator"}
    BY DEF Clients
<1>11. \/ seen'[c].proposal[q] = ProposalsFor(c)'[q]
       \/ new = "archived" /\ seen'[c].proposal[q] = "absent"
  <2> HIDE DEF old, new, was, is, shown
  <2> QED
    BY <1>2, <1>3, <1>4, <1>5, <1>6, <1>7, <1>8, <1>9, <1>10
<1> QED
    BY <1>11 DEF ProposalShown

\* Polls, with their own private state and a result that may be hidden.
LEMMA PollStaysShown ==
    ASSUME NEW c \in Clients, NEW p \in Polls, PollShown(c, p),
           seen'[c].poll[p] = Receive(c).poll[p],
           ContentHasItem, ContentHasItem', ArchivedStays
    PROVE  PollShown(c, p)'
<1> DEFINE a == PollItem[p]
           old == item[a]
           new == item'[a]
           was == poll[p]
           is == poll'[p]
           same == is = was /\ result'[p] = result[p]
           shown == seen[c].poll[p]
           now == PollPayload(c, is, result'[p])
           before == PollPayload(c, was, result[p])
<1>1. a \in AgendaItems
    BY ConstantsAssumption
<1>2. \/ shown = IF was = "absent" \/ (c = "participant" /\ (old = "private" \/ was = "private"))
                 THEN NotShown ELSE before
      \/ old = "archived" /\ shown = NotShown
    BY DEF PollShown, PollsFor, ItemPrivateTo
<1>3. seen'[c].poll[p] =
          IF PollDelete(c, p) \/ PollMadePrivate(c, p) \/ ItemGone(c, a) THEN NotShown
          ELSE IF PollChange(c, p) \/ PrivateAiPolls(c, p) THEN now ELSE shown
    BY DEF Receive
<1>4. ItemGone(c, a) <=>
          \/ new # old /\ new = "private" /\ old # "absent" /\ c = "participant"
          \/ old # "absent" /\ new = "absent"
    BY DEF ItemGone, AiMadePrivate, AgendaDelete, Transition, Saved, Deleted
<1>5. PollDelete(c, p) <=>
          /\ was # "absent" /\ is = "absent"
          /\ c = "moderator" \/ (was # "private" /\ old # "private")
    BY DEF PollDelete, Deleted
<1>6. PollMadePrivate(c, p) <=>
          ~same /\ was # "absent" /\ is = "private" /\ c = "participant"
    BY DEF PollMadePrivate, PollSaved
<1>7. PollChange(c, p) <=>
          ~same /\ is # "absent" /\ (c = "moderator" \/ (is # "private" /\ new # "private"))
    BY DEF PollChange, PollSaved
<1>8. PrivateAiPolls(c, p) <=>
          /\ new # old /\ new # "absent" /\ new # "archived" /\ old = "private"
          /\ c = "participant"
          /\ is # "absent" /\ is # "private"
    BY DEF PrivateAiPolls, PrivateAiPublished, Transition, Saved
<1>9. /\ old = "absent" => was = "absent"
      /\ new = "absent" => is = "absent"
      /\ old = "archived" => new \in {"archived", "absent"}
    BY <1>1 DEF ContentHasItem, ArchivedStays
<1>10. PollsFor(c)'[p] =
          IF is = "absent" \/ (c = "participant" /\ (new = "private" \/ is = "private"))
          THEN NotShown ELSE now
    BY DEF PollsFor, ItemPrivateTo, PollPayload, NotShown
<1>11. c \in {"participant", "moderator"}
    BY DEF Clients
<1>12. same => now = before /\ is = was
    BY DEF PollPayload
<1>13. \/ seen'[c].poll[p] = PollsFor(c)'[p]
       \/ new = "archived" /\ seen'[c].poll[p] = NotShown
  <2> HIDE DEF old, new, was, is, same, shown, now, before
  <2> QED
    BY <1>2, <1>3, <1>4, <1>5, <1>6, <1>7, <1>8, <1>9, <1>10, <1>11, <1>12
<1> QED
    BY <1>13 DEF PollShown, NotShown

-----------------------------------------------------------------------------
\* A page that has just subscribed shows the app state.
LEMMA InitLiveInv == LiveInit => LiveInv
<1> SUFFICES ASSUME LiveInit PROVE LiveInv
    OBVIOUS
<1>1. IInv
    BY InitIInv DEF LiveInit
<1>2. ContentHasItem
    BY ConstantsAssumption DEF LiveInit, Init, ContentHasItem
<1>3. SeenType
    BY DEF LiveInit, SeenType, AppState, AgendaItemsFor, ProposalsFor, PollsFor
<1>4. ASSUME NEW c \in Clients
      PROVE  /\ \A a \in AgendaItems : ItemShown(c, a)
             /\ \A q \in Proposals : ProposalShown(c, q)
             /\ \A p \in Polls : PollShown(c, p)
  <2>1. /\ seen[c].item = AgendaItemsFor(c)
        /\ seen[c].proposal = ProposalsFor(c)
        /\ seen[c].poll = PollsFor(c)
    BY DEF LiveInit, AppState
  <2> QED
    BY <2>1 DEF ItemShown, ProposalShown, PollShown
<1> QED
    BY <1>1, <1>2, <1>3, <1>4 DEF LiveInv, PagesShown

\* Every request and its messages keep every page.
LEMMA NextLiveInv == LiveInv /\ [LiveNext]_liveVars => LiveInv'
<1> SUFFICES ASSUME LiveInv, [LiveNext]_liveVars PROVE LiveInv'
    OBVIOUS
<1>1. [Next]_vars
    BY DEF LiveNext, liveVars
<1>2. IInv' /\ ContentHasItem' /\ ArchivedStays
    BY <1>1, NextKeepsIInv, NextContentHasItem, NextArchivedStays DEF LiveInv
<1>3. CASE LiveNext
  <2>1. ASSUME NEW c \in Clients
        PROVE  /\ seen'[c].item = Receive(c).item
               /\ seen'[c].proposal = Receive(c).proposal
               /\ seen'[c].poll = Receive(c).poll
    BY <1>3 DEF LiveNext
  <2>2. SeenType'
    BY <1>3 DEF LiveNext, SeenType, Receive
  <2>3. ASSUME NEW c \in Clients, NEW a \in AgendaItems PROVE ItemShown(c, a)'
    BY <2>1, ItemStaysShown DEF LiveInv, PagesShown
  <2>4. ASSUME NEW c \in Clients, NEW q \in Proposals PROVE ProposalShown(c, q)'
    BY <1>2, <2>1, ProposalStaysShown DEF LiveInv, PagesShown
  <2>5. ASSUME NEW c \in Clients, NEW p \in Polls PROVE PollShown(c, p)'
    BY <1>2, <2>1, PollStaysShown DEF LiveInv, PagesShown
  <2> QED
    BY <1>2, <2>2, <2>3, <2>4, <2>5 DEF LiveInv, PagesShown
<1>4. CASE UNCHANGED liveVars
  <2>1. item' = item /\ proposal' = proposal /\ poll' = poll /\ result' = result
    BY <1>4 DEF liveVars, vars, pollVars
  <2>2. seen' = seen
    BY <1>4 DEF liveVars
  <2>3. ASSUME NEW c \in Clients
        PROVE  /\ AgendaItemsFor(c)' = AgendaItemsFor(c)
               /\ ProposalsFor(c)' = ProposalsFor(c)
               /\ PollsFor(c)' = PollsFor(c)
    BY <2>1 DEF AgendaItemsFor, ProposalsFor, PollsFor, ItemPrivateTo
  <2>4. SeenType'
    BY <2>2 DEF LiveInv, PagesShown, SeenType
  <2>5. ASSUME NEW c \in Clients
        PROVE  /\ \A a \in AgendaItems : ItemShown(c, a)'
               /\ \A q \in Proposals : ProposalShown(c, q)'
               /\ \A p \in Polls : PollShown(c, p)'
    BY <2>1, <2>2, <2>3 DEF LiveInv, PagesShown, ItemShown, ProposalShown, PollShown, NotShown
  <2>6. PagesShown'
    BY <2>4, <2>5 DEF PagesShown
  <2> QED
    BY <1>2, <2>6 DEF LiveInv
<1> QED
    BY <1>3, <1>4

\* However items, polls and proposals move, a page that stays open shows what a
\* page that subscribes now would be sent, for any number of rows.
THEOREM PagesStayLive == LiveSpec => []LiveViewIsAppState
<1>1. LiveInv => LiveViewIsAppState
  <2> SUFFICES ASSUME LiveInv, NEW c \in Clients
               PROVE  /\ seen[c].item = AgendaItemsFor(c)
                      /\ \A q \in Proposals : ProposalShown(c, q)
                      /\ \A p \in Polls : PollShown(c, p)
    BY DEF LiveViewIsAppState, ProposalShown, PollShown
  <2>1. seen[c].item = [a \in AgendaItems |-> seen[c].item[a]]
    BY DEF LiveInv, PagesShown, SeenType
  <2>2. \A a \in AgendaItems : seen[c].item[a] = AgendaItemsFor(c)[a]
    BY DEF LiveInv, PagesShown, ItemShown
  <2>3. AgendaItemsFor(c) = [a \in AgendaItems |-> AgendaItemsFor(c)[a]]
    BY DEF AgendaItemsFor
  <2>4. seen[c].item = AgendaItemsFor(c)
    BY <2>1, <2>2, <2>3
  <2> QED
    BY <2>4 DEF LiveInv, PagesShown
<1> QED
    BY <1>1, InitLiveInv, NextLiveInv, PTL DEF LiveSpec

-----------------------------------------------------------------------------
(* Amendments and rooms                                                    *)

\* The columns of the tables.
Tables(d) ==
    DOMAIN d = {"item", "block_discussion", "meeting", "doc", "paragraphs", "next_pk",
                "amendments", "created", "notes", "button", "reactions", "room",
                "highlighted", "proposals", "polls", "component", "tags", "numbers"}

\* What of the tables and of the request in flight the two invariants are about.
Kept ==
    /\ db'.amendments = db.amendments /\ db'.paragraphs = db.paragraphs
    /\ db'.next_pk = db.next_pk /\ db'.room = db.room
    /\ db'.doc = db.doc \/ db'.doc # NoRow
    /\ Tables(db)'

\* Keys are handed out once, so the paragraph an amendment is about to refer to
\* is the one it was compared with, or gone.
TextInv ==
    /\ db.next_pk \in Nat
    /\ db.doc = NoRow => db.paragraphs = NoRow
    /\ req.kind = "document" => req.row # NoRow
    /\ db.paragraphs # NoRow => db.paragraphs.pk \in Nat /\ db.paragraphs.pk < db.next_pk
    /\ req.kind = "amendment" =>
          /\ req.row.paragraph \in Nat /\ req.row.paragraph < db.next_pk
          /\ db.paragraphs # NoRow /\ db.paragraphs.pk = req.row.paragraph
                => db.paragraphs.body = req.row.against
    /\ AmendmentKeepsItsText

\* The ballot of the room a request has read was asked for as well.
BallotInv ==
    /\ db.room \in Room \cup {NoRow}
    /\ req.kind = "room" =>
          /\ req.row \in Room /\ req.read \in Room
          /\ req.read.show_ballot /\ req.read.poll # NoRow => req.read.poll \in asked
    /\ BallotWasAskedFor

ContentsInv == Tables(db) /\ TextInv /\ BallotInv

\* A step that leaves amendments, paragraphs and room alone keeps the invariant.
LEMMA OthersKeep ==
    ASSUME ContentsInv, Kept, req' = req, asked' = asked
    PROVE  ContentsInv'
    BY DEF ContentsInv, Kept, TextInv, BallotInv, AmendmentKeepsItsText, BallotWasAskedFor

\* Moving the agenda item, and opening and closing its page, touch neither.
LEMMA ItemKeeps ==
    ASSUME ContentsInv, AgendaItemNext
    PROVE  ContentsInv'
<1>1. Tables(db)
    BY DEF ContentsInv
<1>2. ASSUME NEW target, MoveAgendaItem(target) PROVE ContentsInv'
  <2>1. Kept /\ req' = req /\ asked' = asked
    BY <1>1, <1>2 DEF MoveAgendaItem, Commit, Kept, Tables
  <2> QED
    BY <2>1, OthersKeep
<1>3. ASSUME NEW c, OpenItem(c) \/ CloseItem(c) PROVE ContentsInv'
  <2>1. Kept /\ req' = req /\ asked' = asked
    BY <1>1, <1>3 DEF OpenItem, CloseItem, Kept
  <2> QED
    BY <2>1, OthersKeep
<1> QED
    BY <1>2, <1>3 DEF AgendaItemNext

\* A document is saved: its paragraphs stay, or are new ones.
LEMMA SavedDocument ==
    ASSUME Tables(db), NEW row, NEW refresh \in BOOLEAN
    PROVE  LET d == SaveDocument(db, row, refresh) IN
           /\ Tables(d) /\ d.doc = row
           /\ d.amendments = db.amendments /\ d.room = db.room
           /\ ~refresh => d.paragraphs = db.paragraphs /\ d.next_pk = db.next_pk
           /\ refresh => /\ d.paragraphs = [pk |-> db.next_pk, body |-> row.body]
                         /\ d.next_pk = db.next_pk + 1
<1>1. CASE ~refresh
    BY <1>1 DEF SaveDocument, Tables
<1>2. CASE refresh
    BY <1>2 DEF SaveDocument, Tables
<1> QED
    BY <1>1, <1>2

\* New paragraphs have a key no amendment and no request knows.
LEMMA NewParagraphsKeep ==
    ASSUME ContentsInv, Tables(db)', db'.room = db.room, asked' = asked,
           req' = req \/ req' = Idle, NEW body, db'.doc # NoRow,
           db'.amendments = {}, db'.paragraphs = [pk |-> db.next_pk, body |-> body],
           db'.next_pk = db.next_pk + 1
    PROVE  ContentsInv'
<1>1. db'.paragraphs.pk = db.next_pk
    OBVIOUS
<1>2. TextInv'
    BY <1>1 DEF ContentsInv, TextInv, AmendmentKeepsItsText, Idle
<1>3. BallotInv'
    BY DEF ContentsInv, BallotInv, BallotWasAskedFor, Idle
<1> QED
    BY <1>2, <1>3 DEF ContentsInv

\* A request that ends without touching the three.
LEMMA EndKeeps ==
    ASSUME ContentsInv, Kept, req' = Idle, asked' = asked
    PROVE  ContentsInv'
<1>1. TextInv'
    BY DEF ContentsInv, Kept, TextInv, AmendmentKeepsItsText, Idle
<1>2. BallotInv'
    BY DEF ContentsInv, Kept, BallotInv, BallotWasAskedFor, Idle
<1> QED
    BY <1>1, <1>2 DEF ContentsInv, Kept

\* There are no amendments where there is no document.
LEMMA CreateDocumentKeeps ==
    ASSUME ContentsInv, NEW row \in TextDocument, CreateDocument(row)
    PROVE  ContentsInv'
<1> DEFINE d == SaveDocument(db, row, TRUE)
<1>1. /\ Tables(db) /\ db' = d /\ req' = req /\ asked' = asked /\ row # NoRow
    BY ContentsAssumption DEF ContentsInv, CreateDocument, Commit, TextDocument
<1>2. db.amendments = {}
    BY DEF CreateDocument, ContentsInv, TextInv, AmendmentKeepsItsText
<1> HIDE DEF d
<1>3. /\ Tables(db)' /\ db'.room = db.room /\ db'.amendments = {} /\ db'.doc # NoRow
      /\ db'.paragraphs = [pk |-> db.next_pk, body |-> row.body]
      /\ db'.next_pk = db.next_pk + 1
    BY <1>1, <1>2, SavedDocument DEF d
<1> QED
    BY <1>1, <1>3, NewParagraphsKeep

\* A document is written, by a request that began now or before.
LEMMA WriteDocumentKeeps ==
    ASSUME ContentsInv, NEW row, row # NoRow, NEW read, WriteDocument(row, read),
           asked' = asked, req' = req \/ req' = Idle
    PROVE  ContentsInv'
<1> DEFINE refresh == row.body # read.body
           d == SaveDocument(db, row, refresh)
<1>1. Tables(db)
    BY DEF ContentsInv
<1>2. CASE refresh /\ ~ParagraphsAreFree
  <2>1. Kept
    BY <1>1, <1>2 DEF WriteDocument, Kept
  <2> QED
    BY <2>1, OthersKeep, EndKeeps
<1>3. CASE ~refresh
  <2>1. db' = d
    BY <1>3 DEF WriteDocument, Commit
  <2>2. Kept
    BY <1>1, <1>3, <2>1, SavedDocument DEF Kept
  <2> QED
    BY <2>2, OthersKeep, EndKeeps
<1>4. CASE refresh /\ ParagraphsAreFree
  <2>1. db' = d
    BY <1>4 DEF WriteDocument, Commit
  <2>2. db.amendments = {}
    BY <1>4 DEF ParagraphsAreFree
  <2> HIDE DEF d
  <2>3. /\ Tables(db)' /\ db'.room = db.room /\ db'.amendments = {} /\ db'.doc # NoRow
        /\ db'.paragraphs = [pk |-> db.next_pk, body |-> row.body]
        /\ db'.next_pk = db.next_pk + 1
    BY <1>1, <1>4, <2>1, <2>2, SavedDocument DEF d
  <2> QED
    BY <2>3, NewParagraphsKeep
<1> QED
    BY <1>2, <1>3, <1>4

\* The paragraphs and the amendments go with the document.
LEMMA DeleteDocumentKeeps ==
    ASSUME ContentsInv, DeleteDocument
    PROVE  ContentsInv'
<1>1. Tables(db) /\ req' = req /\ asked' = asked
    BY DEF ContentsInv, DeleteDocument
<1>2. /\ Tables(db)' /\ db'.room = db.room /\ db'.amendments = {}
      /\ db'.doc = NoRow /\ db'.paragraphs = NoRow /\ db'.next_pk = db.next_pk
    BY <1>1 DEF DeleteDocument, HasNoProposals, Commit, Tables
<1>3. TextInv'
    BY <1>1, <1>2 DEF ContentsInv, TextInv, AmendmentKeepsItsText
<1>4. BallotInv'
    BY <1>1, <1>2 DEF ContentsInv, BallotInv, BallotWasAskedFor
<1> QED
    BY <1>2, <1>3, <1>4 DEF ContentsInv

\* A request begins: the tables stay.
LEMMA BeginKeeps ==
    ASSUME ContentsInv, db' = db, asked' = asked,
           req'.kind = "amendment" =>
              /\ req'.row.paragraph \in Nat /\ req'.row.paragraph < db.next_pk
              /\ db.paragraphs # NoRow /\ db.paragraphs.pk = req'.row.paragraph
                    => db.paragraphs.body = req'.row.against,
           req'.kind = "document" => req'.row # NoRow,
           req'.kind = "room" =>
              /\ req'.row \in Room /\ req'.read \in Room
              /\ req'.read.show_ballot /\ req'.read.poll # NoRow => req'.read.poll \in asked
    PROVE  ContentsInv'
<1>1. Tables(db)'
    BY DEF ContentsInv
<1>2. TextInv'
    BY DEF ContentsInv, TextInv, AmendmentKeepsItsText
<1>3. BallotInv'
    BY DEF ContentsInv, BallotInv, BallotWasAskedFor
<1> QED
    BY <1>1, <1>2, <1>3 DEF ContentsInv

\* An edit begins with a row that validated.
LEMMA BeginEditDocumentKeeps ==
    ASSUME ContentsInv, NEW row \in TextDocument, BeginEditDocument(row)
    PROVE  ContentsInv'
<1>1. row # NoRow
    BY ContentsAssumption DEF TextDocument
<1> QED
    BY <1>1, BeginKeeps DEF BeginEditDocument

\* An amendment begins with the paragraph as it is.
LEMMA BeginAmendKeeps ==
    ASSUME ContentsInv, BeginAmend
    PROVE  ContentsInv'
<1>1. req' = [kind |-> "amendment", row |-> AmendmentRead] /\ db' = db /\ asked' = asked
    BY DEF BeginAmend
<1>2. db.paragraphs.pk \in Nat /\ db.paragraphs.pk < db.next_pk
    BY DEF BeginAmend, MayAmend, ContentsInv, TextInv
<1> QED
    BY <1>1, <1>2, BeginKeeps DEF AmendmentRead

\* An amendment of the paragraphs there are is added, or one is deleted.
LEMMA AmendmentsKeep ==
    ASSUME ContentsInv, NEW rows, db' = [db EXCEPT !.amendments = rows], asked' = asked,
           req' = req \/ req' = Idle,
           \A row \in rows \ db.amendments :
              /\ db.paragraphs # NoRow /\ db.paragraphs.pk = row.paragraph
              /\ db.paragraphs.body = row.against
    PROVE  ContentsInv'
<1>1. Tables(db)
    BY DEF ContentsInv
<1>2. /\ Tables(db)' /\ db'.room = db.room /\ db'.amendments = rows
      /\ db'.doc = db.doc /\ db'.paragraphs = db.paragraphs /\ db'.next_pk = db.next_pk
    BY <1>1 DEF Tables
<1>3. TextInv'
    BY <1>2 DEF ContentsInv, TextInv, AmendmentKeepsItsText, Idle
<1>4. BallotInv'
    BY <1>2 DEF ContentsInv, BallotInv, BallotWasAskedFor, Idle
<1> QED
    BY <1>2, <1>3, <1>4 DEF ContentsInv

\* An amendment made in one step.
LEMMA AmendKeeps ==
    ASSUME ContentsInv, Amend
    PROVE  ContentsInv'
<1>1. /\ db' = [db EXCEPT !.amendments = db.amendments \cup {AmendmentRead}]
      /\ req' = req /\ asked' = asked /\ db.paragraphs # NoRow
    BY DEF Amend, Commit, MayAmend
<1>2. \A row \in (db.amendments \cup {AmendmentRead}) \ db.amendments :
         db.paragraphs.pk = row.paragraph /\ db.paragraphs.body = row.against
    BY DEF AmendmentRead
<1> QED
    BY <1>1, <1>2, AmendmentsKeep

\* An amendment finished later: its paragraph is refused, or still the same.
LEMMA FinishAmendKeeps ==
    ASSUME ContentsInv, FinishAmend
    PROVE  ContentsInv'
<1>1. req' = Idle /\ asked' = asked /\ req.kind = "amendment"
    BY DEF FinishAmend
<1>2. CASE ParagraphExists
  <2>1. db' = [db EXCEPT !.amendments = db.amendments \cup {req.row}]
    BY <1>2 DEF FinishAmend, Commit
  <2>2. /\ db.paragraphs # NoRow /\ db.paragraphs.pk = req.row.paragraph
        /\ db.paragraphs.body = req.row.against
    BY <1>1, <1>2 DEF ParagraphExists, ContentsInv, TextInv
  <2> QED
    BY <1>1, <2>1, <2>2, AmendmentsKeep
<1>3. CASE ~ParagraphExists
  <2>1. Kept
    BY <1>3 DEF FinishAmend, ContentsInv, Kept
  <2> QED
    BY <1>1, <2>1, EndKeeps
<1> QED
    BY <1>2, <1>3

\* Every request about documents and amendments keeps the invariant.
LEMMA AmendmentsNextKeeps ==
    ASSUME ContentsInv, AmendmentsNext
    PROVE  ContentsInv'
<1>1. ASSUME NEW row \in TextDocument, EditDocument(row) PROVE ContentsInv'
  <2>1. row # NoRow
    BY ContentsAssumption DEF TextDocument
  <2> QED
    BY <1>1, <2>1, WriteDocumentKeeps DEF EditDocument
<1>2. CASE FinishEditDocument
  <2>1. req.row # NoRow
    BY <1>2 DEF FinishEditDocument, ContentsInv, TextInv
  <2> QED
    BY <1>2, <2>1, WriteDocumentKeeps DEF FinishEditDocument
<1>3. ASSUME NEW row \in db.amendments, DeleteAmendment(row) PROVE ContentsInv'
  <2>1. db' = [db EXCEPT !.amendments = db.amendments \ {row}] /\ req' = req /\ asked' = asked
    BY <1>3 DEF DeleteAmendment, Commit
  <2> QED
    BY <2>1, AmendmentsKeep
<1> QED
    BY <1>1, <1>2, <1>3, ItemKeeps, CreateDocumentKeeps, BeginEditDocumentKeeps,
       DeleteDocumentKeeps, BeginAmendKeeps, AmendKeeps, FinishAmendKeeps DEF AmendmentsNext

\* Posts, notes, buttons, reactions, components, tags and numbers are columns of
\* their own.
LEMMA DiscussionKeeps ==
    ASSUME ContentsInv, DiscussionNext
    PROVE  ContentsInv'
<1>1. Tables(db)
    BY DEF ContentsInv
<1>2. ASSUME NEW blocked, ChangeItem(blocked) PROVE ContentsInv'
  <2>1. Kept /\ req' = req /\ asked' = asked
    BY <1>1, <1>2 DEF ChangeItem, Commit, Kept, Tables
  <2> QED
    BY <2>1, OthersKeep
<1>3. ASSUME NEW c, NEW post, CreatePost(c, post) PROVE ContentsInv'
  <2>1. Kept /\ req' = req /\ asked' = asked
    BY <1>1, <1>3 DEF CreatePost, Commit, Kept, Tables
  <2> QED
    BY <2>1, OthersKeep
<1>4. ASSUME NEW post, DeletePost(post) PROVE ContentsInv'
  <2> DEFINE left == SelectSeq(db.created, LAMBDA p : p # post)
  <2>1. db' = [db EXCEPT !.created = left] /\ req' = req /\ asked' = asked
    BY <1>4 DEF DeletePost, Commit
  <2> HIDE DEF left
  <2>2. Kept
    BY <1>1, <2>1 DEF Kept, Tables
  <2> QED
    BY <2>1, <2>2, OthersKeep
<1>5. ASSUME NEW c, NEW body, SaveNote(c, body) PROVE ContentsInv'
  <2>1. Kept /\ req' = req /\ asked' = asked
    BY <1>1, <1>5 DEF SaveNote, Commit, Kept, Tables
  <2> QED
    BY <2>1, OthersKeep
<1>6. ASSUME NEW owners, DeleteNotes(owners) PROVE ContentsInv'
  <2>1. Kept /\ req' = req /\ asked' = asked
    BY <1>1, <1>6 DEF DeleteNotes, Commit, Kept, Tables
  <2> QED
    BY <2>1, OthersKeep
<1> QED
    BY <1>2, <1>3, <1>4, <1>5, <1>6, ItemKeeps DEF DiscussionNext

\* The meeting closes and opens again.
LEMMA MeetingKeeps ==
    ASSUME ContentsInv, CloseMeeting \/ ReopenMeeting
    PROVE  ContentsInv'
<1>1. Tables(db)
    BY DEF ContentsInv
<1>2. CASE CloseMeeting
  <2>1. Kept /\ req' = req /\ asked' = asked
    BY <1>1, <1>2 DEF CloseMeeting, Commit, Kept, Tables
  <2> QED
    BY <2>1, OthersKeep
<1>3. CASE ReopenMeeting
  <2>1. Kept /\ req' = req /\ asked' = asked
    BY <1>1, <1>3 DEF ReopenMeeting, Commit, Kept, Tables
  <2> QED
    BY <2>1, OthersKeep
<1> QED
    BY <1>2, <1>3

\* Buttons and reactions.
LEMMA ReactionsKeep ==
    ASSUME ContentsInv, ReactionsNext
    PROVE  ContentsInv'
<1>1. Tables(db)
    BY DEF ContentsInv
<1>2. ASSUME NEW row, SaveButton(row) PROVE ContentsInv'
  <2>1. Kept /\ req' = req /\ asked' = asked
    BY <1>1, <1>2 DEF SaveButton, Commit, Kept, Tables
  <2> QED
    BY <2>1, OthersKeep
<1>3. CASE DeleteButton
  <2>1. Kept /\ req' = req /\ asked' = asked
    BY <1>1, <1>3 DEF DeleteButton, Commit, Kept, Tables
  <2> QED
    BY <2>1, OthersKeep
<1>4. ASSUME NEW c, SetReaction(c) \/ RemoveReaction(c) PROVE ContentsInv'
  <2>1. Kept /\ req' = req /\ asked' = asked
    BY <1>1, <1>4 DEF SetReaction, RemoveReaction, Commit, Kept, Tables
  <2> QED
    BY <2>1, OthersKeep
<1> QED
    BY <1>2, <1>3, <1>4, ItemKeeps, MeetingKeeps DEF ReactionsNext

\* Components, tags and participant numbers.
LEMMA SettingsKeep ==
    ASSUME ContentsInv, SettingsNext
    PROVE  ContentsInv'
<1>1. Tables(db)
    BY DEF ContentsInv
<1>2. ASSUME NEW row, CreateComponent(row) \/ PatchComponent(row) PROVE ContentsInv'
  <2>1. Kept /\ req' = req /\ asked' = asked
    BY <1>1, <1>2 DEF CreateComponent, PatchComponent, Commit, Kept, Tables
  <2> QED
    BY <2>1, OthersKeep
<1>3. CASE DeleteComponent
  <2>1. Kept /\ req' = req /\ asked' = asked
    BY <1>1, <1>3 DEF DeleteComponent, Commit, Kept, Tables
  <2> QED
    BY <2>1, OthersKeep
<1>4. ASSUME NEW u, NEW chosen, RefusedTags(u) \/ RemoveTags(u) \/ SetTags(u, chosen)
      PROVE  ContentsInv'
  <2>1. Kept /\ req' = req /\ asked' = asked
    BY <1>1, <1>4 DEF RefusedTags, RemoveTags, SetTags, Commit, Kept, Tables
  <2> QED
    BY <2>1, OthersKeep
<1>5. ASSUME NEW order, NEW wanted, NEW clear, ImportNumbers(order, wanted, clear)
      PROVE  ContentsInv'
  <2>1. (\E after : db' = [db EXCEPT !.numbers = after]) /\ req' = req /\ asked' = asked
    BY <1>5, Zenon DEF ImportNumbers, Commit
  <2>2. Kept
    BY <1>1, <2>1 DEF Kept, Tables
  <2> QED
    BY <2>1, <2>2, OthersKeep
<1> QED
    BY <1>2, <1>3, <1>4, <1>5, MeetingKeeps DEF SettingsNext

\* Highlights, polls and proposals; the room's poll may be set to None.
LEMMA RoomWritten ==
    ASSUME ContentsInv, Tables(db)', NEW row, db'.room = row,
           db'.amendments = db.amendments, db'.paragraphs = db.paragraphs,
           db'.next_pk = db.next_pk, db'.doc = db.doc,
           req' = req \/ req' = Idle, asked \subseteq asked',
           row = NoRow \/ row \in Room,
           row # NoRow /\ row.show_ballot /\ row.poll # NoRow => row.poll \in asked'
    PROVE  ContentsInv'
<1>1. TextInv'
    BY DEF ContentsInv, TextInv, AmendmentKeepsItsText, Idle
<1>2. BallotInv'
    BY DEF ContentsInv, BallotInv, BallotWasAskedFor, Idle
<1> QED
    BY <1>1, <1>2 DEF ContentsInv

\* Room.save and the request that asks for a ballot: what is saved was asked for.
LEMMA SavedRoomAsked ==
    ASSUME NEW row \in Room, NEW read \in Room, AskBallot(row, read),
           read.show_ballot /\ read.poll # NoRow => read.poll \in asked
    PROVE  /\ SavedRoom(row, read) \in Room /\ asked \subseteq asked'
           /\ SavedRoom(row, read).show_ballot /\ SavedRoom(row, read).poll # NoRow
                 => SavedRoom(row, read).poll \in asked'
<1> DEFINE shows == row.show_ballot /\ ~(row.poll # read.poll /\ read.show_ballot)
           saved == SavedRoom(row, read)
<1>1. shows \in BOOLEAN
    OBVIOUS
<1>2. saved = [row EXCEPT !.show_ballot = shows]
    BY DEF SavedRoom
<1> HIDE DEF shows, saved
<1>3. saved \in Room /\ saved.show_ballot = shows /\ saved.poll = row.poll
    BY <1>1, <1>2 DEF Room
<1>4. asked \subseteq asked' /\ (row.show_ballot /\ ~read.show_ballot => row.poll \in asked')
    BY DEF AskBallot
<1>5. shows => row.show_ballot /\ (row.poll = read.poll \/ ~read.show_ballot)
    BY DEF shows
<1>6. saved.show_ballot /\ saved.poll # NoRow => saved.poll \in asked'
  <2> SUFFICES ASSUME shows, row.poll # NoRow PROVE row.poll \in asked'
    BY <1>3
  <2> QED
    BY <1>4, <1>5
<1> QED
    BY <1>3, <1>4, <1>6 DEF saved

\* The requests that save a room, at once or in two steps, and its deletion.
LEMMA RoomRequestsKeep ==
    ASSUME ContentsInv,
           \/ \E row \in Room : CreateRoom(row) \/ BeginPatchRoom(row) \/ HandleRoom(row)
           \/ FinishPatchRoom
           \/ DeleteRoom
    PROVE  ContentsInv'
<1>1. Tables(db) /\ db.room \in Room \cup {NoRow} /\ BallotWasAskedFor
    BY DEF ContentsInv, BallotInv
<1>2. ASSUME NEW row, db' = [db EXCEPT !.room = row]
      PROVE  /\ Tables(db)' /\ db'.room = row /\ db'.amendments = db.amendments
             /\ db'.paragraphs = db.paragraphs /\ db'.next_pk = db.next_pk /\ db'.doc = db.doc
    BY <1>1, <1>2 DEF Tables
<1>3. ASSUME NEW row \in Room, CreateRoom(row) PROVE ContentsInv'
  <2>1. db' = [db EXCEPT !.room = row] /\ req' = req
    BY <1>3 DEF CreateRoom, WriteRoom, Commit
  <2>2. asked \subseteq asked' /\ (row.show_ballot => row.poll \in asked')
    BY <1>3 DEF CreateRoom
  <2> QED
    BY <1>2, <2>1, <2>2, RoomWritten
<1>4. ASSUME NEW row \in Room, BeginPatchRoom(row) PROVE ContentsInv'
  <2>1. /\ req' = [kind |-> "room", row |-> row, read |-> db.room] /\ db' = db
        /\ asked' = asked /\ db.room \in Room /\ db.room # NoRow
    BY <1>1, <1>4 DEF BeginPatchRoom
  <2>2. /\ req'.kind = "room" /\ req'.row = row /\ req'.read = db.room
        /\ db.room.show_ballot /\ db.room.poll # NoRow => db.room.poll \in asked
    BY <1>1, <2>1 DEF BallotWasAskedFor
  <2> QED
    BY <2>1, <2>2, BeginKeeps
<1>5. ASSUME NEW row \in Room, HandleRoom(row) PROVE ContentsInv'
  <2>1. /\ db' = [db EXCEPT !.room = SavedRoom(row, db.room)] /\ req' = req
        /\ db.room \in Room /\ db.room # NoRow /\ AskBallot(row, db.room)
    BY <1>1, <1>5 DEF HandleRoom, WriteRoom, Commit
  <2>2. db.room.show_ballot /\ db.room.poll # NoRow => db.room.poll \in asked
    BY <1>1, <2>1 DEF BallotWasAskedFor
  <2> QED
    BY <1>2, <2>1, <2>2, SavedRoomAsked, RoomWritten
<1>6. CASE FinishPatchRoom
  <2>1. /\ req' = Idle /\ req.row \in Room /\ req.read \in Room
        /\ req.read.show_ballot /\ req.read.poll # NoRow => req.read.poll \in asked
    BY <1>6 DEF FinishPatchRoom, ContentsInv, BallotInv
  <2>2. CASE PollExists(req.row)
    <3>1. db' = [db EXCEPT !.room = SavedRoom(req.row, req.read)] /\ AskBallot(req.row, req.read)
      BY <1>6, <2>2 DEF FinishPatchRoom, WriteRoom, Commit
    <3> QED
      BY <1>2, <2>1, <3>1, SavedRoomAsked, RoomWritten
  <2>3. CASE ~PollExists(req.row)
    <3>1. Kept /\ asked' = asked
      BY <1>1, <1>6, <2>3 DEF FinishPatchRoom, Kept
    <3> QED
      BY <2>1, <3>1, EndKeeps
  <2> QED
    BY <2>2, <2>3
<1>7. CASE DeleteRoom
  <2>1. /\ db' = [db EXCEPT !.room = NoRow, !.highlighted = <<>>] /\ req' = req /\ asked' = asked
    BY <1>7 DEF DeleteRoom, Commit
  <2>2. /\ Tables(db)' /\ db'.room = NoRow /\ db'.amendments = db.amendments
        /\ db'.paragraphs = db.paragraphs /\ db'.next_pk = db.next_pk /\ db'.doc = db.doc
    BY <1>1, <2>1 DEF Tables
  <2> QED
    BY <2>1, <2>2, RoomWritten
<1> QED
    BY <1>3, <1>4, <1>5, <1>6, <1>7

\* What a room points at is deleted, or highlighted anew.
LEMMA RoomContentsKeep ==
    ASSUME ContentsInv,
           \/ \E list : Highlight(list)
           \/ \E p : DeleteRoomPoll(p)
           \/ \E q : DeleteRoomProposal(q)
    PROVE  ContentsInv'
<1>1. Tables(db) /\ db.room \in Room \cup {NoRow} /\ BallotWasAskedFor
    BY DEF ContentsInv, BallotInv
<1>2. ASSUME NEW list, Highlight(list) PROVE ContentsInv'
  <2>1. Kept /\ req' = req /\ asked' = asked
    BY <1>1, <1>2 DEF Highlight, Commit, Kept, Tables
  <2> QED
    BY <2>1, OthersKeep
<1>3. ASSUME NEW q, DeleteRoomProposal(q) PROVE ContentsInv'
  <2>1. PICK list : db' = [db EXCEPT !.proposals = db.proposals \ {q}, !.highlighted = list]
    BY <1>3 DEF DeleteRoomProposal, Commit
  <2>2. Kept /\ req' = req /\ asked' = asked
    BY <1>1, <1>3, <2>1 DEF DeleteRoomProposal, Kept, Tables
  <2> QED
    BY <2>2, OthersKeep
<1>4. ASSUME NEW p, DeleteRoomPoll(p) PROVE ContentsInv'
  <2> DEFINE row == IF db.room # NoRow /\ db.room.poll = p
                    THEN [db.room EXCEPT !.poll = NoRow] ELSE db.room
  <2>1. db' = [db EXCEPT !.polls = db.polls \ {p}, !.room = row] /\ req' = req /\ asked' = asked
    BY <1>4 DEF DeleteRoomPoll, Commit
  <2>2. /\ row = NoRow \/ row \in Room
        /\ row # NoRow /\ row.show_ballot /\ row.poll # NoRow => row.poll \in asked
    BY <1>1 DEF Room, BallotWasAskedFor
  <2> HIDE DEF row
  <2>3. /\ Tables(db)' /\ db'.room = row /\ db'.amendments = db.amendments
        /\ db'.paragraphs = db.paragraphs /\ db'.next_pk = db.next_pk /\ db'.doc = db.doc
    BY <1>1, <2>1 DEF Tables
  <2> QED
    BY <2>1, <2>2, <2>3, RoomWritten
<1> QED
    BY <1>2, <1>3, <1>4

\* Pages that open and close.
LEMMA PagesKeep ==
    ASSUME ContentsInv, \E c \in Users : OpenItem(c) \/ CloseItem(c)
    PROVE  ContentsInv'
    BY ItemKeeps DEF AgendaItemNext

\* Every request about rooms and highlighted proposals keeps the invariant.
LEMMA RoomsKeep ==
    ASSUME ContentsInv, RoomsNext \/ HighlightsNext
    PROVE  ContentsInv'
<1>1. CASE RoomsNext
    BY <1>1, RoomRequestsKeep, RoomContentsKeep, PagesKeep DEF RoomsNext
<1>2. CASE HighlightsNext
    BY <1>2, RoomRequestsKeep, RoomContentsKeep, PagesKeep DEF HighlightsNext
<1> QED
    BY <1>1, <1>2

\* The meeting starts with the invariant.
LEMMA ContentsStart ==
    ContentsInit => ContentsInv
<1> SUFFICES ASSUME ContentsInit PROVE ContentsInv
    OBVIOUS
<1>1. /\ Tables(db) /\ db.doc = NoRow /\ db.paragraphs = NoRow /\ db.next_pk = 1
      /\ db.amendments = {} /\ db.room = NoRow
    BY DEF ContentsInit, Tables
<1>2. req.kind = "idle"
    BY DEF ContentsInit, Idle
<1> QED
    BY <1>1, <1>2 DEF ContentsInv, TextInv, BallotInv, AmendmentKeepsItsText, BallotWasAskedFor

\* Every request that changes the contents keeps the invariant.
LEMMA ContentsStepKeeps ==
    ContentsInv /\ [ContentsNext]_contentsVars => ContentsInv'
<1> SUFFICES ASSUME ContentsInv, [ContentsNext]_contentsVars PROVE ContentsInv'
    OBVIOUS
<1>1. CASE UNCHANGED contentsVars
  <2>1. Kept /\ req' = req /\ asked' = asked
    BY <1>1 DEF contentsVars, ContentsInv, Kept, Tables
  <2> QED
    BY <2>1, OthersKeep
<1>2. CASE ContentsNext
    BY <1>2, AmendmentsNextKeeps, DiscussionKeeps, ReactionsKeep, RoomsKeep, SettingsKeep
    DEF ContentsNext
<1> QED
    BY <1>1, <1>2

\* In every reachable state an amendment under way compares with the paragraph
\* it will refer to, and the ballot of the room a request has read was asked for.
THEOREM ContentsInvariant ==
    ContentsSpec => []ContentsInv
<1> QED
    BY ContentsStart, ContentsStepKeeps, PTL DEF ContentsSpec

\* The requests and pages of Participation leave the contents alone.
LEMMA ParticipationIsApart ==
    ParticipationNext => [ContentsNext]_contentsVars
<1> SUFFICES ASSUME ParticipationNext PROVE ContentsNext \/ UNCHANGED contentsVars
    OBVIOUS
<1>1. SystemNext => UNCHANGED contentsVars
    BY DEF SystemNext, CreateSystem, PatchSystem, ActivateSystem, InactivateSystem, DeleteSystem,
           ArchiveSystem, Store
<1>2. ASSUME NEW l, NEW u, EnterList(l, u) PROVE UNCHANGED contentsVars
    BY <1>2 DEF EnterList, Store
<1>3. ASSUME NEW l, CreateList(l) PROVE UNCHANGED contentsVars
    BY <1>3 DEF CreateList, Store
<1>4. CASE RolesNext
    BY <1>1, <1>2, <1>3, <1>4
    DEF RolesNext, AddSpeakerRoles, RemoveSpeakerRoles, ParticipantRemoved, RolesRemoved, Store
<1>5. CASE SpeakingNext
  <2>1. CloseAgendaItem => UNCHANGED contentsVars
    BY DEF CloseAgendaItem, Store
  <2>2. ASSUME NEW l, \/ DeleteList(l)
                      \/ \E open \in BOOLEAN : PatchList(l, open)
                      \/ \E order : ShuffleList(l, order)
        PROVE UNCHANGED contentsVars
    BY <2>2 DEF DeleteList, PatchList, ShuffleList, Store
  <2>3. ASSUME NEW l, NEW u, \/ LeaveList(l, u) \/ StartTurn(l, u) \/ StopTurn(l, u)
                             \/ \E phase \in SpeakerPhases : ChangeSpeaker(l, u, phase)
        PROVE UNCHANGED contentsVars
    BY <2>3 DEF LeaveList, StartTurn, StopTurn, ChangeSpeaker, Store
  <2>4. ASSUME NEW c, NEW part, OpenSpeakerPage(c, part) \/ CloseSpeakerPage(c, part)
        PROVE UNCHANGED contentsVars
    BY <2>4 DEF OpenSpeakerPage, CloseSpeakerPage
  <2> QED
    BY <1>1, <1>2, <1>3, <1>5, <2>1, <2>2, <2>3, <2>4 DEF SpeakingNext
<1>6. CASE GroupsNext
  <2>1. ASSUME NEW g, NEW votes, \/ CreateGroup(g, votes)
                                 \/ \E to : PatchGroup(g, votes, to)
                                 \/ DeleteGroup(g)
        PROVE UNCHANGED contentsVars
    BY <2>1 DEF CreateGroup, PatchGroup, DeleteGroup, Store
  <2>2. ASSUME NEW g, NEW u, DeleteMember(g, u) \/ \E row : SaveMember(g, u, row)
        PROVE UNCHANGED contentsVars
    BY <2>2 DEF DeleteMember, SaveMember, Store
  <2>3. InstallGroupRole \/ DeleteGroupRole => UNCHANGED contentsVars
    BY DEF InstallGroupRole, DeleteGroupRole, Store
  <2> QED
    BY <1>6, <2>1, <2>2, <2>3 DEF GroupsNext
<1>7. CASE PresenceNext
    BY <1>7 DEF PresenceNext, SaveActiveComponent, BecomeActive, DeleteTransfer, RemoveFromMeeting,
                BecomeInactive, NewRegister, SaveTransfer, Store
<1>8. ASSUME NEW c, ReopenMeetingPage(c) PROVE UNCHANGED contentsVars
    BY <1>8 DEF ReopenMeetingPage
<1> QED
    BY <1>4, <1>5, <1>6, <1>7, <1>8 DEF ParticipationNext

\* Participation implements Contents: whatever happens to speakers, groups and
\* presence is a stutter for documents, amendments, posts and rooms.
THEOREM ParticipationRefinesContents ==
    ParticipationSpec => ContentsSpec
<1>1. ParticipationInit => ContentsInit
    BY DEF ParticipationInit
<1>2. [ParticipationNext]_allVars => [ContentsNext]_contentsVars
    BY ParticipationIsApart DEF allVars
<1> QED
    BY <1>1, <1>2, PTL DEF ParticipationSpec, ContentsSpec

\* The save of a document deletes the amendments with the paragraphs, and an
\* amendment that was begun before is refused or finds the same text.
THEOREM AmendmentsKeepTheirText ==
    ParticipationSpec => []AmendmentKeepsItsText
<1>1. ContentsInv => AmendmentKeepsItsText
    BY DEF ContentsInv, TextInv
<1> QED
    BY <1>1, ParticipationRefinesContents, ContentsInvariant, PTL

\* Room.save shows no ballot of another poll than the one that was asked for, also
\* when it writes back what it read before a second request.
THEOREM BallotsWereAskedFor ==
    ParticipationSpec => []BallotWasAskedFor
<1>1. ContentsInv => BallotWasAskedFor
    BY DEF ContentsInv, BallotInv
<1> QED
    BY <1>1, ParticipationRefinesContents, ContentsInvariant, PTL
=============================================================================
