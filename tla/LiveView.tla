----------------------------- MODULE LiveView -----------------------------
(***************************************************************************)
(* What the open pages of a participant and of a moderator show of the     *)
(* meeting's agenda items, polls and proposals.                            *)
(*                                                                         *)
(* A page that subscribes to a channel is sent the app state: what the     *)
(* channel's collectors read from the database.  From then on it is kept   *)
(* up to date by the messages the signal receivers publish about each row  *)
(* that is saved, deleted or moved through its state machine.  The rows    *)
(* and the requests are those of MeetingWorkflow; the receivers below look *)
(* at the row before and after the request.                                *)
(*                                                                         *)
(* Messages of a request leave after its commit, grouped by action and     *)
(* target.  No two of them say different things about one row, so their    *)
(* order is left out.  A row saved without a change repeats a message.     *)
(***************************************************************************)
EXTENDS MeetingWorkflow

VARIABLE seen   \* per client, what it shows of each row

liveVars == <<vars, seen>>

\* Moderators subscribe to the moderators' channel instead of the
\* participants' channel.
Clients == {"participant", "moderator"}

NotShown == [state |-> "absent", result |-> NoResult]

\* PollDetailSerializer for the channel: the result is left out until the poll
\* is finished, and for participants while it is withheld.
PollPayload(c, state, r) ==
    [state |-> state,
     result |-> IF \/ state = "finished"
                   \/ state = "withheld" /\ c = "moderator"
                THEN r ELSE NoResult]

-----------------------------------------------------------------------------
(* The collectors.                                                         *)

ItemPrivateTo(c, a) == c = "participant" /\ item[a] = "private"

AgendaItemsFor(c) ==
    [a \in AgendaItems |-> IF ItemPrivateTo(c, a) THEN "absent" ELSE item[a]]

ProposalsFor(c) ==
    [q \in Proposals |->
        IF ItemPrivateTo(c, ProposalItem[q]) THEN "absent" ELSE proposal[q]]

PollsFor(c) ==
    [p \in Polls |->
        IF \/ ItemPrivateTo(c, PollItem[p])
           \/ c = "participant" /\ poll[p] = "private"
           \/ poll[p] = "absent"
        THEN NotShown ELSE PollPayload(c, poll[p], result[p])]

AppState(c) ==
    [item |-> AgendaItemsFor(c), proposal |-> ProposalsFor(c), poll |-> PollsFor(c)]

-----------------------------------------------------------------------------
(* The receivers: which message a channel gets from the request.           *)

Saved(row, key) == row'[key] # row[key] /\ row'[key] # "absent"
Deleted(row, key) == row[key] # "absent" /\ row'[key] = "absent"

\* after_sm_transition: archive() assigns the state without a transition.
Transition(a) ==
    /\ Saved(item, a)
    /\ item[a] # "absent"
    /\ item'[a] # "archived"

PublishAgendaChanged(c, a) ==
    Saved(item, a) /\ (c = "moderator" \/ item'[a] # "private")

AiMadePrivate(c, a) ==
    Transition(a) /\ item'[a] = "private" /\ c = "participant"

AgendaDelete(c, a) == Deleted(item, a)

ProposalUpdated(c, q) ==
    /\ Saved(proposal, q)
    /\ c = "moderator" \/ item'[ProposalItem[q]] # "private"

ProposalDelete(c, q) ==
    /\ Deleted(proposal, q)
    /\ c = "moderator" \/ item[ProposalItem[q]] # "private"

PrivateAiPublished(c, a) ==
    Transition(a) /\ item[a] = "private" /\ c = "participant"

\* private_ai_published of the polls: those that are private stay so.
PrivateAiPolls(c, p) ==
    PrivateAiPublished(c, PollItem[p]) /\ poll'[p] \notin {"absent", "private"}

\* The row a request saves again is sent again: a poll is saved when its state
\* or its result changes.
PollSaved(p) == <<poll'[p], result'[p]>> # <<poll[p], result[p]>> /\ poll'[p] # "absent"

PollChange(c, p) ==
    /\ PollSaved(p)
    /\ c = "moderator" \/ (poll'[p] # "private" /\ item'[PollItem[p]] # "private")

\* Mutant: nothing is sent about a poll that is private.
PollMadePrivateSilently(c, p) == FALSE

\* The branch of poll_change for a private poll that existed before.
PollMadePrivate(c, p) ==
    PollSaved(p) /\ poll[p] # "absent" /\ poll'[p] = "private" /\ c = "participant"

PollDelete(c, p) ==
    /\ Deleted(poll, p)
    /\ c = "moderator" \/ (poll[p] # "private" /\ item[PollItem[p]] # "private")

-----------------------------------------------------------------------------
(* The page applies what it receives.  With an agenda item it drops what it *)
(* shows under the item.                                                   *)

ItemGone(c, a) == AiMadePrivate(c, a) \/ AgendaDelete(c, a)

Receive(c) ==
    [item |-> [a \in AgendaItems |->
        IF ItemGone(c, a) THEN "absent"
        ELSE IF PublishAgendaChanged(c, a) THEN item'[a] ELSE seen[c].item[a]],
     proposal |-> [q \in Proposals |->
        IF ProposalDelete(c, q) \/ ItemGone(c, ProposalItem[q]) THEN "absent"
        ELSE IF ProposalUpdated(c, q) \/ PrivateAiPublished(c, ProposalItem[q])
        THEN proposal'[q] ELSE seen[c].proposal[q]],
     poll |-> [p \in Polls |->
        IF PollDelete(c, p) \/ PollMadePrivate(c, p) \/ ItemGone(c, PollItem[p])
        THEN NotShown
        ELSE IF PollChange(c, p) \/ PrivateAiPolls(c, p)
        THEN PollPayload(c, poll'[p], result'[p]) ELSE seen[c].poll[p]]]

LiveInit ==
    /\ Init
    /\ seen = [c \in Clients |-> AppState(c)]

LiveNext ==
    /\ Next
    /\ seen' = [c \in Clients |-> Receive(c)]

LiveSpec == LiveInit /\ [][LiveNext]_liveVars

\* The fairness of MeetingWorkflow, for the steps that also send messages.
LiveFairSpec ==
    /\ LiveSpec
    /\ WF_liveVars(GracePeriodEnds /\ LiveNext)
    /\ WF_liveVars(DeleteRequestedMeetings /\ LiveNext)

-----------------------------------------------------------------------------

\* A page that stays open shows what a page that subscribes now would be sent,
\* however items, polls and proposals were published, hidden, counted,
\* withheld and deleted since.  The one exception is an agenda item archived
\* straight out of private: participants are told of the item and not of what
\* is under it, so there the page may show less.
LiveViewIsAppState ==
    \A c \in Clients :
        /\ seen[c].item = AgendaItemsFor(c)
        /\ \A q \in Proposals :
              \/ seen[c].proposal[q] = ProposalsFor(c)[q]
              \/ item[ProposalItem[q]] = "archived" /\ seen[c].proposal[q] = "absent"
        /\ \A p \in Polls :
              \/ seen[c].poll[p] = PollsFor(c)[p]
              \/ item[PollItem[p]] = "archived" /\ seen[c].poll[p] = NotShown
=============================================================================
