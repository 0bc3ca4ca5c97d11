SPECIFICATION LiveFairSpec
CONSTANTS
    a1 = a1
    a2 = a2
    p1 = p1
    q1 = q1
    NoList = NoList
    AgendaItems <- TwoItems
    Polls <- OnePoll
    Proposals <- OneProposal
    PollItem <- OnePollItem
    PollProposals <- OnePollProposals
    ProposalItem <- OneProposalItem
    ListItems <- TwoItems
CHECK_DEADLOCK FALSE
INVARIANTS
    LiveViewIsAppState
    PurgeSparesHeldMeetings
PROPERTIES
    ArchivedContentFrozen
    RequestedDeletionHappens
