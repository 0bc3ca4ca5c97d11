SPECIFICATION Spec
CONSTANTS
    a1 = a1
    a2 = a2
    p1 = p1
    p2 = p2
    q1 = q1
    q2 = q2
    NoList = NoList
    AgendaItems <- OneItem
    Polls <- SharedPolls
    Proposals <- SharedProposals
    PollItem <- SharedPollItem
    PollProposals <- SharedPollProposals
    ProposalItem <- SharedProposalItem
    ListItems = {}
CHECK_DEADLOCK FALSE
INVARIANTS
    PollsRestOnContent
PROPERTIES
    PollsKeepLifecycle
