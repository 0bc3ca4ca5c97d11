SPECIFICATION TaskSpec
CONSTANTS
    NoWinners = NoWinners
    FRAME_OVERHEAD = 2
    SECTION_OVERHEAD = 2
    Envelope = 1
    VOTEIT_BATCH_THRESHOLD = 3
    Polls <- SomePolls
    PollVoters <- ThreeVoters
    Weights <- SomeWeights
    StateTasks <- SomeStates
    Transactions <- SomeTransactions
    Imports <- SomeImports
    MAX_ROWS = 3
    GroupIds = {"g"}
    GroupRoleIds = {"x", "y"}
    BlockedRoles = {}
    NormalCell <- Normal
    InviteFiles <- SomeFiles
CHECK_DEADLOCK FALSE
INVARIANTS
    
    VerdictFollowsBallots
    OutboxKeepsMessages
    ImportKeepsContent
    
