SPECIFICATION Spec
CONSTANTS
    u1 = u1
    u2 = u2
    NoRegister = NoRegister
    NoVote = NoVote
    Abstain = Abstain
    Users <- MCUsers
    VoteData = {"yes", "no"}
    Registers <- MCRegisters
    Requests = {r1, r2}
SYMMETRY RequestSymmetry
INVARIANTS
    PollRowIsSound
    RecountAgrees
PROPERTIES
    
    KeepsLifecycle
