SPECIFICATION Spec
CONSTANTS
    u1 = u1
    u2 = u2
    u3 = u3
    Users <- ThreeUsers
    Method = "gender_prio"
    SafePositions = 1
    MaxTimes = 1
    Prioritised = {u1}
    Workers = {w1, w2}
    MaxRows = 4
    MaxSharedRows = 2
SYMMETRY QueueSymmetry
INVARIANTS
    
    EverySecondIsPrioritised
PROPERTIES
    SafeSpeakersNotOvertaken
    OvertakingHasAReason
    ReorderRepairs
