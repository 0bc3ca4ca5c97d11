SPECIFICATION FairSpec
CONSTANTS
    Sockets = {p}
    Organisation = org
    Channels = {org, meeting}
    Jobs = {j1, j2}
    NumCollectors = 1
    MaxVersion = 1
    MaxAsks = 2
CHECK_DEADLOCK FALSE
INVARIANTS
    NoUpdateLost
    
    RevokedSubscriptionEnds
PROPERTIES
    AskedIsAnswered
