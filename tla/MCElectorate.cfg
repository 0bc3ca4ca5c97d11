SPECIFICATION Spec
CONSTANTS
    u1 = u1
    u2 = u2
    u3 = u3
    g1 = g1
    g2 = g2
    UserOrder <- MCUserOrder
    GroupOrder <- MCGroupOrder
    SKRGroup = g2
    PairsOf <- MCPairsOf
    MaxVotes = 2
    NoGroup = NoGroup
    Nobody = Nobody
INVARIANTS
    
    MainDelegatesFirst
