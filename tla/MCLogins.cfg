SPECIFICATION LoginSpec
CONSTANTS
    p1 = p1
    p2 = p2
    b1 = b1
    b2 = b2
    People <- MCPeople
    Accounts = {a1, a2}
    Browsers <- MCBrowsers
    MayUse <- MCMayUse
    IdProxy = idproxy
    Providers = {idproxy, scoutid}
    MaxVersion = 1
    MaxLogins = 3
    MaxOthers = 2
SYMMETRY AccountSymmetry
CHECK_DEADLOCK FALSE

    
PROPERTIES
    FinishedLoginHasAccepted
