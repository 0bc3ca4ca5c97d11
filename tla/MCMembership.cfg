SPECIFICATION Spec
CONSTANTS
    u1 = u1
    i1 = i1
    r1 = r1
    Users <- MCUsers
    Groups = {g1}
    GroupRoles = {r1}
    Grants <- MCGrants
    Blocked = {"di"}
    Idents = {i1}
    Owner <- MCOwner
    Emails = {i1}
    Offered <- MCOffered
    NoRow = NoRow
    NotMember = NotMember
    NoRole = NoRole
    NoInvite = NoInvite
    Nobody = Nobody
CHECK_DEADLOCK FALSE
INVARIANTS
    RolesRestOnParticipation
    
PROPERTIES
    ModeratorsKept
