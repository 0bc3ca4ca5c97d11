SPECIFICATION ParticipationSpec
CONSTANTS
    u = u
    m = m
    t1 = t1
    t2 = t2
    p1 = p1
    p2 = p2
    q1 = q1
    q2 = q2
    tag = tag
    l1 = l1
    l2 = l2
    g1 = g1
    g2 = g2
    Lists <- MCLists
    ListsOfItem <- MCListsOfItem
    Groups <- MCGroups
    GroupVotes = {0, 1}
    Watchers <- MCWatchers
    MaxSpeakers = 2
    SpeakerRoles = {"speaker", "list_moderator"}
    Users <- MCUsers
    Moderator = m
    Texts <- MCTexts
    RoomPolls <- MCPolls
    RoomProposals <- MCProposals
    Tags <- MCTags
    MaxEdits = 4
    Focuses = {"amendments", "discussion", "reactions", "rooms", "highlights", "settings", "speaking", "roles", "groups", "presence"}
    NoRow = NoRow
CHECK_DEADLOCK FALSE
INVARIANTS
    
    AmendmentKeepsItsText
    BallotWasAskedFor
    PagesShowParticipants
