SPECIFICATION MCSpec
CONSTANTS
    u1 = u1
    u2 = u2
    c1 = c1
    c2 = c2
    c3 = c3
    t1 = t1
    t2 = t2
    k1 = k1
    k2 = k2
    k3 = k3
    p1 = p1
    p2 = p2
    Users <- TwoUsers
    Callers <- TwoCallers
    Tokens <- TwoTokens
    Passwords <- TwoPasswords
    MaxSchools = 2
    Staff <- TwoUsers
    Agents <- ThreeCallers
    Rows <- ThreeIds
    Requests <- ThreeCallers
    Egresses <- ThreeIds
SYMMETRY Symmetry
CHECK_DEADLOCK FALSE
INVARIANTS
    MCTypeOK
    OneSchool
    AdminRemains
    SurvivorRaced
    AssigneeOpen
    OneOpenUnlessOverlapped
    LessonFollowsSession
    EndedRoomWasClosed
    RunawayHasCause
