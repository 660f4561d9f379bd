SPECIFICATION Spec
CONSTANTS
    s1 = s1
    s2 = s2
    c1 = c1
    c2 = c2
    t1 = t1
    t2 = t2
    a1 = a1
    a2 = a2
    a3 = a3
    q1 = q1
    q2 = q2
    NoScore = NoScore
    Kind = "exam"
    Students <- OneStudent
    Clients <- TwoClients
    Teachers <- TwoTeachers
    Attempts <- TwoAttempts
    Questions <- OneQuestion
    Manual = TRUE
    Limit = 1
    Opens = 0
    Closes = 1
    Duration = 1
    Grace = 0
    Horizon = 2
    MaxScore = 1
    ManualScores = {0, 1}
    MaxRevisions = 1
SYMMETRY Symmetry
INVARIANTS
    TypeOK
    WithinLimit
PROPERTIES
    StartedWhileOffered
    SilentOnlyWhenFirst
