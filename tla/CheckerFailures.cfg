CONSTANTS
    q3 = q3
    Requests = {q1, q2, q3}
    Rules = {1, 2}
    Keys <- MCKeys
    Capacity <- MCCapacity
    LevelKeys <- MCLevelKeys
    Matched <- AllRules
    DenyLogLen = 2
    MaxGain = 1
    MaxFailures = 2
SPECIFICATION Spec
INVARIANTS TypeOK NoOverAdmission FailClosed CurvesHonest RefusalsLogged RefusalsEarned
SYMMETRY SameClient
CHECK_DEADLOCK FALSE
