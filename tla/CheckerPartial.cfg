CONSTANTS
    q3 = q3
    Requests = {q1, q2}
    Rules = {1, 2}
    Keys <- MCKeys
    Capacity <- MCCapacity
    LevelKeys <- MCLevelKeys
    Matched <- AllRules
    DenyLogLen = 2
    MaxGain = 0
    MaxFailures = 0
SPECIFICATION Spec
INVARIANTS DeniedPaysNothing
CHECK_DEADLOCK FALSE
