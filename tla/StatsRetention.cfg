CONSTANTS
    q1 = q1
    q2 = q2
    q3 = q3
    Requests = {q1, q2, q3}
    Rules = {1, 2}
    Matched <- MCMatched
    Keys = {"global"}
    LevelKeys <- MCLevelKeys
    Pace <- MCPace
    Longest <- MCLongest
    Second = 2
    Retention = 4
    LogLen = 2
    MaxSeconds = 1
    MaxNow = 8
    MaxLag = 1
    MaxBreaks = 0
SPECIFICATION Spec
INVARIANT ZeroFillsNoEvents
SYMMETRY StatsSymmetry
CHECK_DEADLOCK FALSE
