CONSTANTS
    Instances = {i1, i2}
    Ids = {r1, r2, r3}
    Requests = {p1, p2}
    Existing = {r1, r2}
    Fresh = {}
    Updatable = {r1}
    Deletable = {r2}
    Starting = {i2}
    ChannelSize = 1
    MaxCrashes = 0
    MaxFailures = 0
SPECIFICATION Spec
INVARIANTS HotCopies
CHECK_DEADLOCK FALSE
