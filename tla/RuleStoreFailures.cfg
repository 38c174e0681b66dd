CONSTANTS
    Instances = {i1, i2}
    Ids = {r1, r2}
    Requests = {p1, p2}
    Existing = {r1}
    Fresh = {r2}
    Updatable = {r1, r2}
    Deletable = {r1, r2}
    Starting = {}
    ChannelSize = 1
    MaxCrashes = 1
    MaxFailures = 2
SPECIFICATION FairSpec
INVARIANTS TypeOK DurableBeforeInForce SettlesOnStored
PROPERTIES EventuallyInSync
CHECK_DEADLOCK FALSE
