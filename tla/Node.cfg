\* One connection, every kind of fault; the user comes and goes with her cap.
SPECIFICATION FairSpec
CONSTANTS
    u1 = u1
    e1 = e1
    Uuids = {u1}
    Emails = {e1}
    Nodes = {"self"}
    Conns = {c1}
    Chunks = {1}
    NoUuid = NoUuid
    NoEmail = NoEmail
    UserLists <- OneUser
    UsageLists = {}
    MaxMoved = 2
    NodeConfigs = {confA}
    Quotas <- CapOrNone
    NoTag = NoTag
    RetryCount = 1
    MaxFaults = 2
    MaxForeign = 1
    BadBodies = TRUE
INVARIANTS
    NoDoubleCharge
    OnlyWindowOverlooked
PROPERTIES
    ImplementsLedger
    NodeFollowsManager
    TrafficEventuallyReported
