\* Two connections and two users that share an e-mail for a while; no symmetry,
\* since liveness is checked.
SPECIFICATION FairSpec
CONSTANTS
    u1 = u1
    u2 = u2
    e1 = e1
    e2 = e2
    Uuids = {u1, u2}
    Emails = {e1, e2}
    Nodes = {"self"}
    Conns = {c1, c2}
    Chunks = {1}
    NoUuid = NoUuid
    NoEmail = NoEmail
    UserLists <- SharingLists
    UsageLists <- MixedUsage
    MaxMoved = 3
INVARIANTS
    IndexExact
    RevocationReachesTracked
    LocalCutDisconnects
    CutIffExhausted
    
PROPERTIES
    ImplementsLedger
    NoLossForActiveUsers
    OnlyOffendersClosed
    
