\* user.go:11-14, violated
SPECIFICATION Spec
CONSTANTS
    u1 = u1
    u2 = u2
    e1 = e1
    e2 = e2
    Uuids = {u1}
    Emails = {e1}
    Nodes = {"self"}
    Conns = {c1}
    Chunks = {1}
    NoUuid = NoUuid
    NoEmail = NoEmail
    UserLists <- OneUserLists
    UsageLists <- TightUsage
    MaxMoved = 4
INVARIANT RevokedLoseAccess
