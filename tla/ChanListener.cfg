\* Four connections on a channel of one; the listener may stay closed for ever.
SPECIFICATION FairSpec
CONSTANTS
    c1 = c1
    c2 = c2
    c3 = c3
    c4 = c4
    Conns <- FourConns
    Cap = 1
CHECK_DEADLOCK FALSE
PROPERTIES
    DeliveredIsSettled
    CloseEndsAccept
