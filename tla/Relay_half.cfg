\* handler.go:272-273, violated: the first direction to end closes both.
SPECIFICATION Spec
CONSTANTS
    Kinds <- TCPOnly
    MaxSend = 1
CHECK_DEADLOCK FALSE
INVARIANT HalfCloseHonoured
