\* One connection of any kind while the settings change; a panic ends the
\* process, so the system may stop.
SPECIFICATION Spec
CONSTANTS
    Keys = {"k1", "k2"}
    Configs <- RotatingConfigs
    Requests <- ManyRequests
    MuxOn = TRUE
INVARIANTS
    ParsedAsSent
    PanicHasCause
    VisionOnlyOnDirectConn
    PlaintextHasCause
    SteadyClientsServed
CHECK_DEADLOCK FALSE
