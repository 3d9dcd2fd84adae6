\* handler.go:37-39 and 121-128, violated
SPECIFICATION Spec
CONSTANTS
    Keys = {"k1", "k2"}
    Configs <- NoConfigs
    Requests <- OneRequest
    MuxOn = TRUE
INVARIANT DispatchedHoweverItArrives
CHECK_DEADLOCK FALSE
