\* All relays; a finished connection has no more steps.
SPECIFICATION FairSpec
CONSTANTS
    Kinds <- AllKinds
    MaxSend = 2
CHECK_DEADLOCK FALSE
INVARIANTS
    EndedDirectionComplete
    CarriedIsCountedOnce
 
