\* A TCP and a UDP session; a finished tunnel has no more steps.
SPECIFICATION FairSpec
CONSTANTS
    Sessions = {s1, s2}
    UDP = {s2}
    One = s1
    MaxWire = 1
    MaxUp = 1
    MaxDown = 1
CHECK_DEADLOCK FALSE
INVARIANTS
    UploadComplete
    SessionsIndependent

    
    
    
