CONSTANTS
    p1 = p1  p2 = p2
    r1 = r1  r2 = r2
    c1 = c1
    Null = Null
    Proc <- TwoProcs
    Svc <- TwoSvcs
    Conn <- OneConn
    MaxStart = 2
    MaxQueue = 2
SPECIFICATION FairSpec
CHECK_DEADLOCK FALSE
INVARIANTS
    RunningIsTracked
    OneInstance
    KnownIsBacked
    
    BelievedOnlyIfLate

    
    
