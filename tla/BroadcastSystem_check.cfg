SPECIFICATION FairBroadcastSpec
CONSTANTS
    b1 = b1
    b2 = b2
    t1 = t1
    None = None
    Other = Other
    Bcast <- Bcasts
    Ordered <- First
    Receiver <- Receivers
    tokenOf <- ToOne
INVARIANTS
    RecordIsTimed

    
CHECK_DEADLOCK FALSE
