SPECIFICATION FileSpec
CONSTANTS
    v1 = v1
    v2 = v2
    v3 = v3
    Value <- Values
    None = None
    Torn = Torn
    Keep = Keep
    NoFileOp = NoFileOp
INVARIANTS
    CrashStates

    
