CONSTANTS
    p1 = p1  p2 = p2
    a1 = a1  a2 = a2
    r1 = r1  r2 = r2
    Null = Null
    Proc <- TwoProcs
    App <- TwoApps
    Request <- TwoRequests
    Kept <- KeptForP1
    Starts <- StartsInBoth
    MaxSent = 1
SPECIFICATION Spec
CHECK_DEADLOCK FALSE
INVARIANTS
    BoundAsAttached
    EarlyOnlyIfSlipped
    AwaitedIsComing
