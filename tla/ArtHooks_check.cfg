CONSTANTS
    t1 = t1  t2 = t2
    c1 = c1  c2 = c2
    a1 = a1  a2 = a2  a3 = a3
    Null = Null
    Thread <- Threads
    Order <- TwoCallbacks
    Addr <- Addrs
    MaxMoves = 2
SPECIFICATION Spec
SYMMETRY Symmetry
INVARIANTS
    CallsArePaired
    OutcomeIsLastSaid
    OriginalIsOriginal
    OriginIsCurrent
