CONSTANTS
    A = A  B = B
    Comp <- Comps
    launchMode <- Modes
    documentMode <- NoDocuments
    affinity <- OneAffinity
    FlagSets <- SomeFlags
    MaxStarts = 3
    MaxTroubles = 1
SPECIFICATION Spec
INVARIANTS
    TypeOK
    
    
    
    MarkedIsPosted
CHECK_DEADLOCK FALSE
