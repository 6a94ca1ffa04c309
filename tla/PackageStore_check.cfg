CONSTANTS
    p1 = p1  p2 = p2
    NoPackage = NoPackage
    Package <- Packages
    User <- Users
    SharedId <- OwnId
    Sharer <- Packages
    FIRST_APPLICATION_UID = 10
    MaxInstalls = 3
    MaxChanges = 3
    MaxSaves = 1
    MaxTroubles = 1
SPECIFICATION Spec
SYMMETRY Symmetry
INVARIANTS
    UidsDistinct
    InstalledStays
    
