SPECIFICATION Spec
CONSTANTS
    None = None
    Torn = Torn
    ListFile = ListFile
    MaxId = 2
    MaxCreated = 3
    MaxRemovals = 2
    MaxCrashes = 2
INVARIANTS
    CreatedAlwaysSurvives
