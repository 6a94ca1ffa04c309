SPECIFICATION InlineSpec
CONSTANTS
    Programs <- MCPrograms
    MovSizes <- MCMovSizes
INVARIANTS
    SupportIsExact
    WindowIsWhole
CHECK_DEADLOCK FALSE
