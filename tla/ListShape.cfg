CONSTANTS
    Growing = {"interviews"}
    MaxListed = 2
    MaxEvents = 4
SPECIFICATION ListsSpec
INVARIANTS
    ListsShowTheirRows
CHECK_DEADLOCK FALSE
