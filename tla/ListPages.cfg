CONSTANTS
    Growing = {"interviews"}
    MaxListed = 2
    MaxEvents = 4
SPECIFICATION ListsFairSpec
INVARIANTS
    ListsTypeOK
PROPERTIES
    FormsRecover
CHECK_DEADLOCK FALSE
