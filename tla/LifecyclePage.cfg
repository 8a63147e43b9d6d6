CONSTANTS
    p1 = p1
    p2 = p2
    Pairs = {p1, p2}
    NoPair = NoPair
    Stages <- MCStages
    Loads = 2
    Clicks = 1
    MaxClicks = 1
    MaxChoices = 1
    MaxTroubles = 1
    MaxRows = 2
SPECIFICATION FairSpec
INVARIANTS
    TypeOK
    RowsAreTrue
PROPERTIES
    GatesAreThePrerequisites
    LoadingEnds
CHECK_DEADLOCK FALSE
