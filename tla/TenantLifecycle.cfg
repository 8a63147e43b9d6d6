CONSTANTS
    Owner = owner
    Users = {owner, colleague}
    Provisioners = {p1, p2}
    Sweepers = {w1, w2}
    NoWorker = NoWorker
    MaxFailures = 2
SPECIFICATION FairSpec
INVARIANTS
    TypeOK
    ReadyMeansUsable
    RetiredReasonKept
PROPERTIES
    EventuallyDeleted
    ArchivedBeforeDrop
