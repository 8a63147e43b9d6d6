CONSTANTS
    c1 = c1
    r1 = r1
    r2 = r2
    s1 = s1
    s2 = s2
    s3 = s3
    Candidates = {c1}
    Requirements = {r1, r2}
    Screenings = {s1, s2, s3}
    PairOf <- MCPairOf
    Limit <- MCLimit
    Workers = {w1, w2}
    NoWorker = NoWorker
SPECIFICATION FairSpec
INVARIANTS
    TypeOK
    CountMatchesActive
    AuditTellsTheTables
PROPERTIES
    RequestsEnd
    SubmittedOnEvidence
    SlotPool

