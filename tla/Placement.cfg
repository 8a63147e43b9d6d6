CONSTANTS
    Pairs = {p1}
    Clients = {cl1, cl2}
    Dates = {d1, d2}
    NoDate = NoDate
    NoRow = NoRow
    Workers = {w1, w2, w3}
    NoWorker = NoWorker
SPECIFICATION FairSpec
INVARIANTS
    TypeOK
    PlacementInOrder
PROPERTIES
    RequestsEnd
    PlacedOnFitRows
