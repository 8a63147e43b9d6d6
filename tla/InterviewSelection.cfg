CONSTANTS
    p1 = p1
    p2 = p2
    i1 = i1
    i2 = i2
    i3 = i3
    Pairs = {p1, p2}
    Interviews = {i1, i2, i3}
    PairOf <- MCPairOf
    NoRow = NoRow
    Workers = {w1, w2}
SPECIFICATION Spec
INVARIANTS
    TypeOK
    OneActiveInterview
    StagesInOrder
PROPERTIES
    DecisionIsFinal
SYMMETRY Symmetry
