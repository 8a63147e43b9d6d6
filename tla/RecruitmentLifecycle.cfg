CONSTANTS
    c1 = c1
    r1 = r1
    s1 = s1
    i1 = i1
    Candidates = {c1}
    Requirements = {r1}
    Clients = {cl1}
    Dates = {d1}
    Screenings = {s1}
    ScreeningPair <- MCScreeningPair
    Limit <- MCLimit
    Interviews = {i1}
    InterviewPair <- MCInterviewPair
    ScreeningWorkers = {sw1}
    InterviewWorkers = {iw1}
    PlacementWorkers = {pw1}
    NoDate = NoDate
    NoRow = NoRow
    NoWorker = NoWorker
SPECIFICATION Spec
PROPERTIES
    CanonicalLifecycle
    GroupsAsSpecified
