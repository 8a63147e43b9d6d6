SPECIFICATION PagesSpec
CONSTANTS
    Users = {u0, u1, u2, u3}
    Admin = u0
    Emails = {a, b}
    AdminEmail = own
    Requests = {r1, r2}
    NoRequest = norequest
    Limit = 2
    MaxCalls = 4
    MaxFaults = 2
    Ids = {i1, i2}
    Seats = 2
    MaxSends = 3
    Candidates = {c1, c2}
    Nobody = nobody
    MaxUpdates = 2
    MaxUploads = 2
    MaxPuts = 3
    Pairs = {p1, p2}
    NoPair = nopair
    Loads = {l1, l2}
    MaxClicks = 3
    Tabs = {t1, t2}
    MaxCodes = 2
    MaxAttempts = 1
    MaxCheckouts = 1
    MaxEvents = 1
    Resumes = {d1, d2}
    NoResume = noresume
    Slots = {s1, s2}
INVARIANTS PagesTypeOK SeatsKept BothOrNeither PagesCatchUp WaitingMeansWork WritesReachTheirRow
    PaymentIsGuarded
CHECK_DEADLOCK FALSE
