CONSTANTS
    Tabs = {t1, t2}
    Newcomers = {t2}
    Accounts = {customer, visitor}
    Customers = {customer}
    Trials = {visitor}
    Sessions = {s1, s2}
    MaxCalls = 1
    MaxVisits = 1
    None = None
SPECIFICATION FairSpec
INVARIANTS
    TypeOK
    TabsKnowTheSession
PROPERTIES
    GoodSessionKept
    LoggedOutEverywhere
CHECK_DEADLOCK FALSE
