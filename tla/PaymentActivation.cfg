SPECIFICATION FairSpec
CONSTANTS
    Tabs = {t1}
    MaxCodes = 1
    MaxAttempts = 1
    MaxEvents = 2
    MaxCheckouts = 1
CHECK_DEADLOCK FALSE
PROPERTIES PaymentActivates
