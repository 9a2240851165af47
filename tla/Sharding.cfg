SPECIFICATION FairSpec
CONSTANTS
    Members = {1, 2, 3}
    Role <- MCRole
    Total = 3
    Mesh = TRUE
    Reports = FALSE
    MaxFaults = 1
CHECK_DEADLOCK FALSE
INVARIANTS
    SpansTile
    DeregisteredStaysOut
PROPERTIES
    EventuallyAgreed
