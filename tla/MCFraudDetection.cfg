SPECIFICATION FairFraudSpec
CONSTANTS
    BatchMax = 3
    PollLimit = 1
    MaxLog = 4
    MaxCrashes = 1
INVARIANTS
    NoOrderPassedOver
PROPERTIES
    RecordsArePassed
