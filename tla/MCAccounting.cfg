SPECIFICATION FairPipelineSpec
CONSTANTS
    Orders = {o1, o2}
    MaxLog = 4
    MaxCrashes = 2
CHECK_DEADLOCK FALSE
INVARIANTS
    BookedOrdersWereShipped
    BookedAtMostOnce
    NoSilentGap
PROPERTIES
    EveryMessageSettles
