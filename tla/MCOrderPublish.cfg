SPECIFICATION FairPublishSpec
CONSTANTS
    Orders = {o1, o2, o3}
    ffValue = 1
    InputRoom = 1
    SuccessRoom = 1
CHECK_DEADLOCK FALSE
INVARIANTS
    AnswersBalance
    WedgedOnlyByThoseWhoGaveUp
PROPERTIES
    WaitingEnds
