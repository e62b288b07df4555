SPECIFICATION OnePartSpec
CONSTANTS
    NanosMod = 1000
    Precision = 2000
    Table <- MCTable
    Unlisted = {"???"}
    Sent <- MCSent
    Price <- MCPrice
    Selectable = {"USD", "EUR"}
    CartLists <- MCCartLists
    Categories <- MCCategories
    AdsOf <- MCAdsOf
    MaxAsks = 2
    MaxResponses = 3
    RowSize = 2
    MaxSafe = 1000
    Sends <- Read
    MaxReviews = 6
    Scores = {0, 14, 15, 25, 44, 50, 70}
INVARIANTS
    PricesAreTrue
    RowIsWellChosen
    AdsAreOnTopic
    AnswerIsForThisPage
    PercentsAddUp
    MessagesAreRead
    LargeAmountsAreRefused
    AppAndWebAgree
