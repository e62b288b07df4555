SPECIFICATION ShopSpec
CONSTANTS
    Adds = {a, b}
    Empties = {e}
    Orders = {o, p}
    Currencies = {USD, EUR}
    Retry = 1
    Second = p
    Late = b
CONSTRAINT OneStory
INVARIANTS
    ReadYourWrites
    OrderBuysWhatIsShown
    PlacedOrdersShareNothing
PROPERTIES
    CartCatchesUp
CHECK_DEADLOCK FALSE
