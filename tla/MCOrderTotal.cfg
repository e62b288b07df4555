SPECIFICATION OrderPageSpec
CONSTANTS
    NanosMod = 8
    Currency = "USD"
    Costs <- MCCosts
    Shippings <- MCShippings
    Quantities = {0, 1, 2, 3}
    MaxLines = 2
CHECK_DEADLOCK FALSE
INVARIANTS
    PanicsOnlyOverSmallAmounts
    ChargeIsValid
    ChargeIsExact
    PageShowsTheCharge
