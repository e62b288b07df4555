SPECIFICATION FairSpec
CONSTANTS
    Users = {u1}
    Products = {p1}
    Orders = {o1, o2}
    Callers = {o1, o2, s1}
    MaxQty = 1
    MaxUnits = 1
    Price <- MCPrice
    ShippingCosts = {1}
    KafkaSet = TRUE
INVARIANTS
    NoUnitBilledTwice
    PaidGoodsLeaveTheCart
    InvoiceIsWhatWasCharged
PROPERTIES
    ImplementsOrderSaga
    CartEmptiedOnlyForShippedGoods
    EveryOrderEnds
