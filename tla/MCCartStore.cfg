SPECIFICATION CartSpec
CONSTANTS
    Users = {u1}
    Products = {p1, p2}
    Callers = {c1, c2}
    MaxQty = 2
    MaxUnits = 2
INVARIANTS
    NoUnitsFromNowhere
    CartsExpireUnlessACallFailed
PROPERTIES
    ImplementsSharedCart
