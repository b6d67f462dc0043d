SPECIFICATION Spec
CONSTANTS
    Stays = {s1}
    Orders = {o1, o2}
    Items = {i1, i2}
    Payments = {p1, p2}
    Calls = {c1, c2}
    Products = {towel}
    InitialStock <- EmptyShelf
    MaxQuantity = 2
    MaxTotal = 1
    NoStay = NoStay
    NoOrder = NoOrder
    NoItem = NoItem
    NoPayment = NoPayment
    NoProduct = NoProduct
SYMMETRY Symmetry
INVARIANTS
    HonouredWasPaid
    CapturedIsDecided
PROPERTIES
    KeepsLedger
CHECK_DEADLOCK FALSE
