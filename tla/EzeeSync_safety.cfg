SPECIFICATION Spec
CONSTANTS
    Nightly = {b1}
    Colive = {}
    Workers = {w1, w2}
    Passes = {p1, p2}
    ReservationNos = {n1, n2}
    MaxReceives = 2
    SlowCalls = TRUE
    Quantity = 1
    Price = 1
    MaxOrders = 0
    MaxQueue = 1
    MaxPaid = 1
    MaxFaults = 0
    NoBooking = NoBooking
    NoReservation = NoReservation
SYMMETRY Symmetry
INVARIANTS
    TypeOK
    PaidIsProcessed
    NeverAhead
CHECK_DEADLOCK FALSE
