SPECIFICATION FairSpec
CONSTANTS
    Nightly = {b1}
    Colive = {}
    Workers = {w1, w2}
    Passes = {p1}
    ReservationNos = {n1, n2, n3}
    MaxReceives = 3
    SlowCalls = FALSE
    Quantity = 1
    Price = 1
    MaxOrders = 1
    MaxQueue = 2
    MaxPaid = 1
    MaxFaults = 2
    NoBooking = NoBooking
    NoReservation = NoReservation
PROPERTIES
    EventuallySynced
    NumberStays
CHECK_DEADLOCK FALSE
