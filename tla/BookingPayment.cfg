SPECIFICATION FairSpec
CONSTANTS
    Bookings = {b1, b2}
    Payments = {p1, p2}
    Requests = {r1, r2}
    Products = {towel}
    Baskets <- OneEach
    InitialStock <- TwoUnits
    MaxCrashes = 1
    Submitting = {b1}
    NoBooking = NoBooking
    NoPayment = NoPayment
INVARIANTS
    TypeOK
    HonouredWasPaid
    PendingIsWhole
    NoLeakedReservation
    SentAfterCommit
    RequestsStaySound
PROPERTIES
    KeepsLedger
    CapturedIsRecorded
    FailedReleasesBooking
CHECK_DEADLOCK FALSE
