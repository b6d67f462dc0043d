SPECIFICATION CheckInFairSpec
CONSTANTS
    r1 = r1
    r2 = r2
    a101 = a101
    asha = asha
    Reservations <- MCReservations
    Rooms <- MCRooms
    Names <- MCNames
    Days <- MCDays
    Back = 0
    Ahead = 0
    MaxDays = 2
    MaxEvents = 3
    MaxFaults = 1
CONSTRAINT
    OneOrBoth
INVARIANTS
    TwoPinsOverlapped
    UnknownPinIsExplained
PROPERTIES
    DriftGoesAway
    KnownInTheEnd
