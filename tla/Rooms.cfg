SPECIFICATION Spec
CONSTANTS
    b1 = b1
    b2 = b2
    c1 = c1
    c2 = c2
    Bookings <- MCBookings
    Calls <- MCCalls
    Ranges <- MCRanges
    Stays <- MCStays
    Selections <- MCSelections
    Beds = 1
    MaxUnits = 2
SYMMETRY Symmetry
INVARIANTS
    NothingOlder
    ShortForAReason
CHECK_DEADLOCK FALSE
