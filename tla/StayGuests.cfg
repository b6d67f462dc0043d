SPECIFICATION Spec
CONSTANTS
    c1 = c1
    c2 = c2
    booker = booker
    friend = friend
    form1 = form1
    form2 = form2
    NoGuest = NoGuest
    Calls <- MCCalls
    Guests <- MCGuests
    Bookers <- MCBookers
    Party = 1
    MaxSlots = 2
    MaxNumber = 2
    Submissions <- MCSubmissions
SYMMETRY Symmetric
INVARIANTS
    SubmitterIsLinked
    PreVerifiedMeansSubmitted
    HolderIsLinked
CHECK_DEADLOCK FALSE
