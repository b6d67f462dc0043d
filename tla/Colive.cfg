SPECIFICATION Spec
CONSTANTS
    bed = bed
    suite = suite
    gym = gym
    desk = desk
    Rooms = {bed, suite}
    MonthPrice <- Bed
    BasePrice <- Night
    ForTwo = {suite}
    ForRemote = {bed}
    Addons = {gym, desk}
    UnitPrice <- Unit
    MaxQuantity <- Most
    PerMonth = {gym}
    OnSale = {gym}
    Answers <- BothAndBeds
    Durations = {30, 75}
    Requests <- Wishes
    Amounts = {0, 1}
    Quotes = {q1}
    Drafts = {d1}
    RzpOrders = {r1, r2}
    Calls = {c1, c2}
    Handlers = {h1, h2}
    MaxStays = 2
    NoAnswer = NoAnswer
    NoQuote = NoQuote
    NoRoom = NoRoom
    NoDraft = NoDraft
    NoOrder = NoOrder
SYMMETRY Symmetry
CONSTRAINT Settled
INVARIANTS
    SearchAgreesWithDetail
    DraftCostsAsQuoted
    ConfirmedWasPaid
    PostedOnce
    SyncedIsProcessed
CHECK_DEADLOCK FALSE
