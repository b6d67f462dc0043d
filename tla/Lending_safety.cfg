SPECIFICATION Spec
CONSTANTS
    Borrowables = {umbrella}
    Returnables = {towel}
    Stays = {s1}
    Ordered <- PaidForTwo
    Loans = {l1, l2}
    Calls = {c1, c2}
    InitialStock <- TwoOfEach
    Quantities = {1, 2}
    MaxBought = 3
    NoProduct = NoProduct
    NoStay = NoStay
    NoLoan = NoLoan
SYMMETRY Symmetry
INVARIANTS
    TypeOK
    LentIsAccounted
    BoughtIsAccounted
PROPERTY KeepsLedger
CHECK_DEADLOCK FALSE
