SPECIFICATION Spec
CONSTANTS
    c1 = c1
    c2 = c2
    Calls <- MCCalls
    MaxCodes = 2
SYMMETRY Interchangeable
INVARIANTS
    WaitsForAMail
    ServesOnlyOverlapping
    VerifiedByProof
