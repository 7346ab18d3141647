SPECIFICATION Spec
CONSTANTS
    r1 = r1
    r2 = r2
    r3 = r3
    c1 = c1
    c2 = c2
    Requests <- MCRequests
    Codes <- MCCodes
    NoCode = NoCode
    None = None
    MaxRestarts = 1
SYMMETRY Symmetry
INVARIANTS
    TypeOK
    NoExchangeOfCachedCode
    ReplayAgreement
    OwnTokens
PROPERTIES
    KeepsPromise
