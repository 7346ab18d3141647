SPECIFICATION FairSpec
CONSTANTS
    f1 = f1
    f2 = f2
    h1 = h1
    Flows <- MCFlows
    Tests <- MCTests
    Handlers <- MCHandlers
    Self = Self
    None = None
    NoCode = NoCode
    MaxLoads = 1
    MaxRestarts = 1
INVARIANTS
    TypeOK
    SecondAttemptReplays
PROPERTIES
    EveryRequestEnds
    LoginEnds
\* Browsers and their users may stop at any page.
CHECK_DEADLOCK FALSE
