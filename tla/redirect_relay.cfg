SPECIFICATION FairSpec
CONSTANTS
    f1 = f1
    f2 = f2
    s1 = s1
    s2 = s2
    h1 = h1
    h2 = h2
    Flows <- MCFlows
    States <- MCStates
    Handlers <- MCHandlers
    Self = Self
    None = None
    MaxLoads = 2
    MaxRestarts = 1
INVARIANTS
    TypeOK
    RelayedHome
    EntryUsedOnce
    CompletedOnce
PROPERTIES
    LoginReachesClient
\* Browsers and their users may stop at any page.
CHECK_DEADLOCK FALSE
