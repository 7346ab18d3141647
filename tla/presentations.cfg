SPECIFICATION FairSpec
CONSTANTS
    a1 = a1
    a2 = a2
    None = None
    Agents <- MCAgents
    Scenarios <- MCScenarios
    Things <- MCThings
    Fields <- MCFields
    Settings <- MCSettings
    Denials <- MCDenials
    Jobs <- MCJobs
    MaxStarts = 2
    MaxFaults = 2
INVARIANTS
    TypeOK
    NoIdleExport
    SharedAsTold
PROPERTIES
    EveryWishEnds
