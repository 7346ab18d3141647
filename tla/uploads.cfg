SPECIFICATION FairSpec
CONSTANTS
    a1 = a1
    a2 = a2
    None = None
    Agents <- MCAgents
    Scenarios <- MCScenarios
    Categories <- MCCategories
    Photos = 2
    MaxKeys = 7
    MaxExpired = 1
    MaxFaults = 2
INVARIANTS
    TypeOK
    AttachedOnce
    DoneIsDone
    CopyOnlyIfOvertaken
PROPERTIES
    EveryWishEnds
