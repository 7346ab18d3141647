SPECIFICATION Spec
CONSTANTS
    a1 = a1
    a2 = a2
    t1 = t1
    t2 = t2
    Agents <- MCAgents
    Careless <- MCCareless
    Tags <- MCTags
    None = None
    MaxRepeats = 1
    MaxVersion = 5
SYMMETRY Symmetry
INVARIANTS
    TypeOK
PROPERTIES
    KeepsPromise
\* Agents that are done may stop.
CHECK_DEADLOCK FALSE
