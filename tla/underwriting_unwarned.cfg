SPECIFICATION Spec
CONSTANTS
    a1 = a1
    a2 = a2
    coLiving = coLiving
    fixFlip = fixFlip
    base = base
    other = other
    None = None
    Agents <- MCAgents
    Strategies <- MCStrategies
    Names <- MCNames
    Inputs <- MCInputs
    Initial <- MCInitial
    MaxVersions = 6
INVARIANTS
    UnwarnedFailureCreatedNothing
\* Agents may have nothing left to call.
CHECK_DEADLOCK FALSE
