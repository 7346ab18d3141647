SPECIFICATION Spec
CONSTANTS
    a1 = a1
    a2 = a2
    None = None
    Agents <- MCAgents
    Things <- MCThings
    Initially <- MCInitially
    Scenarios <- MCScenarios
    MaxCalls <- MCMaxCalls
INVARIANTS
    TypeOK
    OutcomeIsTruthful
PROPERTIES
    NoDuplicates
\* Agents may have nothing left to call.
CHECK_DEADLOCK FALSE
