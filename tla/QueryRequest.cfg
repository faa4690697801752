SPECIFICATION Safe
CONSTANTS
    Requests = {r1}
    Answers = {m1, m2}
    Repeats = {}
CHECK_DEADLOCK FALSE
INVARIANTS
    TypeOK
    ChargedFailuresAreExplained
    FreeResultsAreExplained
PROPERTIES
    ImplementsChargeback
