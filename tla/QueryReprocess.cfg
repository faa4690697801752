SPECIFICATION Spec
CONSTANTS
    Services = {s1, s2}
    Reprocesses = {p1}
    Replaces = {q1}
    AutoRequests = {a1}
    Retries = {t1}
    Answers = {m1, m2}
SYMMETRY Symmetric
CHECK_DEADLOCK FALSE
INVARIANTS
    TypeOK
    ReprocessingIsExplained
    NoServiceForgotten
    SucceededIsStored
    BusyIsReleased
PROPERTIES
    ResultsAreKept
