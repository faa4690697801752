SPECIFICATION Safe
CONSTANTS
    Requests = {r1, r2}
    Answers = {}
    Repeats = {}
CHECK_DEADLOCK FALSE
INVARIANT
    NoDuplicateQueries
