SPECIFICATION Spec
CONSTANTS
    Requests = {r1, r2}
    Answers = {m1}
    Repeats = {}
CHECK_DEADLOCK FALSE
PROPERTIES
    ChargedIsSettled
