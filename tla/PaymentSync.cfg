SPECIFICATION Spec
CONSTANTS
    Payments = {p1}
    Syncs = {s1, s2, s3}
    Outcomes = {"cancelling", "cancelled", "unpaid", "paid", "refunding", "refunded"}
    Providers = {TRUE, FALSE}
SYMMETRY SyncSymmetry
CHECK_DEADLOCK FALSE
INVARIANTS
    TypeOK
    PaidIsBacked
    PaidIsAnnounced
    AsksForTheCharge
PROPERTIES
    StaysFound
    OnlyStaleWritesBreakTheRule
