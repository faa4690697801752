SPECIFICATION Spec
CONSTANTS
    p1 = p1
    p2 = p2
    p3 = p3
    b1 = b1
    b2 = b2
    t1 = t1
    t2 = t2
    c1 = c1
    Purchases = {p1, p2, p3}
    Buyers = {b1, b2}
    Coupons = {c1}
    Tenants = {t1, t2}
    None = None
    Registered <- OneTenant
    Prices = {1, 2}
    MaxValue <- Ceilings
    FillOrder <- Order
    LimitUsage <- OneUse
    UsageMaxToUser <- OneUse
CONSTRAINT TwoPrices
SYMMETRY Symmetric
CHECK_DEADLOCK FALSE
INVARIANTS
    TypeOK
    UsesAreAccountedFor
    OversoldOnlyByOverlap
    UserLimitOnlyByOverlap
    OverfilledByOneCartOrDelay
