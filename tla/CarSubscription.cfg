SPECIFICATION Spec
CONSTANTS
    Registers = {r1}
    Purchases = {b1}
    Upgrades = {u1}
    Calls = {h1, h2}
    None = None
SYMMETRY Symmetric
CHECK_DEADLOCK FALSE
INVARIANTS
    TypeOK
    PremiumFollowsGateway
    BilledIsLinked
    ExcludedIsNotBilled
PROPERTIES
    ExcludedIsNotServed
    FreeCarIsFirst
