SPECIFICATION Spec
CONSTANTS
    u1 = u1
    u2 = u2
    p1 = p1
    Users = {u1}
    Handlers = {h1, h2, h3, h4}
    Payments = {p1}
    PaymentOwner <- OneOwner
    PaymentValue <- OneValue
    Amounts = {1, 2}
    Operations = {"charge", "deduct", "add", "creditPayment", "chargeback", "view"}
    NoPayment = NoPayment
    NoItem = NoItem
SYMMETRY HandlerSymmetry
CHECK_DEADLOCK FALSE
INVARIANTS
    TypeOK
    FundsAreExplained
    OverdraftIsBounded
    DebitRowsKeepTheirItem
    BareItemsAreUnfinished
    LatestRowShowsFunds
PROPERTIES
    ImplementsAccount
    ImplementsChargeback
