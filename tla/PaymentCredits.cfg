SPECIFICATION Spec
CONSTANTS
    u1 = u1
    Users = {u1}
    Syncs = {s1, s2}
    Outcomes = {"paid"}
    Providers = {FALSE}
    Payments = {p1, p2}
    PaymentOwner <- OneOwner
    PaymentValue <- OneValue
    NoPayment = NoPayment
    NoItem = NoItem
SYMMETRY Symmetric
CONSTRAINT OneInvoice
CHECK_DEADLOCK FALSE
INVARIANTS
    TypeOK
    CreditsComeFromPaidCharges
    PaidIsCredited
PROPERTIES
    OneFirstOrder
