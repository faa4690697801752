SPECIFICATION Spec
CONSTANTS
    u1 = u1
    Users = {u1}
    Syncs = {s1}
    Outcomes = {"paid"}
    Providers = {FALSE}
    Payments = {p1}
    PaymentOwner <- OneOwner
    PaymentValue <- OneValue
    NoPayment = NoPayment
    NoItem = NoItem
CHECK_DEADLOCK FALSE
INVARIANT
    CreditsStayInFunds
