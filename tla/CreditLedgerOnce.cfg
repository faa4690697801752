SPECIFICATION Spec
CONSTANTS
    u1 = u1
    u2 = u2
    p1 = p1
    Users = {u1}
    Handlers = {h1, h2}
    Payments = {p1}
    PaymentOwner <- OneOwner
    PaymentValue <- OneValue
    Amounts = {1, 2}
    Operations = {"creditPayment"}
    NoPayment = NoPayment
    NoItem = NoItem
CHECK_DEADLOCK FALSE
INVARIANT
    CreditedOnce
