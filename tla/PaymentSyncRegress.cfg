SPECIFICATION Spec
CONSTANTS
    Payments = {p1}
    Syncs = {s1}
    Outcomes = {"cancelling", "cancelled", "unpaid", "paid", "refunding", "refunded"}
    Providers = {TRUE, FALSE}
CHECK_DEADLOCK FALSE
PROPERTIES
    PaidStaysPaid
