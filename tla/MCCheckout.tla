----------------------------- MODULE MCCheckout -----------------------------
EXTENDS Checkout, TLC

CONSTANTS p1, p2, p3, b1, b2, t1, t2, c1

OneTenant == [b \in Buyers |-> IF b = b1 THEN {t1, t2} ELSE {t2}]
Ceilings == [t \in {t1, t2} |-> IF t = t1 THEN 2 ELSE 1]
Order == [t \in {t1, t2} |-> IF t = t1 THEN 1 ELSE 2]
OneUse == [c \in {c1} |-> 1]

\* Bound: a cart costs 2, and 1 with the coupon.
TwoPrices ==
    \A p \in Purchases :
        task[p].pc # "new" => task[p].price = IF task[p].coupon = None THEN 2 ELSE 1

Symmetric == Permutations(Purchases)
=============================================================================
