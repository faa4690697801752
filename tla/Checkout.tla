------------------------------ MODULE Checkout ------------------------------
(***************************************************************************)
(* The creation of a payment (data/support/payment): the tenant it is      *)
(* charged through, the coupon it uses and the document that is inserted.  *)
(*                                                                         *)
(* A purchase is a chain of awaits.  What it decides is decided on copies: *)
(* the totals of the tenants are kept by the process and refreshed once a  *)
(* minute, the coupon is read before its payments are counted, and its use *)
(* is taken after both.  Purchases interleave at every step.               *)
(*                                                                         *)
(* One process, one month and the ABSOLUTE splitting of the tenants are    *)
(* modelled.                                                               *)
(***************************************************************************)
EXTENDS Integers, FiniteSets, FiniteSetsExt

CONSTANTS
    Purchases,       \* calls of CreateInternalPayment
    Buyers,          \* billings
    Coupons,
    Tenants,         \* the companies a payment can be charged through
    None,            \* no tenant, no coupon
    Registered,      \* the tenants each buyer has an account at
    Prices,          \* what a cart may cost, its discount taken off
    MaxValue,        \* the month's ceiling of each tenant
    FillOrder,       \* the order in which tenants are filled
    LimitUsage,      \* what is left of each coupon at first
    UsageMaxToUser   \* how often one buyer may use each coupon

ASSUME CheckoutAssumption ==
    /\ None \notin Tenants \cup Coupons \cup Buyers
    /\ Registered \in [Buyers -> SUBSET Tenants]
    /\ Prices \subseteq Nat
    /\ MaxValue \in [Tenants -> Nat]
    /\ FillOrder \in [Tenants -> Nat]
    /\ LimitUsage \in [Coupons -> Nat]
    /\ UsageMaxToUser \in [Coupons -> Nat]
    /\ IsFiniteSet(Purchases)

VARIABLES
    coupon,          \* the coupons
    payment,         \* the document of each purchase
    info,            \* _tenantsInfo: the revenues at the last refresh
    random,          \* management.fillingOrder is RANDOM
    task             \* the purchases

vars == <<coupon, payment, info, random, task>>

Coupon == [limit : Int, discount : BOOLEAN]

Payment == [status : {"absent", "PENDING", "PAID", "UNPAID"},
            buyer : Buyers \cup {None}, tenant : Tenants \cup {None},
            coupon : Coupons \cup {None}, price : Nat, paid : BOOLEAN]

\* The last three are history: what the purchase could not see when it decided.
Task == [pc : {"new", "tenant", "coupon", "count", "lower", "insert", "done", "failed"},
         buyer : Buyers \cup {None}, tenant : Tenants \cup {None},
         coupon : Coupons \cup {None}, price : Nat, limit : Int,
         stale : BOOLEAN, beside : BOOLEAN, hidden : BOOLEAN]

\* Every document is of the collection's type, and a payment that exists is
\* charged through a tenant its buyer is registered at.
TypeOK ==
    /\ coupon \in [Coupons -> Coupon]
    /\ payment \in [Purchases -> Payment]
    /\ \A p \in Purchases : payment[p].status # "absent" =>
          /\ payment[p].buyer \in Buyers
          /\ payment[p].tenant \in Registered[payment[p].buyer]
    /\ info \in [Tenants -> Nat]
    /\ random \in BOOLEAN
    /\ task \in [Purchases -> Task]

Paid(p) == payment[p].status = "PAID"

\* getAmountSucceededByTenant: totalPaid, the price, of the documents with the flag.
Revenue(t) ==
    SumFunctionOnSet([p \in Purchases |-> payment[p].price],
                     {p \in Purchases : payment[p].paid /\ payment[p].tenant = t})

\* countByBillingIdAndCouponId
PaidUses(b, c) ==
    Cardinality({p \in Purchases : Paid(p) /\ payment[p].buyer = b /\ payment[p].coupon = c})

\* The purchases charged through tenant t, paid or not, that have not failed.
Through(t) == {p \in Purchases : task[p].tenant = t /\ task[p].pc # "failed"}

\* Those that tenant t was chosen for while its total lacked some of the others.
Hidden(t) == {p \in Through(t) : task[p].hidden}

Cost(S) == SumFunctionOnSet([p \in Purchases |-> task[p].price], S)

\* The purchases of buyer b whose coupon c was accepted and that have not failed.
Accepted(b, c) == {p \in Purchases :
    task[p].buyer = b /\ task[p].coupon = c /\ task[p].pc \in {"lower", "insert", "done"}}

-----------------------------------------------------------------------------
(* CreateInternalPaymentUseCase.call                                       *)

\* The cart is not empty; its user, billing, price table and products are read.
Begin(p, b, c, price) ==
    /\ task[p].pc = "new"
    /\ task' = [task EXCEPT ![p].pc = "tenant", ![p].buyer = b, ![p].coupon = c,
                            ![p].price = price]
    /\ UNCHANGED <<coupon, payment, info, random>>

\* Mutant: a tenant is open until its revenue passes its ceiling.
OpenThrough(t) == info[t] <= MaxValue[t]

\* _getCnpjFromAbsoluteRule's filter; it does not know what the cart costs.
Open(t) == info[t] < MaxValue[t]

\* Mutant: a tenant is chosen whether or not the buyer is registered there.
AnyTenant(b) == {t \in Tenants : Open(t)}

\* getTenantCnpj: the first open tenant of the order the buyer is registered at.
TenantsFor(b) ==
    LET open == {t \in Registered[b] : Open(t)}
    IN  {t \in open : random \/ \A u \in open : FillOrder[t] <= FillOrder[u]}

\* _retrieveRightCnpj.  Without a coupon in the cart the price stays.
ChooseTenant(p) ==
    /\ task[p].pc = "tenant"
    /\ \E t \in TenantsFor(task[p].buyer) :
          task' = [task EXCEPT ![p].pc = IF task[p].coupon = None THEN "insert" ELSE "coupon",
                               ![p].tenant = t,
                               ![p].hidden = Cost(Through(t)) > info[t]]
    /\ UNCHANGED <<coupon, payment, info, random>>

\* CantProcessPaymentDomainError: no tenant is left for the buyer.
NoTenant(p) ==
    /\ task[p].pc = "tenant" /\ TenantsFor(task[p].buyer) = {}
    /\ task' = [task EXCEPT ![p].pc = "failed"]
    /\ UNCHANGED <<coupon, payment, info, random>>

ReadCoupon(p) ==
    /\ task[p].pc = "coupon"
    /\ task' = [task EXCEPT ![p].pc = "count", ![p].limit = coupon[task[p].coupon].limit]
    /\ UNCHANGED <<coupon, payment, info, random>>

\* Mutant: a coupon with nothing left can be used.
AnyLimit(p, count) ==
    LET max == UsageMaxToUser[task[p].coupon]
    IN  task[p].limit >= 0 /\ (max = 0 \/ count < max)

\* Mutant: the buyer's limit is passed by one.
OneMoreUse(p, count) ==
    LET max == UsageMaxToUser[task[p].coupon]
    IN  task[p].limit > 0 /\ (max = 0 \/ count <= max)

\* CouponValidationHelper.canUse, without status, expiration and minimum value
CanUse(p, count) ==
    LET max == UsageMaxToUser[task[p].coupon]
    IN  task[p].limit > 0 /\ (max = 0 \/ count < max)

\* applyForCurrencyWithCoupon counts the buyer's paid payments with the coupon
\* and accepts it; only a discount takes a use of the coupon.
AcceptCoupon(p) ==
    LET b == task[p].buyer  c == task[p].coupon
    IN  /\ task[p].pc = "count" /\ CanUse(p, PaidUses(b, c))
        /\ task' = [task EXCEPT ![p].pc = IF coupon[c].discount THEN "lower" ELSE "insert",
                                ![p].beside = Cardinality(Accepted(b, c)) > PaidUses(b, c)]
        /\ UNCHANGED <<coupon, payment, info, random>>

\* Coupon expired or used up, or the buyer's limit is reached.
RefuseCoupon(p) ==
    /\ task[p].pc = "count" /\ ~CanUse(p, PaidUses(task[p].buyer, task[p].coupon))
    /\ task' = [task EXCEPT ![p].pc = "failed"]
    /\ UNCHANGED <<coupon, payment, info, random>>

\* Mutant: the use is written from the copy that was read.
LowerFromCopy(p) ==
    LET c == task[p].coupon
    IN  /\ task[p].pc = "lower"
        /\ coupon' = [coupon EXCEPT ![c].limit = task[p].limit - 1]
        /\ \E next \in {"insert", "failed"} :
              task' = [task EXCEPT ![p].pc = next,
                                   ![p].stale = coupon[c].limit # task[p].limit]
        /\ UNCHANGED <<payment, info, random>>

\* updateUsage(-1), atomic in the database; when its answer is lost the purchase
\* ends and the use is not given back.
LowerUsage(p) ==
    LET c == task[p].coupon
    IN  /\ task[p].pc = "lower"
        /\ coupon' = [coupon EXCEPT ![c].limit = @ - 1]
        /\ \E next \in {"insert", "failed"} :
              task' = [task EXCEPT ![p].pc = next,
                                   ![p].stale = coupon[c].limit # task[p].limit]
        /\ UNCHANGED <<payment, info, random>>

\* _createPayment
InsertPayment(p) ==
    /\ task[p].pc = "insert"
    /\ payment' = [payment EXCEPT ![p] = [status |-> "PENDING", buyer |-> task[p].buyer,
                                          tenant |-> task[p].tenant, coupon |-> task[p].coupon,
                                          price |-> task[p].price, paid |-> FALSE]]
    /\ task' = [task EXCEPT ![p].pc = "done"]
    /\ UNCHANGED <<coupon, info, random>>

\* Any step may end the purchase: nothing found, a product not in the price table,
\* a coupon that is unknown, off or below its minimum, a database error, a crash.
Fail(p) ==
    /\ task[p].pc \in {"tenant", "coupon", "count", "lower", "insert"}
    /\ task' = [task EXCEPT ![p].pc = "failed"]
    /\ UNCHANGED <<coupon, payment, info, random>>

\* The writers of module PaymentSync move the status, back as well as forth.  PAID
\* comes with the flag paid, PENDING without it; UNPAID does not touch the flag of
\* the copy that is written back, which may be older than the document.
StatusMoves(p) ==
    /\ payment[p].status # "absent"
    /\ \E status \in {"PENDING", "PAID", "UNPAID"} \ {payment[p].status}, paid \in BOOLEAN :
          /\ status = "PAID" => paid
          /\ status = "PENDING" => ~paid
          /\ status = "UNPAID" /\ paid => payment[p].paid
          /\ payment' = [payment EXCEPT ![p].status = status, ![p].paid = paid]
    /\ UNCHANGED <<coupon, info, random, task>>

\* The job that runs every minute.
RetrieveTenantsInfo ==
    /\ info # [t \in Tenants |-> Revenue(t)]
    /\ info' = [t \in Tenants |-> Revenue(t)]
    /\ UNCHANGED <<coupon, payment, random, task>>

-----------------------------------------------------------------------------
Init ==
    /\ \E discount \in [Coupons -> BOOLEAN] :
          coupon = [c \in Coupons |-> [limit |-> LimitUsage[c], discount |-> discount[c]]]
    /\ payment = [p \in Purchases |->
                     [status |-> "absent", buyer |-> None, tenant |-> None, coupon |-> None,
                      price |-> 0, paid |-> FALSE]]
    /\ info = [t \in Tenants |-> 0]
    /\ random \in BOOLEAN
    /\ task = [p \in Purchases |->
                  [pc |-> "new", buyer |-> None, tenant |-> None, coupon |-> None, price |-> 0,
                   limit |-> 0, stale |-> FALSE, beside |-> FALSE, hidden |-> FALSE]]

Step(p) ==
    \/ \E b \in Buyers, c \in Coupons \cup {None}, price \in Prices : Begin(p, b, c, price)
    \/ ChooseTenant(p)
    \/ NoTenant(p)
    \/ ReadCoupon(p)
    \/ AcceptCoupon(p)
    \/ RefuseCoupon(p)
    \/ LowerUsage(p)
    \/ InsertPayment(p)
    \/ Fail(p)

Next ==
    \/ \E p \in Purchases : Step(p) \/ StatusMoves(p)
    \/ RetrieveTenantsInfo

Spec == Init /\ [][Next]_vars

-----------------------------------------------------------------------------
Lost(c) == LimitUsage[c] - coupon[c].limit

With(c, pcs) == Cardinality({p \in Purchases : task[p].coupon = c /\ task[p].pc \in pcs})

\* What a discount coupon lost is accounted for: each payment with the coupon took
\* a use, and each use that became no payment belongs to a purchase that is about
\* to insert or has failed.  A coupon without a discount loses nothing.
\* (apply-coupon.use-case.ts:79-87 before create-internal-payment.use-case.ts:412.)
UsesAreAccountedFor ==
    \A c \in Coupons :
        IF coupon[c].discount
        THEN /\ With(c, {"insert", "done"}) <= Lost(c)
             /\ Lost(c) <= With(c, {"insert", "done", "failed"})
        ELSE Lost(c) = 0

\* A coupon is oversold only by purchases that overlap: each use below zero was
\* taken by a purchase whose copy was stale.
OversoldOnlyByOverlap ==
    \A c \in Coupons :
        Lost(c) <= LimitUsage[c] + Cardinality({p \in Purchases :
                                       task[p].coupon = c /\ task[p].stale})

\* A buyer pays more often with a coupon than it allows only when a use was
\* accepted beside another of theirs that was not paid by then.
UserLimitOnlyByOverlap ==
    \A b \in Buyers, c \in Coupons :
        UsageMaxToUser[c] # 0 =>
            PaidUses(b, c) <= UsageMaxToUser[c]
                              + Cardinality({p \in Accepted(b, c) : task[p].beside})

\* A tenant's revenue passes its ceiling only by payments it was chosen for while
\* others of its payments were missing from the totals, and by what one cart cost
\* more than was left: the price of the cart is not asked (payment.helper.ts:118).
OverfilledByOneCartOrDelay ==
    \A t \in Tenants :
        \/ Revenue(t) <= MaxValue[t] + Cost(Hidden(t))
        \/ \E p \in Through(t) \ Hidden(t) :
              Revenue(t) < MaxValue[t] + task[p].price + Cost(Hidden(t))
=============================================================================
