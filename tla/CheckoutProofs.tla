--------------------------- MODULE CheckoutProofs ---------------------------
(***************************************************************************)
(* Machine-checked proofs about Checkout: type correctness, and the four   *)
(* counting invariants for any purchases, buyers, coupons and tenants.     *)
(*                                                                         *)
(* Each count is of a set of purchases; a step of purchase p leaves the    *)
(* set, adds p or takes p away, and the invariant compares the set with    *)
(* the members of it that decided on a stale view.  The ceilings compare   *)
(* what the sets cost in the same way.                                     *)
(***************************************************************************)
EXTENDS Checkout, SumLemmas, TLAPS

\* What purchase p holds at each point, and that its document agrees with it.
Coherent(p) ==
    LET t == task[p] IN
    /\ t.pc # "new" => t.buyer \in Buyers
    /\ t.pc \in {"new", "tenant"} => t.tenant = None
    /\ t.pc \in {"coupon", "count", "lower", "insert", "done"} =>
          t.tenant \in Registered[t.buyer]
    /\ t.pc \in {"coupon", "count", "lower"} => t.coupon \in Coupons
    /\ t.pc = "lower" => t.limit > 0 /\ coupon[t.coupon].discount
    /\ t.pc \notin {"insert", "done", "failed"} => t.stale = FALSE
    /\ payment[p].status # "absent" =>
          /\ t.pc = "done"
          /\ payment[p].buyer = t.buyer
          /\ payment[p].tenant = t.tenant
          /\ payment[p].coupon = t.coupon
          /\ payment[p].price = t.price
    /\ payment[p].paid => payment[p].status # "absent"

CheckoutInv == TypeOK /\ \A p \in Purchases : Coherent(p)

Stale(c) == {p \in Purchases : task[p].coupon = c /\ task[p].stale}
Beside(b, c) == {p \in Accepted(b, c) : task[p].beside}
Having(c, pcs) == {p \in Purchases : task[p].coupon = c /\ task[p].pc \in pcs}

-----------------------------------------------------------------------------
(* Counting sets of purchases.                                             *)

\* Every set of purchases can be counted.
LEMMA Countable ==
    ASSUME NEW S \in SUBSET Purchases
    PROVE  IsFiniteSet(S) /\ Cardinality(S) \in Nat
<1>1. IsFiniteSet(S)
  BY CheckoutAssumption, FS_Subset
<1> QED BY <1>1, FS_CardinalityType

\* A smaller set has not more members.
LEMMA CountSubset ==
    ASSUME NEW T \in SUBSET Purchases, NEW S \in SUBSET T
    PROVE  Cardinality(S) <= Cardinality(T)
BY Countable, FS_Subset

\* One purchase more.
LEMMA CountAdd ==
    ASSUME NEW S \in SUBSET Purchases, NEW p \in Purchases, p \notin S
    PROVE  Cardinality(S \cup {p}) = Cardinality(S) + 1
BY Countable, FS_AddElement

\* One purchase less, if it was there.
LEMMA CountRemove ==
    ASSUME NEW S \in SUBSET Purchases, NEW p \in Purchases
    PROVE  Cardinality(S \ {p}) = IF p \in S THEN Cardinality(S) - 1 ELSE Cardinality(S)
BY Countable, FS_RemoveElement

-----------------------------------------------------------------------------
(* What a step does to the purchase that takes it.                         *)

Others(p) == \A q \in Purchases : q # p => task'[q] = task[q]

\* Only the program counter moves.
PcMoves(p, pc) ==
    /\ Others(p)
    /\ task'[p].pc = pc
    /\ task'[p].buyer = task[p].buyer /\ task'[p].tenant = task[p].tenant
    /\ task'[p].coupon = task[p].coupon /\ task'[p].limit = task[p].limit
    /\ task'[p].price = task[p].price
    /\ task'[p].stale = task[p].stale /\ task'[p].beside = task[p].beside
    /\ task'[p].hidden = task[p].hidden

\* The update of the program counter alone.
LEMMA PcStep ==
    ASSUME TypeOK, NEW p \in Purchases, NEW pc, task' = [task EXCEPT ![p].pc = pc]
    PROVE  PcMoves(p, pc)
BY DEF TypeOK, Task, PcMoves, Others

\* The purchase learns its buyer and its cart.
LEMMA BeginStep ==
    ASSUME TypeOK, NEW p \in Purchases, NEW b, NEW c, NEW price, Begin(p, b, c, price)
    PROVE  /\ Others(p) /\ task'[p].pc = "tenant"
           /\ task'[p].buyer = b /\ task'[p].coupon = c
           /\ task'[p].tenant = task[p].tenant /\ task'[p].limit = task[p].limit
           /\ task'[p].stale = task[p].stale /\ task'[p].beside = task[p].beside
           /\ task'[p].hidden = task[p].hidden
BY DEF TypeOK, Task, Begin, Others

\* It gets an open tenant.
LEMMA ChooseStep ==
    ASSUME TypeOK, NEW p \in Purchases, ChooseTenant(p)
    PROVE  \E t \in TenantsFor(task[p].buyer) :
              /\ Others(p)
              /\ task'[p].pc = IF task[p].coupon = None THEN "insert" ELSE "coupon"
              /\ task'[p].tenant = t
              /\ task'[p].hidden = (Cost(Through(t)) > info[t])
              /\ task'[p].buyer = task[p].buyer
              /\ task'[p].coupon = task[p].coupon /\ task'[p].limit = task[p].limit
              /\ task'[p].price = task[p].price
              /\ task'[p].stale = task[p].stale /\ task'[p].beside = task[p].beside
<1>1. PICK t \in TenantsFor(task[p].buyer) :
         task' = [task EXCEPT ![p].pc = IF task[p].coupon = None THEN "insert" ELSE "coupon",
                              ![p].tenant = t,
                              ![p].hidden = Cost(Through(t)) > info[t]]
  BY DEF ChooseTenant
<1>2. task \in [Purchases -> Task]
  BY DEF TypeOK
<1> QED BY <1>1, <1>2 DEF Task, Others

\* It copies what is left of the coupon.
LEMMA ReadStep ==
    ASSUME TypeOK, NEW p \in Purchases, ReadCoupon(p)
    PROVE  /\ Others(p) /\ task'[p].pc = "count"
           /\ task'[p].limit = coupon[task[p].coupon].limit
           /\ task'[p].buyer = task[p].buyer /\ task'[p].tenant = task[p].tenant
           /\ task'[p].coupon = task[p].coupon /\ task'[p].price = task[p].price
           /\ task'[p].stale = task[p].stale /\ task'[p].beside = task[p].beside
           /\ task'[p].hidden = task[p].hidden
BY DEF TypeOK, Task, ReadCoupon, Others

\* Its coupon is accepted.
LEMMA AcceptStep ==
    ASSUME TypeOK, NEW p \in Purchases, AcceptCoupon(p)
    PROVE  /\ Others(p)
           /\ task'[p].pc = IF coupon[task[p].coupon].discount THEN "lower" ELSE "insert"
           /\ task'[p].beside = (Cardinality(Accepted(task[p].buyer, task[p].coupon))
                                 > PaidUses(task[p].buyer, task[p].coupon))
           /\ task'[p].buyer = task[p].buyer /\ task'[p].tenant = task[p].tenant
           /\ task'[p].coupon = task[p].coupon /\ task'[p].limit = task[p].limit
           /\ task'[p].price = task[p].price
           /\ task'[p].stale = task[p].stale /\ task'[p].hidden = task[p].hidden
<1>1. task \in [Purchases -> Task]
  BY DEF TypeOK
<1> QED BY <1>1 DEF Task, AcceptCoupon, Others

\* It takes a use of its coupon.
LEMMA LowerStep ==
    ASSUME TypeOK, NEW p \in Purchases, LowerUsage(p)
    PROVE  /\ Others(p) /\ task'[p].pc \in {"insert", "failed"}
           /\ task'[p].stale = (coupon[task[p].coupon].limit # task[p].limit)
           /\ task'[p].buyer = task[p].buyer /\ task'[p].tenant = task[p].tenant
           /\ task'[p].coupon = task[p].coupon /\ task'[p].limit = task[p].limit
           /\ task'[p].price = task[p].price
           /\ task'[p].beside = task[p].beside /\ task'[p].hidden = task[p].hidden
<1>1. task \in [Purchases -> Task]
  BY DEF TypeOK
<1> QED BY <1>1 DEF Task, LowerUsage, Others

\* The coupons keep their type and their kind.
LEMMA CouponStep ==
    ASSUME CheckoutInv, NEW p \in Purchases, Step(p)
    PROVE  /\ coupon' \in [Coupons -> Coupon]
           /\ \A c \in Coupons : coupon'[c].discount = coupon[c].discount
<1>1. coupon \in [Coupons -> Coupon]
  BY DEF CheckoutInv, TypeOK
<1>2. CASE LowerUsage(p)
  <2>1. task[p].coupon \in Coupons
    BY <1>2 DEF CheckoutInv, Coherent, LowerUsage
  <2> QED BY <1>1, <1>2, <2>1 DEF LowerUsage, Coupon
<1>3. CASE UNCHANGED coupon
  BY <1>1, <1>3
<1> QED BY <1>2, <1>3 DEF Step, Begin, ChooseTenant, NoTenant, ReadCoupon, AcceptCoupon,
            RefuseCoupon, InsertPayment, Fail

\* The purchases keep their type.
LEMMA TaskType ==
    ASSUME CheckoutInv, NEW p \in Purchases, Step(p)
    PROVE  task' \in [Purchases -> Task]
<1>1. task \in [Purchases -> Task] /\ TypeOK /\ Coherent(p)
  BY DEF CheckoutInv, TypeOK
<1>2. ASSUME NEW x \in Task, task' = [task EXCEPT ![p] = x]
      PROVE  task' \in [Purchases -> Task]
  BY <1>1, <1>2
<1>3. task[p] \in Task
  BY <1>1
<1>4. ASSUME NEW b \in Buyers, NEW c \in Coupons \cup {None}, NEW price \in Prices,
             Begin(p, b, c, price)
      PROVE  task' \in [Purchases -> Task]
  <2>1. [task[p] EXCEPT !.pc = "tenant", !.buyer = b, !.coupon = c,
                   !.price = price] \in Task
    BY <1>3, CheckoutAssumption DEF Task
  <2>2. task' = [task EXCEPT ![p] = [task[p] EXCEPT !.pc = "tenant", !.buyer = b, !.coupon = c,
                   !.price = price]]
    BY <1>1, <1>4 DEF Begin
  <2> QED BY <1>2, <2>1, <2>2
<1>5. ASSUME ChooseTenant(p) PROVE task' \in [Purchases -> Task]
  <2> DEFINE pc == IF task[p].coupon = None THEN "insert" ELSE "coupon"
             late(t) == Cost(Through(t)) > info[t]
  <2>1. PICK t \in TenantsFor(task[p].buyer) :
           task' = [task EXCEPT ![p].pc = pc, ![p].tenant = t, ![p].hidden = late(t)]
    BY <1>5 DEF ChooseTenant
  <2>2. task[p].buyer \in Buyers
    BY <1>1, <1>5 DEF ChooseTenant, Coherent
  <2>3. t \in Tenants /\ pc \in {"insert", "coupon"} /\ late(t) \in BOOLEAN
    BY <2>2, CheckoutAssumption DEF TenantsFor
  <2> HIDE DEF pc, late
  <2>4. [task[p] EXCEPT !.pc = pc, !.tenant = t, !.hidden = late(t)] \in Task
    BY <1>3, <2>3 DEF Task
  <2>5. task' = [task EXCEPT ![p] = [task[p] EXCEPT !.pc = pc, !.tenant = t, !.hidden = late(t)]]
    BY <1>1, <2>1
  <2> QED BY <1>2, <2>4, <2>5
<1>6. ASSUME ReadCoupon(p) PROVE task' \in [Purchases -> Task]
  <2>1. PICK limit \in Int : task' = [task EXCEPT ![p].pc = "count", ![p].limit = limit]
    BY <1>1, <1>6 DEF ReadCoupon, Coherent, TypeOK, Coupon
  <2>2. [task[p] EXCEPT !.pc = "count", !.limit = limit] \in Task
    BY <1>3 DEF Task
  <2>3. task' = [task EXCEPT ![p] = [task[p] EXCEPT !.pc = "count", !.limit = limit]]
    BY <1>1, <2>1
  <2> QED BY <1>2, <2>2, <2>3
<1>7. ASSUME AcceptCoupon(p) PROVE task' \in [Purchases -> Task]
  <2> DEFINE b == task[p].buyer
             c == task[p].coupon
             pc == IF coupon[c].discount THEN "lower" ELSE "insert"
             late == Cardinality(Accepted(b, c)) > PaidUses(b, c)
  <2>1. task' = [task EXCEPT ![p].pc = pc, ![p].beside = late]
    BY <1>7 DEF AcceptCoupon
  <2>2. pc \in {"lower", "insert"} /\ late \in BOOLEAN
    OBVIOUS
  <2> HIDE DEF pc, late
  <2>3. [task[p] EXCEPT !.pc = pc, !.beside = late] \in Task
    BY <1>3, <2>2 DEF Task
  <2>4. task' = [task EXCEPT ![p] = [task[p] EXCEPT !.pc = pc, !.beside = late]]
    BY <1>1, <2>1
  <2> QED BY <1>2, <2>3, <2>4
<1>8. ASSUME LowerUsage(p) PROVE task' \in [Purchases -> Task]
  <2>1. PICK pc \in {"failed", "insert"}, late \in BOOLEAN :
           task' = [task EXCEPT ![p].pc = pc, ![p].stale = late]
    BY <1>8 DEF LowerUsage
  <2>2. [task[p] EXCEPT !.pc = pc, !.stale = late] \in Task
    BY <1>3 DEF Task
  <2>3. task' = [task EXCEPT ![p] = [task[p] EXCEPT !.pc = pc, !.stale = late]]
    BY <1>1, <2>1
  <2> QED BY <1>2, <2>2, <2>3
<1>9. ASSUME NoTenant(p) \/ RefuseCoupon(p) \/ InsertPayment(p) \/ Fail(p)
      PROVE  task' \in [Purchases -> Task]
  <2>1. PICK pc \in {"failed", "done"} : task' = [task EXCEPT ![p].pc = pc]
    BY <1>9 DEF NoTenant, RefuseCoupon, InsertPayment, Fail
  <2>2. [task[p] EXCEPT !.pc = pc] \in Task
    BY <1>3 DEF Task
  <2>3. task' = [task EXCEPT ![p] = [task[p] EXCEPT !.pc = pc]]
    BY <1>1, <2>1
  <2> QED BY <1>2, <2>2, <2>3
<1> QED BY <1>4, <1>5, <1>6, <1>7, <1>8, <1>9 DEF Step

\* Every step of a purchase leaves all purchases coherent.
LEMMA StepCoherent ==
    ASSUME CheckoutInv, NEW p \in Purchases, Step(p)
    PROVE  \A q \in Purchases : Coherent(q)'
<1>1. Coherent(p) /\ TypeOK
  BY DEF CheckoutInv
<1>2. \A c \in Coupons : coupon'[c].discount = coupon[c].discount
  BY CouponStep
<1>3. ASSUME NEW q \in Purchases, Others(p), q # p, payment'[q] = payment[q]
      PROVE  Coherent(q)'
  BY <1>2, <1>3 DEF Coherent, Others, CheckoutInv
<1>4. ASSUME NEW b \in Buyers, NEW c \in Coupons \cup {None}, NEW price \in Prices,
             Begin(p, b, c, price)
      PROVE  Coherent(p)'
  <2>1. task[p].pc = "new" /\ UNCHANGED payment
    BY <1>4 DEF Begin
  <2>2. /\ task'[p].pc = "tenant" /\ task'[p].buyer = b
        /\ task'[p].tenant = task[p].tenant /\ task'[p].stale = task[p].stale
    BY <1>1, <1>4, BeginStep
  <2>3. /\ task[p].tenant = None /\ task[p].stale = FALSE
        /\ payment[p].status = "absent" /\ ~payment[p].paid
    BY <1>1, <2>1 DEF Coherent
  <2> QED BY <2>1, <2>2, <2>3 DEF Coherent
<1>5. ASSUME ChooseTenant(p) PROVE Coherent(p)'
  <2>1. task[p].pc = "tenant" /\ UNCHANGED <<payment, coupon>>
    BY <1>5 DEF ChooseTenant
  <2>2. PICK t \in TenantsFor(task[p].buyer) :
          /\ task'[p].pc = IF task[p].coupon = None THEN "insert" ELSE "coupon"
          /\ task'[p].tenant = t
          /\ task'[p].buyer = task[p].buyer
          /\ task'[p].coupon = task[p].coupon
          /\ task'[p].stale = task[p].stale
    BY <1>1, <1>5, ChooseStep
  <2>3. t \in Registered[task[p].buyer] /\ task[p].buyer \in Buyers
    BY <1>1, <2>1 DEF TenantsFor, Coherent
  <2>4. task[p].coupon \in Coupons \cup {None}
    BY <1>1 DEF TypeOK, Task
  <2> QED BY <1>1, <2>1, <2>2, <2>3, <2>4 DEF Coherent
<1>6. ASSUME ReadCoupon(p) PROVE Coherent(p)'
  BY <1>1, <1>6, ReadStep DEF Coherent, ReadCoupon
<1>7. ASSUME AcceptCoupon(p) PROVE Coherent(p)'
  <2>1. task[p].limit > 0 /\ task[p].pc = "count" /\ UNCHANGED <<payment, coupon>>
    BY <1>7 DEF AcceptCoupon, CanUse
  <2>2. /\ task'[p].pc = IF coupon[task[p].coupon].discount THEN "lower" ELSE "insert"
        /\ task'[p].buyer = task[p].buyer /\ task'[p].tenant = task[p].tenant
        /\ task'[p].coupon = task[p].coupon /\ task'[p].limit = task[p].limit
        /\ task'[p].stale = task[p].stale
    BY <1>1, <1>7, AcceptStep
  <2>3. /\ task[p].tenant \in Registered[task[p].buyer] /\ task[p].buyer \in Buyers
        /\ task[p].coupon \in Coupons /\ task[p].stale = FALSE
        /\ payment[p].status = "absent" /\ ~payment[p].paid
    BY <1>1, <2>1 DEF Coherent
  <2> QED BY <2>1, <2>2, <2>3 DEF Coherent
<1>8. ASSUME LowerUsage(p) PROVE Coherent(p)'
  <2>1. task[p].coupon \in Coupons
    BY <1>1, <1>8 DEF Coherent, LowerUsage
  <2> QED BY <1>1, <1>8, LowerStep DEF Coherent, LowerUsage
<1>9. ASSUME NoTenant(p) \/ RefuseCoupon(p) \/ Fail(p) PROVE Coherent(p)'
  <2>1. task[p].pc \notin {"new", "done"} /\ task' = [task EXCEPT ![p].pc = "failed"]
        /\ UNCHANGED <<payment, coupon>>
    BY <1>9 DEF NoTenant, RefuseCoupon, Fail
  <2>2. PcMoves(p, "failed")
    BY <1>1, <2>1, PcStep
  <2> QED BY <1>1, <2>1, <2>2 DEF Coherent, PcMoves
<1>10. ASSUME InsertPayment(p) PROVE Coherent(p)'
  <2>1. task[p].pc = "insert" /\ task' = [task EXCEPT ![p].pc = "done"] /\ UNCHANGED coupon
    BY <1>10 DEF InsertPayment
  <2>2. PcMoves(p, "done")
    BY <1>1, <2>1, PcStep
  <2>3. payment'[p] = [status |-> "PENDING", buyer |-> task[p].buyer,
                       tenant |-> task[p].tenant, coupon |-> task[p].coupon,
                       price |-> task[p].price, paid |-> FALSE]
    BY <1>1, <1>10 DEF InsertPayment, TypeOK
  <2> QED BY <1>1, <2>1, <2>2, <2>3 DEF Coherent, PcMoves
<1>11. Others(p)
  BY <1>1, BeginStep, ChooseStep, ReadStep, AcceptStep, LowerStep, PcStep
     DEF Step, NoTenant, RefuseCoupon, Fail, InsertPayment, PcMoves
<1>12. \A q \in Purchases : q # p => payment'[q] = payment[q]
  BY DEF Step, Begin, ChooseTenant, NoTenant, ReadCoupon, AcceptCoupon, RefuseCoupon,
         LowerUsage, InsertPayment, Fail, TypeOK, CheckoutInv
<1>13. Coherent(p)'
  BY <1>4, <1>5, <1>6, <1>7, <1>8, <1>9, <1>10 DEF Step
<1> QED BY <1>3, <1>11, <1>12, <1>13

\* A payment's status moves within its type and touches nothing else.
LEMMA StatusStep ==
    ASSUME CheckoutInv, NEW p \in Purchases, StatusMoves(p)
    PROVE  /\ UNCHANGED <<coupon, info, random, task>>
           /\ payment' \in [Purchases -> Payment]
           /\ \A q \in Purchases :
                 /\ payment'[q].status = "absent" <=> payment[q].status = "absent"
                 /\ payment'[q].buyer = payment[q].buyer
                 /\ payment'[q].tenant = payment[q].tenant
                 /\ payment'[q].coupon = payment[q].coupon
                 /\ payment'[q].price = payment[q].price
                 /\ payment'[q].paid => payment'[q].status # "absent"
<1>1. payment \in [Purchases -> Payment] /\ payment[p].status # "absent"
  BY DEF CheckoutInv, TypeOK, StatusMoves
<1>2. PICK status \in {"PENDING", "PAID", "UNPAID"}, paid \in BOOLEAN :
         payment' = [payment EXCEPT ![p].status = status, ![p].paid = paid]
  BY DEF StatusMoves
<1>3. \A q \in Purchases : payment[q].paid => payment[q].status # "absent"
  BY DEF CheckoutInv, Coherent
<1>4. UNCHANGED <<coupon, info, random, task>>
  BY DEF StatusMoves
<1>5. [payment[p] EXCEPT !.status = status, !.paid = paid] \in Payment
  BY <1>1 DEF Payment
<1>6. payment' = [payment EXCEPT ![p] = [payment[p] EXCEPT !.status = status, !.paid = paid]]
  BY <1>1, <1>2
<1>7. \A q \in Purchases : q # p => payment'[q] = payment[q]
  BY <1>1, <1>6
<1>8. payment'[p] = [payment[p] EXCEPT !.status = status, !.paid = paid]
  BY <1>1, <1>6
<1>9. payment[p] \in Payment
  BY <1>1
<1> QED BY <1>1, <1>3, <1>4, <1>5, <1>6, <1>7, <1>8, <1>9 DEF Payment

\* The payments keep their type.
LEMMA PaymentType ==
    ASSUME CheckoutInv, NEW p \in Purchases, Step(p)
    PROVE  payment' \in [Purchases -> Payment]
<1>1. payment \in [Purchases -> Payment]
  BY DEF CheckoutInv, TypeOK
<1>2. CASE InsertPayment(p)
  <2>1. [status |-> "PENDING", buyer |-> task[p].buyer, tenant |-> task[p].tenant,
         coupon |-> task[p].coupon, price |-> task[p].price, paid |-> FALSE] \in Payment
    BY DEF CheckoutInv, TypeOK, Task, Payment
  <2> QED BY <1>1, <1>2, <2>1 DEF InsertPayment
<1>3. CASE UNCHANGED payment
  BY <1>1, <1>3
<1> QED BY <1>2, <1>3 DEF Step, Begin, ChooseTenant, NoTenant, ReadCoupon, AcceptCoupon,
            RefuseCoupon, LowerUsage, Fail

\* A tenant's revenue is an amount.
LEMMA RevenueType ==
    ASSUME TypeOK, NEW t \in Tenants
    PROVE  Revenue(t) \in Nat
<1> DEFINE S == {p \in Purchases : payment[p].paid /\ payment[p].tenant = t}
           f == [p \in Purchases |-> payment[p].price]
<1>1. S \in SUBSET Purchases /\ \A x \in S : f[x] \in Nat
  BY DEF TypeOK, Payment
<1>2. IsFiniteSet(S)
  BY <1>1, Countable
<1> HIDE DEF S, f
<1>3. SumFunctionOnSet(f, S) \in Nat
  BY <1>1, <1>2, SumOfNaturals
<1> QED BY <1>3 DEF Revenue, S, f

\* The invariant holds at first.
LEMMA CheckoutInit ==
    ASSUME Init
    PROVE  CheckoutInv
<1>1. PICK discount \in [Coupons -> BOOLEAN] :
         coupon = [c \in Coupons |-> [limit |-> LimitUsage[c], discount |-> discount[c]]]
  BY DEF Init
<1>2. coupon \in [Coupons -> Coupon]
  BY <1>1, CheckoutAssumption DEF Coupon
<1>3. \A p \in Purchases : Coherent(p)
  BY DEF Init, Coherent
<1>4. task \in [Purchases -> Task] /\ payment \in [Purchases -> Payment]
  BY DEF Init, Task, Payment
<1>5. info \in [Tenants -> Nat] /\ random \in BOOLEAN
  BY DEF Init
<1>6. \A p \in Purchases : payment[p].status = "absent"
  BY DEF Init
<1> QED BY <1>2, <1>3, <1>4, <1>5, <1>6 DEF CheckoutInv, TypeOK

\* Every step keeps it.
LEMMA CheckoutNext ==
    ASSUME CheckoutInv, [Next]_vars
    PROVE  CheckoutInv'
<1>1. ASSUME NEW p \in Purchases, Step(p) PROVE CheckoutInv'
  <2>1. /\ coupon' \in [Coupons -> Coupon] /\ payment' \in [Purchases -> Payment]
        /\ task' \in [Purchases -> Task]
    BY <1>1, CouponStep, PaymentType, TaskType
  <2>2. UNCHANGED <<info, random>>
    BY <1>1 DEF Step, Begin, ChooseTenant, NoTenant, ReadCoupon, AcceptCoupon,
                RefuseCoupon, LowerUsage, InsertPayment, Fail
  <2>3. (\A q \in Purchases : Coherent(q))'
    BY <1>1, StepCoherent
  <2>4. (\A q \in Purchases : payment[q].status # "absent" =>
              /\ payment[q].buyer \in Buyers
              /\ payment[q].tenant \in Registered[payment[q].buyer])'
    BY <2>3 DEF Coherent
  <2> QED BY <2>1, <2>2, <2>3, <2>4 DEF CheckoutInv, TypeOK
<1>2. ASSUME NEW p \in Purchases, StatusMoves(p) PROVE CheckoutInv'
  <2> USE <1>2
  <2>1. ASSUME NEW q \in Purchases PROVE Coherent(q)'
    <3>1. UNCHANGED <<coupon, task>> /\ Coherent(q)
      BY StatusStep DEF CheckoutInv
    <3>2. /\ payment'[q].status = "absent" <=> payment[q].status = "absent"
          /\ payment'[q].buyer = payment[q].buyer
          /\ payment'[q].tenant = payment[q].tenant
          /\ payment'[q].coupon = payment[q].coupon
          /\ payment'[q].price = payment[q].price
          /\ payment'[q].paid => payment'[q].status # "absent"
      BY StatusStep
    <3> QED BY <3>1, <3>2 DEF Coherent
  <2>2. (\A q \in Purchases : payment[q].status # "absent" =>
              /\ payment[q].buyer \in Buyers
              /\ payment[q].tenant \in Registered[payment[q].buyer])'
    BY <2>1 DEF Coherent
  <2> QED BY <1>2, StatusStep, <2>1, <2>2 DEF CheckoutInv, TypeOK
<1>3. ASSUME RetrieveTenantsInfo PROVE CheckoutInv'
  <2>1. info' \in [Tenants -> Nat]
    BY <1>3, RevenueType DEF RetrieveTenantsInfo, CheckoutInv
  <2>2. UNCHANGED <<coupon, payment, random, task>>
    BY <1>3 DEF RetrieveTenantsInfo
  <2> QED BY <2>1, <2>2 DEF CheckoutInv, TypeOK, Coherent
<1>4. ASSUME UNCHANGED vars PROVE CheckoutInv'
  BY <1>4 DEF vars, CheckoutInv, TypeOK, Coherent
<1> QED BY <1>1, <1>2, <1>3, <1>4 DEF Next

\* Type correctness, and that a payment is charged through a tenant its buyer is
\* registered at, in every reachable state (getTenantCnpj, _createPayment).
THEOREM CheckoutTypeOK == Spec => []TypeOK
<1>1. CheckoutInv /\ [Next]_vars => CheckoutInv'
  BY CheckoutNext
<1>2. Init => CheckoutInv
  BY CheckoutInit
<1>3. CheckoutInv => TypeOK
  BY DEF CheckoutInv
<1> QED BY <1>1, <1>2, <1>3, PTL DEF Spec

-----------------------------------------------------------------------------
(* Counting two sets, one of which holds the stale members of the other.   *)

\* A purchase leaves both.
LEMMA BothLose ==
    ASSUME NEW A \in SUBSET Purchases, NEW B \in SUBSET A, NEW p \in Purchases,
           NEW n \in Nat, Cardinality(A) <= n + Cardinality(B)
    PROVE  Cardinality(A \ {p}) <= n + Cardinality(B \ {p})
<1>1. B \in SUBSET Purchases
  OBVIOUS
<1>2. /\ Cardinality(A \ {p}) = IF p \in A THEN Cardinality(A) - 1 ELSE Cardinality(A)
      /\ Cardinality(B \ {p}) = IF p \in B THEN Cardinality(B) - 1 ELSE Cardinality(B)
  BY <1>1, CountRemove
<1>3. Cardinality(A) \in Nat /\ Cardinality(B) \in Nat
  BY <1>1, Countable
<1> QED BY <1>2, <1>3

\* A stale purchase joins both.
LEMMA BothGain ==
    ASSUME NEW A \in SUBSET Purchases, NEW B \in SUBSET A, NEW p \in Purchases, p \notin A,
           NEW n \in Nat, Cardinality(A) <= n + Cardinality(B)
    PROVE  Cardinality(A \cup {p}) <= n + Cardinality(B \cup {p})
<1>1. B \in SUBSET Purchases /\ p \notin B
  OBVIOUS
<1>2. /\ Cardinality(A \cup {p}) = Cardinality(A) + 1
      /\ Cardinality(B \cup {p}) = Cardinality(B) + 1
  BY <1>1, CountAdd
<1>3. Cardinality(A) \in Nat /\ Cardinality(B) \in Nat
  BY <1>1, Countable
<1> QED BY <1>2, <1>3

\* Another one joins the first only, while that is below its limit.
LEMMA FirstGains ==
    ASSUME NEW A \in SUBSET Purchases, NEW B \in SUBSET A, NEW p \in Purchases, p \notin A,
           NEW n \in Nat, Cardinality(A) < n
    PROVE  Cardinality(A \cup {p}) <= n + Cardinality(B)
<1>1. B \in SUBSET Purchases
  OBVIOUS
<1>2. Cardinality(A \cup {p}) = Cardinality(A) + 1
  BY CountAdd
<1>3. Cardinality(A) \in Nat /\ Cardinality(B) \in Nat
  BY <1>1, Countable
<1> QED BY <1>2, <1>3

-----------------------------------------------------------------------------
(* The remaining steps.                                                    *)

\* A purchase that fails.
LEMMA EndStep ==
    ASSUME TypeOK, NEW p \in Purchases, NoTenant(p) \/ RefuseCoupon(p) \/ Fail(p)
    PROVE  /\ PcMoves(p, "failed") /\ UNCHANGED <<coupon, payment, info>>
           /\ task[p].pc \in {"tenant", "coupon", "count", "lower", "insert"}
<1>1. task' = [task EXCEPT ![p].pc = "failed"]
  BY DEF NoTenant, RefuseCoupon, Fail
<1>2. PcMoves(p, "failed")
  BY <1>1, PcStep
<1> QED BY <1>2 DEF NoTenant, RefuseCoupon, Fail

\* A purchase that becomes a payment.
LEMMA InsertStep ==
    ASSUME TypeOK, NEW p \in Purchases, InsertPayment(p)
    PROVE  PcMoves(p, "done") /\ UNCHANGED <<coupon, info>> /\ task[p].pc = "insert"
<1>1. task' = [task EXCEPT ![p].pc = "done"]
  BY DEF InsertPayment
<1>2. PcMoves(p, "done")
  BY <1>1, PcStep
<1> QED BY <1>2 DEF InsertPayment

-----------------------------------------------------------------------------
(* OversoldOnlyByOverlap                                                   *)

\* Only the step that takes a use changes the coupons or what is stale.
LEMMA StaleKept ==
    ASSUME CheckoutInv, NEW p \in Purchases, Step(p), ~LowerUsage(p)
    PROVE  UNCHANGED coupon /\ \A c \in Coupons : Stale(c)' = Stale(c)
<1>1. TypeOK /\ Coherent(p)
  BY DEF CheckoutInv
<1>2. ASSUME NEW b \in Buyers, NEW d \in Coupons \cup {None}, NEW price \in Prices,
             Begin(p, b, d, price), NEW c \in Coupons
      PROVE  Stale(c)' = Stale(c)
  <2>1. Others(p) /\ task'[p].stale = task[p].stale
    BY <1>1, <1>2, BeginStep
  <2>2. task[p].stale = FALSE
    BY <1>1, <1>2 DEF Coherent, Begin
  <2> QED BY <2>1, <2>2 DEF Stale, Others
<1>3. ASSUME Others(p), task'[p].coupon = task[p].coupon, task'[p].stale = task[p].stale,
             NEW c \in Coupons
      PROVE  Stale(c)' = Stale(c)
  BY <1>3 DEF Stale, Others
<1>4. UNCHANGED coupon
  BY DEF Step, Begin, ChooseTenant, NoTenant, ReadCoupon, AcceptCoupon, RefuseCoupon,
         InsertPayment, Fail
<1>5. CASE ChooseTenant(p)
  BY <1>1, <1>3, <1>4, <1>5, ChooseStep
<1>6. CASE ReadCoupon(p)
  BY <1>1, <1>3, <1>4, <1>6, ReadStep
<1>7. CASE AcceptCoupon(p)
  BY <1>1, <1>3, <1>4, <1>7, AcceptStep
<1>8. CASE NoTenant(p) \/ RefuseCoupon(p) \/ Fail(p)
  BY <1>1, <1>3, <1>4, <1>8, EndStep DEF PcMoves
<1>9. CASE InsertPayment(p)
  BY <1>1, <1>3, <1>4, <1>9, InsertStep DEF PcMoves
<1> QED BY <1>2, <1>4, <1>5, <1>6, <1>7, <1>8, <1>9 DEF Step

\* What a use taken does to the coupons.
LEMMA LowerCoupon ==
    ASSUME CheckoutInv, NEW p \in Purchases, LowerUsage(p)
    PROVE  /\ task[p].coupon \in Coupons
           /\ coupon'[task[p].coupon].limit = coupon[task[p].coupon].limit - 1
           /\ \A c \in Coupons : c # task[p].coupon => coupon'[c] = coupon[c]
BY DEF CheckoutInv, TypeOK, Coherent, LowerUsage, Coupon

\* Every step of a purchase keeps the bound.
LEMMA OversoldStep ==
    ASSUME CheckoutInv, OversoldOnlyByOverlap, NEW p \in Purchases, Step(p)
    PROVE  OversoldOnlyByOverlap'
<1>1. TypeOK /\ Coherent(p)
  BY DEF CheckoutInv
<1>2. \A c \in Coupons : Lost(c) <= LimitUsage[c] + Cardinality(Stale(c))
  BY DEF OversoldOnlyByOverlap, Stale
<1>3. SUFFICES ASSUME NEW c \in Coupons
               PROVE  Lost(c)' <= LimitUsage[c] + Cardinality(Stale(c)')
  BY DEF OversoldOnlyByOverlap, Stale
<1>4. Stale(c) \in SUBSET Purchases
  BY DEF Stale
<1>5. LimitUsage[c] \in Nat /\ coupon[c].limit \in Int /\ Cardinality(Stale(c)) \in Nat
  BY <1>1, <1>4, Countable, CheckoutAssumption DEF TypeOK, Coupon
<1>6. CASE ~LowerUsage(p)
  BY <1>2, <1>6, StaleKept DEF Lost
<1>7. CASE LowerUsage(p) /\ c # task[p].coupon
  <2>1. coupon'[c] = coupon[c]
    BY <1>7, LowerCoupon
  <2>2. Stale(c)' = Stale(c)
    BY <1>1, <1>7, LowerStep DEF Stale, Others
  <2> QED BY <1>2, <2>1, <2>2 DEF Lost
<1>8. CASE LowerUsage(p) /\ c = task[p].coupon
  <2>1. /\ Others(p) /\ task'[p].coupon = c
        /\ task'[p].stale = (coupon[c].limit # task[p].limit)
    BY <1>1, <1>8, LowerStep
  <2>2. task[p].stale = FALSE /\ task[p].limit > 0
    BY <1>1, <1>8 DEF Coherent, LowerUsage
  <2>3. Lost(c)' = Lost(c) + 1 /\ Lost(c)' = LimitUsage[c] - (coupon[c].limit - 1)
    BY <1>5, <1>8, LowerCoupon DEF Lost
  <2>4. CASE coupon[c].limit # task[p].limit
    <3>1. Stale(c)' = Stale(c) \cup {p} /\ p \notin Stale(c)
      BY <2>1, <2>2, <2>4 DEF Stale, Others
    <3>2. Cardinality(Stale(c)') = Cardinality(Stale(c)) + 1
      BY <1>4, <3>1, CountAdd
    <3> QED BY <1>2, <1>5, <2>3, <3>2 DEF Lost
  <2>5. CASE coupon[c].limit = task[p].limit
    <3>1. Stale(c)' = Stale(c)
      BY <2>1, <2>2, <2>5 DEF Stale, Others
    <3> QED BY <1>5, <2>2, <2>3, <2>5, <3>1
  <2> QED BY <2>4, <2>5
<1> QED BY <1>6, <1>7, <1>8

\* A coupon is oversold only by purchases that overlap, whatever their number
\* (applyForCurrencyWithCoupon: canUse reads a copy, updateUsage(-1) does not).
THEOREM OversoldTheorem == Spec => []OversoldOnlyByOverlap
<1> DEFINE IInv == CheckoutInv /\ OversoldOnlyByOverlap
<1>1. Init => IInv
  <2> SUFFICES ASSUME Init, NEW c \in Coupons
               PROVE  Lost(c) <= LimitUsage[c] + Cardinality({p \in Purchases :
                                       task[p].coupon = c /\ task[p].stale})
    BY CheckoutInit DEF OversoldOnlyByOverlap
  <2>1. Lost(c) = LimitUsage[c] - LimitUsage[c] /\ LimitUsage[c] \in Nat
    BY CheckoutAssumption DEF Init, Lost
  <2>2. Cardinality({p \in Purchases : task[p].coupon = c /\ task[p].stale}) \in Nat
    BY Countable
  <2> QED BY <2>1, <2>2
<1>2. IInv /\ [Next]_vars => IInv'
  <2> SUFFICES ASSUME IInv, [Next]_vars PROVE OversoldOnlyByOverlap'
    BY CheckoutNext
  <2>1. ASSUME NEW p \in Purchases, Step(p) PROVE OversoldOnlyByOverlap'
    BY <2>1, OversoldStep
  <2>2. ASSUME UNCHANGED <<task, coupon>> PROVE OversoldOnlyByOverlap'
    BY <2>2 DEF OversoldOnlyByOverlap, Lost
  <2>3. ASSUME NEW p \in Purchases, StatusMoves(p) PROVE UNCHANGED <<task, coupon>>
    BY <2>3, StatusStep
  <2> QED BY <2>1, <2>2, <2>3 DEF Next, RetrieveTenantsInfo, vars
<1> QED BY <1>1, <1>2, PTL DEF Spec

-----------------------------------------------------------------------------
(* UserLimitOnlyByOverlap                                                  *)

\* The inductive form: it counts the purchases accepted, of which those paid are
\* a part, so that no later payment can break it.
AcceptedOnlyByOverlap ==
    \A b \in Buyers, c \in Coupons :
        UsageMaxToUser[c] # 0 =>
            Cardinality(Accepted(b, c)) <= UsageMaxToUser[c] + Cardinality(Beside(b, c))

\* Every paid use was accepted.
LEMMA PaidWasAccepted ==
    ASSUME CheckoutInv, NEW b \in Buyers, NEW c \in Coupons
    PROVE  /\ PaidUses(b, c) \in Nat
           /\ PaidUses(b, c) <= Cardinality(Accepted(b, c))
<1> DEFINE S == {p \in Purchases : Paid(p) /\ payment[p].buyer = b /\ payment[p].coupon = c}
<1>1. S \in SUBSET Accepted(b, c)
  BY DEF CheckoutInv, Coherent, Paid, Accepted
<1>2. Accepted(b, c) \in SUBSET Purchases /\ S \in SUBSET Purchases
  BY DEF Accepted
<1>3. Cardinality(S) <= Cardinality(Accepted(b, c)) /\ Cardinality(S) \in Nat
  BY <1>1, <1>2, CountSubset, Countable
<1> QED BY <1>3 DEF PaidUses

\* A step that accepts nothing leaves both sets, or takes the purchase out of both.
LEMMA AcceptedKept ==
    ASSUME CheckoutInv, NEW p \in Purchases, Step(p), ~AcceptCoupon(p),
           NEW b \in Buyers, NEW c \in Coupons
    PROVE  \/ Accepted(b, c)' = Accepted(b, c) /\ Beside(b, c)' = Beside(b, c)
           \/ /\ Accepted(b, c)' = Accepted(b, c) \ {p}
              /\ Beside(b, c)' = Beside(b, c) \ {p}
<1>1. TypeOK /\ Coherent(p) /\ None \notin Coupons
  BY CheckoutAssumption DEF CheckoutInv
<1>2. ASSUME Others(p), p \notin Accepted(b, c), p \notin Accepted(b, c)'
      PROVE  Accepted(b, c)' = Accepted(b, c) /\ Beside(b, c)' = Beside(b, c)
  BY <1>2 DEF Accepted, Beside, Others
<1>3. ASSUME Others(p), task[p].pc \in {"lower", "insert"},
             task'[p].pc \in {"insert", "done", "failed"},
             task'[p].buyer = task[p].buyer, task'[p].coupon = task[p].coupon,
             task'[p].beside = task[p].beside
      PROVE  \/ Accepted(b, c)' = Accepted(b, c) /\ Beside(b, c)' = Beside(b, c)
             \/ /\ Accepted(b, c)' = Accepted(b, c) \ {p}
                /\ Beside(b, c)' = Beside(b, c) \ {p}
  <2>1. CASE task'[p].pc = "failed"
    BY <1>3, <2>1 DEF Accepted, Beside, Others
  <2>2. CASE task'[p].pc \in {"insert", "done"}
    BY <1>3, <2>2 DEF Accepted, Beside, Others
  <2> QED BY <1>3, <2>1, <2>2
<1>4. ASSUME NEW d \in Buyers, NEW e \in Coupons \cup {None}, NEW price \in Prices,
             Begin(p, d, e, price)
      PROVE  Accepted(b, c)' = Accepted(b, c) /\ Beside(b, c)' = Beside(b, c)
  <2>1. Others(p) /\ task'[p].pc = "tenant" /\ task[p].pc = "new"
    BY <1>1, <1>4, BeginStep DEF Begin
  <2> QED BY <1>2, <2>1 DEF Accepted
<1>5. CASE ChooseTenant(p)
  <2>1. /\ Others(p) /\ task[p].pc = "tenant" /\ task'[p].coupon = task[p].coupon
        /\ task'[p].pc = IF task[p].coupon = None THEN "insert" ELSE "coupon"
    BY <1>1, <1>5, ChooseStep DEF ChooseTenant
  <2> QED BY <1>1, <1>2, <2>1 DEF Accepted
<1>6. CASE ReadCoupon(p)
  <2>1. Others(p) /\ task[p].pc = "coupon" /\ task'[p].pc = "count"
    BY <1>1, <1>6, ReadStep DEF ReadCoupon
  <2> QED BY <1>2, <2>1 DEF Accepted
<1>7. CASE LowerUsage(p)
  <2>1. task[p].pc = "lower"
    BY <1>7 DEF LowerUsage
  <2> QED BY <1>1, <1>3, <1>7, <2>1, LowerStep
<1>8. CASE InsertPayment(p)
  BY <1>1, <1>3, <1>8, InsertStep DEF PcMoves
<1>9. CASE NoTenant(p) \/ RefuseCoupon(p) \/ Fail(p)
  <2>1. PcMoves(p, "failed") /\ task[p].pc \in {"tenant", "coupon", "count", "lower", "insert"}
    BY <1>1, <1>9, EndStep
  <2>2. CASE task[p].pc \in {"tenant", "coupon", "count"}
    BY <1>2, <2>1, <2>2 DEF Accepted, PcMoves
  <2>3. CASE task[p].pc \in {"lower", "insert"}
    BY <1>3, <2>1, <2>3 DEF PcMoves
  <2> QED BY <2>1, <2>2, <2>3
<1> QED BY <1>4, <1>5, <1>6, <1>7, <1>8, <1>9 DEF Step

\* Every step of a purchase keeps the bound.
LEMMA AcceptedStep ==
    ASSUME CheckoutInv, AcceptedOnlyByOverlap, NEW p \in Purchases, Step(p)
    PROVE  AcceptedOnlyByOverlap'
<1>1. TypeOK /\ Coherent(p)
  BY DEF CheckoutInv
<1>2. SUFFICES ASSUME NEW b \in Buyers, NEW c \in Coupons, UsageMaxToUser[c] # 0
               PROVE  Cardinality(Accepted(b, c)')
                         <= UsageMaxToUser[c] + Cardinality(Beside(b, c)')
  BY DEF AcceptedOnlyByOverlap
<1>3. /\ Accepted(b, c) \in SUBSET Purchases /\ Beside(b, c) \in SUBSET Accepted(b, c)
      /\ UsageMaxToUser[c] \in Nat
  BY CheckoutAssumption DEF Accepted, Beside
<1>4. Cardinality(Accepted(b, c)) <= UsageMaxToUser[c] + Cardinality(Beside(b, c))
  BY <1>2 DEF AcceptedOnlyByOverlap
<1>5. CASE ~AcceptCoupon(p)
  BY <1>3, <1>4, <1>5, AcceptedKept, BothLose
<1>6. CASE AcceptCoupon(p)
  <2>1. /\ Others(p) /\ task[p].pc = "count" /\ task'[p].pc \in {"lower", "insert"}
        /\ task'[p].beside = (Cardinality(Accepted(task[p].buyer, task[p].coupon))
                                 > PaidUses(task[p].buyer, task[p].coupon))
        /\ task'[p].buyer = task[p].buyer /\ task'[p].coupon = task[p].coupon
    BY <1>1, <1>6, AcceptStep DEF AcceptCoupon
  <2>2. p \notin Accepted(b, c)
    BY <2>1 DEF Accepted
  <2>3. CASE task[p].buyer # b \/ task[p].coupon # c
    <3>1. Accepted(b, c)' = Accepted(b, c) /\ Beside(b, c)' = Beside(b, c)
      BY <2>1, <2>2, <2>3 DEF Accepted, Beside, Others
    <3> QED BY <1>4, <3>1
  <2>4. CASE task[p].buyer = b /\ task[p].coupon = c
    <3>1. Accepted(b, c)' = Accepted(b, c) \cup {p}
      BY <2>1, <2>4 DEF Accepted, Others
    <3>2. PaidUses(b, c) < UsageMaxToUser[c]
      BY <1>2, <1>6, <2>4 DEF AcceptCoupon, CanUse
    <3>3. CASE Cardinality(Accepted(b, c)) > PaidUses(b, c)
      <4>1. task'[p].beside = TRUE
        BY <2>1, <2>4, <3>3
      <4>2. Beside(b, c)' = Beside(b, c) \cup {p}
        BY <2>1, <2>4, <4>1 DEF Accepted, Beside, Others
      <4> QED BY <1>3, <1>4, <2>2, <3>1, <4>2, BothGain
    <3>4. CASE ~(Cardinality(Accepted(b, c)) > PaidUses(b, c))
      <4> DEFINE late == Cardinality(Accepted(b, c)) > PaidUses(b, c)
      <4>1. task'[p].beside = late
        BY <2>1, <2>4
      <4>2. late = FALSE
        BY <3>4
      <4> HIDE DEF late
      <4>3. task'[p].beside = FALSE
        BY <4>1, <4>2
      <4>4. Beside(b, c)' = Beside(b, c)
        BY <2>1, <2>2, <2>4, <4>3 DEF Accepted, Beside, Others
      <4>5. Cardinality(Accepted(b, c)) < UsageMaxToUser[c]
        BY <1>3, <3>2, <3>4, PaidWasAccepted, Countable
      <4> QED BY <1>3, <2>2, <3>1, <4>4, <4>5, FirstGains
    <3> QED BY <3>3, <3>4
  <2> QED BY <2>3, <2>4
<1> QED BY <1>5, <1>6

\* A buyer passes a coupon's limit only by uses accepted beside others that were
\* not paid by then (countByBillingIdAndCouponId, canUse), for any limits.
THEOREM UserLimitTheorem == Spec => []UserLimitOnlyByOverlap
<1> DEFINE IInv == CheckoutInv /\ AcceptedOnlyByOverlap
<1>1. Init => IInv
  <2> SUFFICES ASSUME Init, NEW b \in Buyers, NEW c \in Coupons
               PROVE  Cardinality(Accepted(b, c))
                         <= UsageMaxToUser[c] + Cardinality(Beside(b, c))
    BY CheckoutInit DEF AcceptedOnlyByOverlap
  <2>1. Accepted(b, c) = {} /\ Beside(b, c) = {}
    BY DEF Init, Accepted, Beside
  <2>2. UsageMaxToUser[c] \in Nat
    BY CheckoutAssumption
  <2> QED BY <2>1, <2>2, FS_EmptySet
<1>2. IInv /\ [Next]_vars => IInv'
  <2> SUFFICES ASSUME IInv, [Next]_vars PROVE AcceptedOnlyByOverlap'
    BY CheckoutNext
  <2>1. ASSUME NEW p \in Purchases, Step(p) PROVE AcceptedOnlyByOverlap'
    BY <2>1, AcceptedStep
  <2>2. ASSUME UNCHANGED task PROVE AcceptedOnlyByOverlap'
    BY <2>2 DEF AcceptedOnlyByOverlap, Accepted, Beside
  <2>3. ASSUME NEW p \in Purchases, StatusMoves(p) PROVE UNCHANGED task
    BY <2>3, StatusStep
  <2> QED BY <2>1, <2>2, <2>3 DEF Next, RetrieveTenantsInfo, vars
<1>3. IInv => UserLimitOnlyByOverlap
  <2> SUFFICES ASSUME IInv, NEW b \in Buyers, NEW c \in Coupons, UsageMaxToUser[c] # 0
               PROVE  PaidUses(b, c) <= UsageMaxToUser[c] + Cardinality(Beside(b, c))
    BY DEF UserLimitOnlyByOverlap, Beside
  <2>1. Accepted(b, c) \in SUBSET Purchases /\ Beside(b, c) \in SUBSET Purchases
    BY DEF Accepted, Beside
  <2>2. Cardinality(Accepted(b, c)) \in Nat /\ Cardinality(Beside(b, c)) \in Nat
    BY <2>1, Countable
  <2>3. Cardinality(Accepted(b, c)) <= UsageMaxToUser[c] + Cardinality(Beside(b, c))
    BY DEF AcceptedOnlyByOverlap
  <2>4. UsageMaxToUser[c] \in Nat
    BY CheckoutAssumption
  <2> QED BY <2>2, <2>3, <2>4, PaidWasAccepted
<1> QED BY <1>1, <1>2, <1>3, PTL DEF Spec

-----------------------------------------------------------------------------
(* OverfilledByOneCartOrDelay                                              *)

\* What the purchases of A cost passes n by what those of B cost, and by less than
\* one of the others.
Bounded(A, B, n) ==
    \/ Cost(A) <= n + Cost(B)
    \/ \E q \in A \ B : Cost(A) < n + task[q].price + Cost(B)

\* The same after a step.
NewCost(S) == SumFunctionOnSet([p \in Purchases |-> task'[p].price], S)

NewBounded(A, B, n) ==
    \/ NewCost(A) <= n + NewCost(B)
    \/ \E q \in A \ B : NewCost(A) < n + task'[q].price + NewCost(B)

\* The inductive form: it adds up the payments a tenant was chosen for, paid or not.
ThroughByOneCartOrDelay ==
    \A t \in Tenants : Bounded(Through(t), Hidden(t), MaxValue[t])

\* What purchases cost is an amount.
LEMMA CostType ==
    ASSUME TypeOK, NEW S \in SUBSET Purchases
    PROVE  Cost(S) \in Nat
<1> DEFINE f == [p \in Purchases |-> task[p].price]
<1>1. \A x \in S : f[x] \in Nat
  BY DEF TypeOK, Task
<1>2. IsFiniteSet(S)
  BY Countable
<1> HIDE DEF f
<1>3. SumFunctionOnSet(f, S) \in Nat
  BY <1>1, <1>2, SumOfNaturals
<1> QED BY <1>3 DEF Cost, f

\* One purchase less.
LEMMA CostRemove ==
    ASSUME TypeOK, NEW S \in SUBSET Purchases, NEW p \in S
    PROVE  Cost(S) = task[p].price + Cost(S \ {p})
<1> DEFINE f == [q \in Purchases |-> task[q].price]
<1>1. (\A x \in S : f[x] \in Int) /\ f[p] = task[p].price
  BY DEF TypeOK, Task
<1>2. IsFiniteSet(S)
  BY Countable
<1> HIDE DEF f
<1>3. SumFunctionOnSet(f, S) = f[p] + SumFunctionOnSet(f, S \ {p})
  BY <1>1, <1>2, SumRemove
<1> QED BY <1>1, <1>3 DEF Cost, f

\* One purchase more.
LEMMA CostAdd ==
    ASSUME TypeOK, NEW S \in SUBSET Purchases, NEW p \in Purchases, p \notin S
    PROVE  Cost(S \cup {p}) = task[p].price + Cost(S)
<1>1. (S \cup {p}) \ {p} = S /\ S \cup {p} \in SUBSET Purchases
  OBVIOUS
<1>2. Cost(S \cup {p}) = task[p].price + Cost((S \cup {p}) \ {p})
  BY <1>1, CostRemove
<1> QED BY <1>1, <1>2

\* A step that leaves the prices leaves what the purchases cost.
LEMMA CostKept ==
    ASSUME NEW S \in SUBSET Purchases, \A q \in S : task'[q].price = task[q].price
    PROVE  NewCost(S) = Cost(S)
<1> DEFINE f == [q \in Purchases |-> task[q].price]
           g == [q \in Purchases |-> task'[q].price]
<1>1. \A x \in S : g[x] = f[x]
  OBVIOUS
<1>2. IsFiniteSet(S)
  BY Countable
<1> HIDE DEF f, g
<1>3. SumFunctionOnSet(g, S) = SumFunctionOnSet(f, S)
  BY <1>1, <1>2, SumCong
<1> QED BY <1>3 DEF Cost, NewCost, f, g

LEMMA BoundedKept ==
    ASSUME NEW A \in SUBSET Purchases, NEW B \in SUBSET A, NEW n,
           \A q \in A : task'[q].price = task[q].price, Bounded(A, B, n)
    PROVE  NewBounded(A, B, n)
<1>1. B \in SUBSET Purchases /\ \A q \in B : task'[q].price = task[q].price
  OBVIOUS
<1>2. NewCost(A) = Cost(A) /\ NewCost(B) = Cost(B)
  BY <1>1, CostKept
<1> QED BY <1>2 DEF Bounded, NewBounded

\* A purchase leaves both sets.
LEMMA DearLoses ==
    ASSUME TypeOK, NEW A \in SUBSET Purchases, NEW B \in SUBSET A, NEW p \in Purchases,
           NEW n \in Nat, Bounded(A, B, n)
    PROVE  Bounded(A \ {p}, B \ {p}, n)
<1>1. /\ B \in SUBSET Purchases
      /\ A \ {p} \in SUBSET Purchases /\ B \ {p} \in SUBSET Purchases
  OBVIOUS
<1>2. /\ Cost(A) \in Nat /\ Cost(B) \in Nat
      /\ Cost(A \ {p}) \in Nat /\ Cost(B \ {p}) \in Nat
  BY <1>1, CostType
<1>3. \A q \in Purchases : task[q].price \in Nat
  BY DEF TypeOK, Task
<1>4. CASE p \notin A
  <2>1. A \ {p} = A /\ B \ {p} = B
    BY <1>4
  <2> QED BY <2>1
<1>5. CASE p \in B
  <2>1. Cost(A) = task[p].price + Cost(A \ {p}) /\ Cost(B) = task[p].price + Cost(B \ {p})
    BY <1>1, <1>5, CostRemove
  <2>2. (A \ {p}) \ (B \ {p}) = A \ B
    BY <1>5
  <2>3. CASE Cost(A) <= n + Cost(B)
    BY <1>2, <1>3, <2>1, <2>3 DEF Bounded
  <2>4. ASSUME NEW q \in A \ B, Cost(A) < n + task[q].price + Cost(B)
        PROVE  Cost(A \ {p}) < n + task[q].price + Cost(B \ {p})
    <3>1. q \in Purchases
      OBVIOUS
    <3> QED BY <1>2, <1>3, <2>1, <2>4, <3>1
  <2> QED BY <2>2, <2>3, <2>4 DEF Bounded
<1>6. CASE p \in A \ B
  <2>1. Cost(A) = task[p].price + Cost(A \ {p}) /\ B \ {p} = B
    BY <1>6, CostRemove
  <2>0. Cost(B \ {p}) = Cost(B) /\ task[p].price \in Nat
    BY <1>3, <2>1
  <2>2. CASE Cost(A) <= n + Cost(B)
    BY <1>2, <2>0, <2>1, <2>2 DEF Bounded
  <2>3. ASSUME NEW q \in A \ B, Cost(A) < n + task[q].price + Cost(B)
        PROVE  Bounded(A \ {p}, B \ {p}, n)
    <3>1. q \in Purchases
      OBVIOUS
    <3>2. CASE q = p
      <4>1. Cost(A) < n + task[p].price + Cost(B)
        BY <2>3, <3>2
      <4>2. Cost(A \ {p}) <= n + Cost(B \ {p})
        BY <1>2, <2>0, <2>1, <4>1
      <4> QED BY <4>2 DEF Bounded
    <3>3. CASE q # p
      <4>1. Cost(A \ {p}) < n + task[q].price + Cost(B \ {p})
        <5>1. task[q].price \in Nat
          BY <1>3, <3>1
        <5> QED BY <1>2, <2>0, <2>1, <2>3, <5>1
      <4> QED BY <2>1, <2>3, <3>3, <4>1 DEF Bounded
    <3> QED BY <3>2, <3>3
  <2> QED BY <2>2, <2>3 DEF Bounded
<1> QED BY <1>4, <1>5, <1>6

\* A purchase that others were hidden from joins both.
LEMMA DearGains ==
    ASSUME TypeOK, NEW A \in SUBSET Purchases, NEW B \in SUBSET A, NEW p \in Purchases,
           p \notin A, NEW n \in Nat, Bounded(A, B, n)
    PROVE  Bounded(A \cup {p}, B \cup {p}, n)
<1>1. /\ B \in SUBSET Purchases /\ p \notin B
      /\ (A \cup {p}) \ (B \cup {p}) = A \ B
  OBVIOUS
<1>2. Cost(A) \in Nat /\ Cost(B) \in Nat
  BY <1>1, CostType
<1>3. \A q \in Purchases : task[q].price \in Nat
  BY DEF TypeOK, Task
<1>4. /\ Cost(A \cup {p}) = task[p].price + Cost(A)
      /\ Cost(B \cup {p}) = task[p].price + Cost(B)
  BY <1>1, CostAdd
<1>5. CASE Cost(A) <= n + Cost(B)
  BY <1>2, <1>3, <1>4, <1>5 DEF Bounded
<1>6. ASSUME NEW q \in A \ B, Cost(A) < n + task[q].price + Cost(B)
      PROVE  Cost(A \cup {p}) < n + task[q].price + Cost(B \cup {p})
  <2>1. q \in Purchases
    OBVIOUS
  <2> QED BY <1>2, <1>3, <1>4, <1>6, <2>1
<1> QED BY <1>1, <1>5, <1>6 DEF Bounded

\* Another one joins the first only, while that costs less than the limit.
LEMMA DearFirstGains ==
    ASSUME TypeOK, NEW A \in SUBSET Purchases, NEW B \in SUBSET A, NEW p \in Purchases,
           p \notin A, NEW n \in Nat, Cost(A) < n
    PROVE  Bounded(A \cup {p}, B, n)
<1>1. B \in SUBSET Purchases /\ p \in (A \cup {p}) \ B
  OBVIOUS
<1>2. Cost(A) \in Nat /\ Cost(B) \in Nat /\ task[p].price \in Nat
  BY <1>1, CostType DEF TypeOK, Task
<1>3. Cost(A \cup {p}) = task[p].price + Cost(A)
  BY CostAdd
<1>4. Cost(A \cup {p}) < n + task[p].price + Cost(B)
  BY <1>2, <1>3
<1> QED BY <1>1, <1>4 DEF Bounded

\* A step that chooses no tenant leaves both sets, or takes the purchase out of both,
\* and leaves the prices of their purchases.
LEMMA ThroughKept ==
    ASSUME CheckoutInv, NEW p \in Purchases, Step(p), ~ChooseTenant(p), NEW t \in Tenants
    PROVE  /\ \/ Through(t)' = Through(t) /\ Hidden(t)' = Hidden(t)
              \/ Through(t)' = Through(t) \ {p} /\ Hidden(t)' = Hidden(t) \ {p}
           /\ \A q \in Through(t) : task'[q].price = task[q].price
<1> DEFINE Goal == /\ \/ Through(t)' = Through(t) /\ Hidden(t)' = Hidden(t)
                      \/ Through(t)' = Through(t) \ {p} /\ Hidden(t)' = Hidden(t) \ {p}
                   /\ \A q \in Through(t) : task'[q].price = task[q].price
<1>1. TypeOK /\ Coherent(p) /\ t # None
  BY CheckoutAssumption DEF CheckoutInv
<1>2. ASSUME Others(p), task'[p].tenant = task[p].tenant, task'[p].hidden = task[p].hidden,
             task'[p].price = task[p].price, task[p].pc # "failed"
      PROVE  Goal
  <2>1. \A q \in Through(t) : task'[q].price = task[q].price
    BY <1>2 DEF Through, Others
  <2>2. CASE task'[p].pc = "failed"
    BY <1>2, <2>1, <2>2 DEF Through, Hidden, Others
  <2>3. CASE task'[p].pc # "failed"
    BY <1>2, <2>1, <2>3 DEF Through, Hidden, Others
  <2> QED BY <2>2, <2>3
<1>3. ASSUME NEW b \in Buyers, NEW c \in Coupons \cup {None}, NEW price \in Prices,
             Begin(p, b, c, price)
      PROVE  Goal
  <2>1. Others(p) /\ task'[p].tenant = task[p].tenant /\ task[p].pc = "new"
    BY <1>1, <1>3, BeginStep DEF Begin
  <2>2. task[p].tenant # t
    BY <1>1, <2>1 DEF Coherent
  <2> QED BY <2>1, <2>2 DEF Through, Hidden, Others
<1>4. CASE ReadCoupon(p)
  <2>1. task[p].pc = "coupon"
    BY <1>4 DEF ReadCoupon
  <2> QED BY <1>1, <1>2, <1>4, <2>1, ReadStep
<1>5. CASE AcceptCoupon(p)
  <2>1. task[p].pc = "count"
    BY <1>5 DEF AcceptCoupon
  <2> QED BY <1>1, <1>2, <1>5, <2>1, AcceptStep
<1>6. CASE LowerUsage(p)
  <2>1. task[p].pc = "lower"
    BY <1>6 DEF LowerUsage
  <2> QED BY <1>1, <1>2, <1>6, <2>1, LowerStep
<1>7. CASE InsertPayment(p)
  BY <1>1, <1>2, <1>7, InsertStep DEF PcMoves
<1>8. CASE NoTenant(p) \/ RefuseCoupon(p) \/ Fail(p)
  <2>1. PcMoves(p, "failed") /\ task[p].pc # "failed"
    BY <1>1, <1>8, EndStep
  <2> QED BY <1>2, <2>1 DEF PcMoves
<1> QED BY <1>3, <1>4, <1>5, <1>6, <1>7, <1>8 DEF Step

\* Every step of a purchase keeps the bound.
LEMMA ThroughStep ==
    ASSUME CheckoutInv, ThroughByOneCartOrDelay, NEW p \in Purchases, Step(p)
    PROVE  ThroughByOneCartOrDelay'
<1>1. TypeOK /\ Coherent(p)
  BY DEF CheckoutInv
<1>2. SUFFICES ASSUME NEW t \in Tenants
               PROVE  NewBounded(Through(t)', Hidden(t)', MaxValue[t])
  BY DEF ThroughByOneCartOrDelay, Bounded, NewBounded, Cost, NewCost
<1>3. /\ Through(t) \in SUBSET Purchases /\ Hidden(t) \in SUBSET Through(t)
      /\ MaxValue[t] \in Nat /\ info[t] \in Nat
  BY <1>1, CheckoutAssumption DEF Through, Hidden, TypeOK
<1>4. Bounded(Through(t), Hidden(t), MaxValue[t])
  BY DEF ThroughByOneCartOrDelay
<1>5. CASE ~ChooseTenant(p)
  <2>1. \A q \in Through(t) : task'[q].price = task[q].price
    BY <1>5, ThroughKept
  <2>2. CASE Through(t)' = Through(t) /\ Hidden(t)' = Hidden(t)
    BY <1>3, <1>4, <2>1, <2>2, BoundedKept
  <2>3. CASE Through(t)' = Through(t) \ {p} /\ Hidden(t)' = Hidden(t) \ {p}
    <3>1. Bounded(Through(t) \ {p}, Hidden(t) \ {p}, MaxValue[t])
      BY <1>1, <1>3, <1>4, DearLoses
    <3>2. /\ Through(t) \ {p} \in SUBSET Purchases
          /\ Hidden(t) \ {p} \in SUBSET (Through(t) \ {p})
      BY <1>3
    <3>3. NewBounded(Through(t) \ {p}, Hidden(t) \ {p}, MaxValue[t])
      BY <2>1, <3>1, <3>2, BoundedKept
    <3> QED BY <2>3, <3>3
  <2> QED BY <1>5, <2>2, <2>3, ThroughKept
<1>6. CASE ChooseTenant(p)
  <2>1. task[p].pc = "tenant" /\ task[p].buyer \in Buyers /\ task[p].tenant # t
    BY <1>1, <1>6, CheckoutAssumption DEF ChooseTenant, Coherent
  <2>2. PICK u \in TenantsFor(task[p].buyer) :
          /\ Others(p) /\ task'[p].pc \in {"insert", "coupon"} /\ task'[p].tenant = u
          /\ task'[p].hidden = (Cost(Through(u)) > info[u])
          /\ task'[p].price = task[p].price
    BY <1>1, <1>6, ChooseStep
  <2>3. p \notin Through(t)
    BY <2>1 DEF Through
  <2>4. \A q \in Purchases : task'[q].price = task[q].price
    BY <2>2 DEF Others
  <2>5. ASSUME NEW A \in SUBSET Purchases, NEW B \in SUBSET A, Bounded(A, B, MaxValue[t])
        PROVE  NewBounded(A, B, MaxValue[t])
    BY <2>4, <2>5, BoundedKept
  <2>6. CASE u # t
    <3>1. Through(t)' = Through(t) /\ Hidden(t)' = Hidden(t)
      BY <2>2, <2>3, <2>6 DEF Through, Hidden, Others
    <3> QED BY <1>3, <1>4, <2>5, <3>1
  <2>7. CASE u = t
    <3> DEFINE A == Through(t) \cup {p}
    <3>1. Through(t)' = A /\ A \in SUBSET Purchases
      BY <1>3, <2>2, <2>7 DEF Through, Others
    <3>2. info[t] < MaxValue[t]
      BY <2>2, <2>7 DEF TenantsFor, Open
    <3>3. CASE Cost(Through(t)) > info[t]
      <4>1. task'[p].hidden = TRUE
        BY <2>2, <2>7, <3>3
      <4>2. Hidden(t)' = Hidden(t) \cup {p}
        BY <2>2, <2>7, <4>1 DEF Through, Hidden, Others
      <4>3. Bounded(A, Hidden(t) \cup {p}, MaxValue[t])
        BY <1>1, <1>3, <1>4, <2>3, DearGains
      <4>4. Hidden(t) \cup {p} \in SUBSET A
        BY <1>3
      <4> HIDE DEF A
      <4> QED BY <2>5, <3>1, <4>2, <4>3, <4>4
    <3>4. CASE ~(Cost(Through(t)) > info[t])
      <4> DEFINE late == Cost(Through(t)) > info[t]
      <4>1. task'[p].hidden = late
        BY <2>2, <2>7
      <4>2. late = FALSE
        BY <3>4
      <4> HIDE DEF late
      <4>3. task'[p].hidden = FALSE
        BY <4>1, <4>2
      <4>4. Hidden(t)' = Hidden(t)
        BY <2>2, <2>3, <2>7, <4>3 DEF Through, Hidden, Others
      <4>5. Cost(Through(t)) < MaxValue[t]
        BY <1>1, <1>3, <3>2, <3>4, CostType
      <4>6. Bounded(A, Hidden(t), MaxValue[t])
        BY <1>1, <1>3, <2>3, <4>5, DearFirstGains
      <4>7. Hidden(t) \in SUBSET A
        BY <1>3
      <4> HIDE DEF A
      <4> QED BY <2>5, <3>1, <4>4, <4>6, <4>7
    <3> QED BY <3>3, <3>4
  <2> QED BY <2>6, <2>7
<1> QED BY <1>5, <1>6

\* What is paid through a tenant was chosen through it.
LEMMA RevenueThrough ==
    ASSUME CheckoutInv, NEW t \in Tenants
    PROVE  Revenue(t) \in Nat /\ Revenue(t) <= Cost(Through(t))
<1> DEFINE S == {p \in Purchases : payment[p].paid /\ payment[p].tenant = t}
           f == [p \in Purchases |-> task[p].price]
           g == [p \in Purchases |-> payment[p].price]
<1>1. S \in SUBSET Through(t) /\ Through(t) \in SUBSET Purchases
  BY DEF CheckoutInv, Coherent, Through
<1>2. IsFiniteSet(S) /\ IsFiniteSet(Through(t))
  BY <1>1, Countable
<1>3. (\A x \in S : f[x] = g[x]) /\ \A x \in Through(t) : f[x] \in Nat
  BY <1>1 DEF CheckoutInv, Coherent, TypeOK, Task
<1>4. Revenue(t) = SumFunctionOnSet(g, S) /\ Cost(Through(t)) = SumFunctionOnSet(f, Through(t))
  BY DEF Revenue, Cost
<1> HIDE DEF S, f, g
<1>5. SumFunctionOnSet(f, S) = SumFunctionOnSet(g, S)
  BY <1>2, <1>3, SumCong
<1>6. SumFunctionOnSet(f, S) <= SumFunctionOnSet(f, Through(t))
  BY <1>1, <1>2, <1>3, SumSubset
<1>7. Revenue(t) \in Nat
  BY RevenueType DEF CheckoutInv
<1> QED BY <1>4, <1>5, <1>6, <1>7

\* A tenant passes its ceiling only by payments it was chosen for while others of
\* its payments were missing from the totals of the last minute, and by what one cart
\* cost more than was left (PaymentHelper), for any prices.
THEOREM OverfilledTheorem == Spec => []OverfilledByOneCartOrDelay
<1> DEFINE IInv == CheckoutInv /\ ThroughByOneCartOrDelay
<1>1. Init => IInv
  <2> SUFFICES ASSUME Init, NEW t \in Tenants
               PROVE  Bounded(Through(t), Hidden(t), MaxValue[t])
    BY CheckoutInit DEF ThroughByOneCartOrDelay
  <2>1. Through(t) = {} /\ Hidden(t) = {}
    BY CheckoutAssumption DEF Init, Through, Hidden
  <2>2. MaxValue[t] \in Nat /\ Cost({}) = 0
    BY CheckoutAssumption, SumEmpty DEF Cost
  <2> QED BY <2>1, <2>2 DEF Bounded
<1>2. IInv /\ [Next]_vars => IInv'
  <2> SUFFICES ASSUME IInv, [Next]_vars PROVE ThroughByOneCartOrDelay'
    BY CheckoutNext
  <2>1. ASSUME NEW p \in Purchases, Step(p) PROVE ThroughByOneCartOrDelay'
    BY <2>1, ThroughStep
  <2>2. ASSUME UNCHANGED task PROVE ThroughByOneCartOrDelay'
    BY <2>2 DEF ThroughByOneCartOrDelay, Bounded, Through, Hidden, Cost
  <2>3. ASSUME NEW p \in Purchases, StatusMoves(p) PROVE UNCHANGED task
    BY <2>3, StatusStep
  <2> QED BY <2>1, <2>2, <2>3 DEF Next, RetrieveTenantsInfo, vars
<1>3. IInv => OverfilledByOneCartOrDelay
  <2> SUFFICES ASSUME IInv, NEW t \in Tenants
               PROVE  \/ Revenue(t) <= MaxValue[t] + Cost(Hidden(t))
                      \/ \E p \in Through(t) \ Hidden(t) :
                            Revenue(t) < MaxValue[t] + task[p].price + Cost(Hidden(t))
    BY DEF OverfilledByOneCartOrDelay
  <2>1. Revenue(t) \in Nat /\ Revenue(t) <= Cost(Through(t))
    BY RevenueThrough
  <2>2. Through(t) \in SUBSET Purchases /\ Hidden(t) \in SUBSET Purchases
    BY DEF Through, Hidden
  <2>3. /\ Cost(Through(t)) \in Nat /\ Cost(Hidden(t)) \in Nat /\ MaxValue[t] \in Nat
        /\ \A p \in Purchases : task[p].price \in Nat
    BY <2>2, CostType, CheckoutAssumption DEF CheckoutInv, TypeOK, Task
  <2>4. CASE Cost(Through(t)) <= MaxValue[t] + Cost(Hidden(t))
    BY <2>1, <2>3, <2>4
  <2>5. ASSUME NEW p \in Through(t) \ Hidden(t),
               Cost(Through(t)) < MaxValue[t] + task[p].price + Cost(Hidden(t))
        PROVE  Revenue(t) < MaxValue[t] + task[p].price + Cost(Hidden(t))
    <3>1. task[p].price \in Nat
      BY <2>2, <2>3
    <3> QED BY <2>1, <2>3, <2>5, <3>1
  <2> QED BY <2>4, <2>5 DEF ThroughByOneCartOrDelay, Bounded
<1> QED BY <1>1, <1>2, <1>3, PTL DEF Spec

-----------------------------------------------------------------------------
(* UsesAreAccountedFor                                                     *)

\* A step that takes no use adds no purchase that has one, and takes away none
\* that may have had one.
LEMMA UsesKept ==
    ASSUME CheckoutInv, NEW p \in Purchases, Step(p), ~LowerUsage(p),
           NEW c \in Coupons, coupon[c].discount
    PROVE  /\ Having(c, {"insert", "done"})' \in SUBSET Having(c, {"insert", "done"})
           /\ Having(c, {"insert", "done", "failed"})
                 \in SUBSET Having(c, {"insert", "done", "failed"})'
<1> DEFINE Kept ==
      /\ Having(c, {"insert", "done"})' \in SUBSET Having(c, {"insert", "done"})
      /\ Having(c, {"insert", "done", "failed"})
            \in SUBSET Having(c, {"insert", "done", "failed"})'
<1>1. TypeOK /\ Coherent(p) /\ None \notin Coupons
  BY CheckoutAssumption DEF CheckoutInv
<1>2. ASSUME Others(p), task[p].pc \notin {"insert", "done", "failed"},
             task'[p].coupon = c => task'[p].pc \notin {"insert", "done"}
      PROVE  Kept
  BY <1>2 DEF Having, Others
<1>3. ASSUME NEW b \in Buyers, NEW d \in Coupons \cup {None}, NEW price \in Prices,
             Begin(p, b, d, price)
      PROVE  Kept
  <2>1. Others(p) /\ task[p].pc = "new" /\ task'[p].pc = "tenant"
    BY <1>1, <1>3, BeginStep DEF Begin
  <2> QED BY <1>2, <2>1
<1>4. CASE ChooseTenant(p)
  <2>1. /\ Others(p) /\ task[p].pc = "tenant" /\ task'[p].coupon = task[p].coupon
        /\ task'[p].pc = IF task[p].coupon = None THEN "insert" ELSE "coupon"
    BY <1>1, <1>4, ChooseStep DEF ChooseTenant
  <2> QED BY <1>1, <1>2, <2>1
<1>5. CASE ReadCoupon(p)
  <2>1. Others(p) /\ task[p].pc = "coupon" /\ task'[p].pc = "count"
    BY <1>1, <1>5, ReadStep DEF ReadCoupon
  <2> QED BY <1>2, <2>1
<1>6. CASE AcceptCoupon(p)
  <2>1. /\ Others(p) /\ task[p].pc = "count" /\ task'[p].coupon = task[p].coupon
        /\ task'[p].pc = IF coupon[task[p].coupon].discount THEN "lower" ELSE "insert"
    BY <1>1, <1>6, AcceptStep DEF AcceptCoupon
  <2> QED BY <1>2, <2>1
<1>7. CASE InsertPayment(p)
  BY <1>1, <1>7, InsertStep DEF Having, Others, PcMoves
<1>8. CASE NoTenant(p) \/ RefuseCoupon(p) \/ Fail(p)
  BY <1>1, <1>8, EndStep DEF Having, Others, PcMoves
<1> QED BY <1>3, <1>4, <1>5, <1>6, <1>7, <1>8 DEF Step

\* Every step of a purchase keeps the account of the uses.
LEMMA UsesStep ==
    ASSUME CheckoutInv, UsesAreAccountedFor, NEW p \in Purchases, Step(p)
    PROVE  UsesAreAccountedFor'
<1> DEFINE I(c) == Having(c, {"insert", "done"})
           O(c) == Having(c, {"insert", "done", "failed"})
<1>1. TypeOK /\ Coherent(p)
  BY DEF CheckoutInv
<1>2. ASSUME NEW c \in Coupons
      PROVE  /\ LimitUsage[c] \in Nat /\ coupon[c].limit \in Int
             /\ I(c) \in SUBSET Purchases /\ O(c) \in SUBSET Purchases
             /\ I(c)' \in SUBSET Purchases /\ O(c)' \in SUBSET Purchases
             /\ coupon'[c].discount = coupon[c].discount
  BY <1>1, CheckoutAssumption, CouponStep DEF TypeOK, Coupon, Having
<1>3. ASSUME NEW c \in Coupons, coupon[c].discount
      PROVE  Cardinality(I(c)) <= Lost(c) /\ Lost(c) <= Cardinality(O(c))
  BY <1>3 DEF UsesAreAccountedFor, With, Having
<1>4. ASSUME NEW c \in Coupons, ~coupon[c].discount
      PROVE  Lost(c) = 0
  BY <1>4 DEF UsesAreAccountedFor
<1>5. SUFFICES ASSUME NEW c \in Coupons
               PROVE  IF coupon[c].discount
                      THEN Cardinality(I(c)') <= Lost(c)' /\ Lost(c)' <= Cardinality(O(c)')
                      ELSE Lost(c)' = 0
  BY <1>2 DEF UsesAreAccountedFor, With, Having
<1>6. /\ Cardinality(I(c)) \in Nat /\ Cardinality(O(c)) \in Nat
      /\ Cardinality(I(c)') \in Nat /\ Cardinality(O(c)') \in Nat
  BY <1>2, Countable
<1>7. Lost(c) \in Int
  BY <1>2 DEF Lost
<1>8. ASSUME ~LowerUsage(p)
      PROVE  IF coupon[c].discount
             THEN Cardinality(I(c)') <= Lost(c)' /\ Lost(c)' <= Cardinality(O(c)')
             ELSE Lost(c)' = 0
  <2>1. Lost(c)' = Lost(c)
    BY <1>8, StaleKept DEF Lost
  <2>2. ASSUME coupon[c].discount
        PROVE  Cardinality(I(c)') <= Lost(c)' /\ Lost(c)' <= Cardinality(O(c)')
    <3>1. Cardinality(I(c)') <= Cardinality(I(c)) /\ Cardinality(O(c)) <= Cardinality(O(c)')
      BY <1>2, <1>8, <2>2, UsesKept, CountSubset
    <3> HIDE DEF I, O
    <3> QED BY <1>3, <1>6, <1>7, <2>1, <2>2, <3>1
  <2> QED BY <1>4, <2>1, <2>2
<1>9. ASSUME LowerUsage(p), c # task[p].coupon
      PROVE  IF coupon[c].discount
             THEN Cardinality(I(c)') <= Lost(c)' /\ Lost(c)' <= Cardinality(O(c)')
             ELSE Lost(c)' = 0
  <2>1. Lost(c)' = Lost(c)
    BY <1>9, LowerCoupon DEF Lost
  <2>2. I(c)' = I(c) /\ O(c)' = O(c)
    BY <1>1, <1>9, LowerStep DEF Having, Others
  <2> HIDE DEF I, O
  <2> QED BY <1>3, <1>4, <2>1, <2>2
<1>10. ASSUME LowerUsage(p), c = task[p].coupon
       PROVE  IF coupon[c].discount
              THEN Cardinality(I(c)') <= Lost(c)' /\ Lost(c)' <= Cardinality(O(c)')
              ELSE Lost(c)' = 0
  <2>1. task[p].pc = "lower" /\ coupon[c].discount
    BY <1>1, <1>10 DEF LowerUsage, Coherent
  <2>2. Lost(c)' = Lost(c) + 1
    BY <1>2, <1>10, LowerCoupon DEF Lost
  <2>3. Others(p) /\ task'[p].coupon = c /\ task'[p].pc \in {"insert", "failed"}
    BY <1>1, <1>10, LowerStep
  <2>4. O(c)' = O(c) \cup {p} /\ p \notin O(c)
    BY <2>1, <2>3 DEF Having, Others
  <2>5. I(c)' \in SUBSET (I(c) \cup {p}) /\ p \notin I(c)
    BY <2>1, <2>3 DEF Having, Others
  <2>6. I(c) \cup {p} \in SUBSET Purchases
    BY <1>2
  <2> HIDE DEF I, O
  <2>7. Cardinality(O(c)') = Cardinality(O(c)) + 1
    BY <1>2, <2>4, CountAdd
  <2>8. Cardinality(I(c)') <= Cardinality(I(c)) + 1
    BY <1>2, <2>5, <2>6, CountAdd, CountSubset
  <2> QED BY <1>3, <1>6, <1>7, <2>1, <2>2, <2>7, <2>8
<1> QED BY <1>8, <1>9, <1>10

\* What a coupon lost is accounted for by payments and by purchases that failed
\* (apply-coupon.use-case.ts:79-87 before create-internal-payment.use-case.ts:412).
THEOREM UsesTheorem == Spec => []UsesAreAccountedFor
<1> DEFINE IInv == CheckoutInv /\ UsesAreAccountedFor
<1>1. Init => IInv
  <2> SUFFICES ASSUME Init, NEW c \in Coupons
               PROVE  /\ Lost(c) = 0
                      /\ With(c, {"insert", "done"}) = 0
                      /\ With(c, {"insert", "done", "failed"}) = 0
    BY CheckoutInit DEF UsesAreAccountedFor
  <2>1. Lost(c) = 0
    BY CheckoutAssumption DEF Init, Lost
  <2>2. \A p \in Purchases : task[p].pc = "new"
    BY DEF Init
  <2>3. /\ {p \in Purchases : task[p].coupon = c /\ task[p].pc \in {"insert", "done"}} = {}
        /\ {p \in Purchases :
              task[p].coupon = c /\ task[p].pc \in {"insert", "done", "failed"}} = {}
    BY <2>2
  <2> QED BY <2>1, <2>3, FS_EmptySet DEF With
<1>2. IInv /\ [Next]_vars => IInv'
  <2> SUFFICES ASSUME IInv, [Next]_vars PROVE UsesAreAccountedFor'
    BY CheckoutNext
  <2>1. ASSUME NEW p \in Purchases, Step(p) PROVE UsesAreAccountedFor'
    BY <2>1, UsesStep
  <2>2. ASSUME UNCHANGED <<task, coupon>> PROVE UsesAreAccountedFor'
    BY <2>2 DEF UsesAreAccountedFor, Lost, With
  <2>3. ASSUME NEW p \in Purchases, StatusMoves(p) PROVE UNCHANGED <<task, coupon>>
    BY <2>3, StatusStep
  <2> QED BY <2>1, <2>2, <2>3 DEF Next, RetrieveTenantsInfo, vars
<1> QED BY <1>1, <1>2, PTL DEF Spec
=============================================================================
