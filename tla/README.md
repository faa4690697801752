# backend-ul in TLA+

backend-ul is the API of a vehicle-information shop: users buy credits through a
payment gateway and spend them on queries about vehicles, which a provider
answers over message queues.  It is a NestJS application on MongoDB that runs as
several processes; every use case is a chain of awaits, so executions interleave
between any two database calls, and what is kept in memory (events, timers) dies
with its process.  This directory models the part where those interleavings
touch money, checks it with TLC and proves its main invariants with TLAPS.

Paths below are relative to the repository's own `src/`.

## 1. Inventory

| Component | State | Operations | What makes it hard | What makes it correct |
|---|---|---|---|---|
| Credit ledger, `data/support/billing` | `billing.accountFunds`, the `balance` rows, the consumption statements | charge, deduct, add, credit a payment, charge back, view | funds and rows are two copies of one amount; some checks run before the transaction; chargeback has none | funds are what the rows say; no amount lost; bounded overdraft |
| Payment synchronisation, `data/support/payment` | the payment document; the charge at the gateway | purchase (card, pix, slip), `payment_updated` webhook, the invoice of an announced payment | webhooks repeat, overlap and overtake the purchase; all three write back whole documents they read long before | PAID only if paid; announced; final states are final |
| Listeners, `presentation/support/listener` | none of their own | six listeners of `PaymentSucceeded`: two write the account, one (`createNfe`) the payment | they run side by side on one account; the event is in memory | a paid payment gets its credits, an unpaid one none; one first order |
| Query request and answer v2, `data/core/query/v2` | the query, the charge and their link | request; answer from the queue | an answer may come before the request has linked the charge, twice, or late | a failed query is refunded, a delivered one is not |
| Query reprocessing, `data/core/query` | query status, results, failed services, service logs | by the provider, replaced, automatic, per service; answers on two queues | the provider is asked before the document is written, and nearly all writes are of what was read | no service is forgotten, none is lost, every reprocessing ends |
| Queries v1 and credit queries, `data/core/query` | the same, and the services' answers | request that calls the services; request that polls, beside the answers on the queue | the poll gives up before the provider does; the result is stored in two writes | the same |
| Coupons, `data/support/payment/apply-coupon` | usage limit | validate, use | the limit and the buyer's uses are read before the use is taken, and it is not given back | limits are kept; no use is lost |
| Cart, prices, tenant, `create-internal-payment`, `payment.helper` | cached totals per tenant | create a payment | the totals are refreshed by a timer and do not count what is unpaid; the cart's price is not compared with what is left | a tenant stays under its ceiling |
| Subscriptions, `data/support/billing` | subscription documents; the subscription at the gateway | webhook, cancel, change card | three copies of one state, written one after the other | what is billed is served, and the other way round |
| My cars, `data/core/product` | the cars and their premium plan | register, upgrade, exclude; alerts | cars are counted and read long before they are written | an excluded car is not billed; one free car |
| Users, rewards, auth, owner reviews, notifications, general | documents of their own | one write per call | little | not modelled: see section 7 |

How they interact: a purchase inserts a payment and asks the gateway for a
charge (HTTP).  The gateway calls the webhook, whose synchronisation writes the
payment and dispatches `PaymentSucceeded` in memory.  The event's listeners credit
the ledger, stamp the account and have an invoice issued, whose id goes into the payment.  A query request charges the ledger, inserts
the query and sends it to the provider's queue; the answer's handler writes the
result, or finds the charge through the consumption statement and charges back.  A
query with failed services is reprocessed by calls that share its document with the
answers.  Before a purchase's payment is inserted its tenant and coupon are chosen.
A premium car is bought with a subscription at the gateway, which the subscription
webhook, cancellations and exclusions bring back to the documents.

The hazards (`PROJECT.json`, "hazards") list, at their lines, the places where an
order of these steps matters.

## 2. Modules

| Module | Models | Extended or used by |
|---|---|---|
| `CreditLedger` | the ledger: one program counter per execution of a use case | `MCCreditLedger`, `CreditLedgerProofs`, `PaymentCredits` |
| `Account` | what the ledger promises: movements that take effect once and whole | `CreditLedger` (refinement), `CreditLedgerProofs` |
| `Chargeback` | what a chargeback promises: who gives a charge back, when, and what is removed after it | `CreditLedger`, `QueryRequest` (refinements) |
| `PaymentSync` | payment documents, charges at the gateway, purchases, webhooks and invoices | `MCPaymentSync`, `PaymentSyncProofs`, `PaymentCredits` |
| `PaymentCredits` | PaymentSync and CreditLedger composed by the event, with the listener that stamps the first order | `MCPaymentCredits`, `PaymentCreditsProofs` |
| `QueryRequest` | a charged query from request to answer | `MCQueryRequest`, `QueryRequestProofs` |
| `QueryReprocess` | a finished query, all that reprocesses it and the answers | `MCQueryReprocess`, `QueryReprocessProofs` |
| `Checkout` | the creation of payments: tenant, coupon, document | `MCCheckout`, `CheckoutProofs` |
| `CarSubscription` | a user's cars, their subscriptions and the gateway's | `MCCarSubscription`, `CarSubscriptionProofs` |

The `MC` modules only give constants and symmetry sets.  Definitions introduced by
a comment starting with "Mutant:" are plausible mistakes in the code; no
specification uses them.  They are substituted for the definition that follows
them, to see that each property would notice.

### CreditLedger

`funds` is `accountFunds` in cents, `rows` the balance collection in `_id` order
(a removed row is not `live`), `items` the consumption statements, and `task[h]`
an execution.  `Charge` and `Deduct` are the checks before the transaction, which
use the funds as they are then.  `BeginTx` is the first part of
`updateUserCredits` in the transaction: the `$inc` takes the write lock of the
billing document (`Locked`), while the last row is read, and a missing opening
row inserted, without the session, so that they take effect at once.  `Commit` makes
the `$inc`, the consumption statement and the new row visible together.  The code
also has three other ends.  `updateUserCredits` returns a `Left` and does not throw, and
`withTransaction` commits what was written until then: the funds and the statement when
the row cannot be inserted (`CommitWithoutRow`), and when already the `$inc` is the `Left`, a
charge's statement alone (`CommitWithoutFunds`, which ends a charge as `"unmoved"`; the other use cases
have written nothing).  `Abort` is a transaction that fails, which the driver may try again.  The chargeback is three separate writes.  `ViewBalance`
and `InsertOpening` are `GET /billing/current-balance`, which inserts a row for a
user without one.  The endpoints' validators let only positive amounts in, hence
`Amounts \subseteq Nat`; a negative movement is a debit or the chargeback of a credit.

### PaymentSync

`doc[p]` keeps the fields that decide anything: the status, `paymentExternalRef`,
`chargeId` and the gateway.  References are abstracted to what they refer to: the
charge, the gateway's own provider, or nothing.  `Insert`, `RequestCharge`,
`ChargeRefused` and `StoreReference` are a purchase, the last being
`insertExternalPaymentId` with the whole inserted document in it.  `Receive`, `Claim`,
`Fetch`, `Write` and `Notify` are a synchronisation; `read` is the document it
holds from `Receive` on.  `Updated` is what `updateBy` does with an update whose
null fields it drops.  An announced synchronisation may start `createNfe`, the third writer of the
document: `ReadForNfe` refuses a payment that is not PAID or has an invoice, and `WriteNfe`, after the
invoice service has answered, writes the whole document as it was read.  Its `nfeId` is the state
`"written"` of `invoice[h]` (`HasNfe`).  `Providers` says whether a fetched charge names the gateway's own provider,
which makes `chargeId` its id.  `ChargeMoves` is the gateway (external): the model assumes
that an unpaid or cancelled charge is never paid.  `Outcomes` restricts it for runs that
look at something else.

### Account

Each use case that can move the funds is a movement: asked for with a user and a
value, then applied whole, or refused.  A debit is `covered`: the funds sufficed when it was
asked for, which is all the code promises (they need not when it is applied).
`CreditLedger` maps `MovementOf(h)` to a movement and its commit, or a chargeback's second
write, to `Apply`; `ImplementsAccount` is the specification of `Account` so instantiated.

### Chargeback

A charge stands until it is struck.  An execution finds one standing charge, gives it back at most once,
strikes it only then, erases its statement after that, and may give up anywhere.  It is what
`chargebackUser` promises whoever calls it; that a charge is given back only
once is not promised, because executions that all found it standing give it back each.
`CreditLedger` maps a balance row to a charge, a chargeback that has found its row to `holding`, and
the movement to `returned`; no other use case removes a row or a statement it has committed.  `QueryRequest` maps
the charge of each query, with `refunds` for `returned`.  The two models describe one piece
of code, `chargeback-user.use-case.ts`, at different depths; implementing one
specification, they agree on all it says of that code.

### PaymentCredits

`INSTANCE`s of the two modules share `Payments`; the ledger's `paid` is the set of documents
that show PAID, and its handlers are the listeners of each synchronisation.
`CountOrders`, `CountFails` and `StampFirstOrder` are the part of `addPartnerIncoming` that
touches the account: a count that fails is taken for 1, a first order.
`StampFirstOrder` sets `funds` to 0, because
`BillingMongoRepository.fromDtoToSchema` turns an absent `accountFundsCents` into 0
and the update keeps a 0.  `stamp` is the payment an account has as its first order.
`createNfe` writes the payment document and is part of `PaymentSync`, so of `PaymentStep`.  The other
three listeners (indicated payment, e-mail marketing, automation) read the payment and write
neither it nor the account.

### QueryRequest

`query`, `row`, `item` and `refunds` are, for each request, the query's status, the
charge's balance row, its consumption statement (`"linked"` once it has the
query's id) and the handlers that gave the charge back; `asked` is what was sent to
the provider.  Requests and answers are handlers with a program counter.  An
answer can be received whenever its query was asked, several times and with any
status.  `route` is how the queries reach the provider, all the same way since
they are of one code: version 2 (`Send`), version 1 (`CallServices`, `StoreStack`, `Store`:
`create-query.use-case.ts`, with no answers on the queue), or credit (`Send`, `Poll`, `Store`, and answers
on the queue too, which `response-credit-query.usecase.ts` handles as
version 2 handles its own).  Only the routes' error paths differ: an error of version 1 and 2 after the
insert marks the query (`MarkFailed`); one of a credit query does so only once it has an answer
(`SendError`, `Poll`).  `"stacked"` is a version 1 query with its services' answers but
no result: pending to the user, and no longer looked at by the duplicate check.  `Crash` is explicit here, because the liveness property has to tell a
dead process from a slow one.  The details of the ledger are left to CreditLedger, which implements the same `Chargeback`: a
charge that succeeds is one step, while the chargeback keeps its four, and any of
them may fail (`ChargebackFails`): the request then ends with that error, while the answer's
handler ignores it and marks the query.  `early` and `broken` are recorded in a task for the
properties only.

### QueryReprocess

One query, of version 1 or 2, whose document is a status, the services it holds data of
(`result`) and those it lists as failed.  `Reprocesses`, `Replaces`, `AutoRequests` and
`Retries` are the calls of the four routes, `Answers` the messages on the queue of the
query's version.  `owes` are the calls whose request the provider or the automatic
reprocessing has accepted and not concluded; `Answer` brings the services `R`
and says whether more will follow (`final`).  Each handler's `copy` is the query
as it read it; `WriteReprocessing`, `Restore`, `SaveQuery` and a version 1 `Save`
write parts of it back.  `Retries` keep the service logs (`log`), whose `busy` refuses a
second call for the service.  `Crash` is explicit, and `late` and `broken` are recorded for the
properties only.

### Checkout

A purchase begins with a buyer, a price and a coupon or none, chooses a tenant from `info` (the
totals of the last `RetrieveTenantsInfo`), reads the coupon, counts the buyer's paid
payments with it, takes a use of it and inserts its document.  `Fail` is every error and
crash on the way.  `StatusMoves` stands for everything in `PaymentSync`: the
status may move back and forth, and `paid` with it as the code sets it: a payment that becomes UNPAID keeps the flag.
`Revenue` is `getAmountSucceededByTenant`, the prices of the documents with the flag, refunded ones
included; the coupon's count goes by the status.  `Open` does not know the price of the cart, as the code's
filter does not.  `stale`, `beside` and `hidden` record what a purchase could not see when it decided.

### CarSubscription

A subscription is at the gateway (`ext`), in its document (`sub`) and in the status of
the car that refers to it (`car[c].of`); each has the name of the call that
creates it.  `Registers` are free registrations, `Purchases` registrations with a card,
`Upgrades` make a car premium, and `Calls` are each a cancellation, an exclusion or a
webhook.  The last three end in `SyncWithExternalSubscriptionHelper`: `SyncSub` or `SkipSub`,
`FindCar`, `SyncCar`.  `GatewayMoves` is the gateway (external); `news` are the
subscriptions whose last change nobody has fetched.  `Fails` is every error and crash.  `spoilt`
records, for the properties, the cars and subscriptions of handlers that wrote what was no longer
true, or stopped half way.

### Proof modules

`SumLemmas` (sums over finite sets), `CreditLedgerProofs` and `CheckoutProofs`, which use it, `PaymentSyncProofs`,
`PaymentCreditsProofs` (which instantiates the lemmas of its two parts),
`QueryRequestProofs`, `QueryReprocessProofs` and `CarSubscriptionProofs`: section 5.

## 3. Runs

| Run | Instance | Question |
|---|---|---|
| `ledger` | 1 user, 4 handlers, 1 payment of 2, amounts 1 and 2, all use cases | how funds, rows and statements relate at every moment, that the funds are those of `Account`, and the removals those of `Chargeback` |
| `ledger_once` | 2 handlers crediting 1 payment | violated: is a payment credited once? |
| `sync` | 1 payment, 3 webhooks and their invoices, every history of the charge | what is shown, announced and allowed to change |
| `sync_regress` | 1 payment, 1 webhook | violated: does a paid payment stay paid? |
| `credits` | 1 user, 2 payments, 2 webhooks, 1 invoice, charges that can only be paid | do paid payments, and only they, get credits, and is one the first order? |
| `credits_funds` | 1 payment, 1 webhook | violated: do the credits stay in the funds? |
| `request` | 1 request on any of the 3 routes, 2 answers | when does a failed query stay charged, or a result come free; is a charge given back as `Chargeback` says? |
| `request_settled` | 2 requests on any of the 3 routes, 1 answer | is every charge tied to its query or given back? |
| `request_twice` | 2 requests | violated: is a duplicate always refused? |
| `reprocess` | 2 services, one call of each route, 2 answers, both versions | what do copies of the query that overtake each other lose? |
| `subscription` | 1 free registration, 1 purchase, 1 upgrade, 2 calls | when do car, document and gateway agree? |
| `checkout` | 3 purchases, 2 buyers, 1 coupon of one use, 2 tenants of ceilings 2 and 1, carts of 2, or 1 with the coupon | by how much are limits passed? |

Why the bounds are enough.  Accounts share nothing, so one user is the interesting
case.  In the ledger the hazards take at most three executions (a movement, and two that
race with it, such as two chargebacks of a charge); four leave room for one more.  Amounts 1
and 2 tell partial from full overdraft.  In the synchronisation two webhooks that
overlap, with one before or after them, and the purchase beside them are every
order of a stale copy against a newer write.  An answer's hazards need one other
answer or its own request; the duplicate check needs two requests.  In `reprocess` a stale
write needs a call and an answer, an overtaken answer two of them; two services make an answer
complete, partial or empty; that two retries overlap is left to the proof of
`BusyIsReleased`.  In `subscription` the two calls are any two of a cancellation, an exclusion
and a webhook, beside an upgrade of a free or a bought car.  In `checkout` a coupon of one use is
passed by the second purchase, and a third overlaps with both; one buyer is registered at
both tenants and one at the second only.  `TwoPrices` ties a cart's price to its coupon: a cart of 2 passes
the ceiling of 1 on its own, and that of 2 after a cart of 1; a cart of 1 passes neither so.  `OneInvoice` lets one `createNfe` of `credits` get as far as the payment, and
`Providers` there is `{FALSE}`, as neither matters to a credit beyond what `sync` explores in full.  Deadlock is not
checked in any run: executions are finite and the system is at rest when they have
ended.

Symmetry is used where only safety is checked.  The `[][...]_vars` properties of
`sync`, `credits`, `reprocess` and `subscription` name no element of the sets that are
permuted, so that a step violates one exactly when its permutations do; `ledger`
checks a refinement and permutes the handlers, whose movements are permuted with them.

### What the passing runs show

- `FundsAreExplained`: under every interleaving the funds are the sum of the live
  rows' movements plus what a chargeback between its writes, a repeated
  chargeback, or a transaction committed without its row has moved.
- `OverdraftIsBounded`: overlapping debits can overdraw an account, by no more than what
  was taken beside any one of them; an account without debits is overdrawn by no more than the
  chargebacks of its credits.
- `DebitRowsKeepTheirItem`, `BareItemsAreUnfinished`: the order of a chargeback's
  removals protects the rows; a bare statement is a chargeback between its removals, a charge committed
  without its row, or a charge whose statement alone was committed.
- `LatestRowShowsFunds`: without chargebacks, half-committed transactions and late
  opening rows, the balance shown is the balance spendable: the billing document's
  lock orders transactions whose row is read outside them.
- `PaidIsBacked`, `PaidIsAnnounced`, `AsksForTheCharge`, `StaysFound`: hold for
  every order of webhooks, purchase and invoices.  `OnlyStaleWritesBreakTheRule`: the transition
  rule of the status is broken only by the very step that writes back an overtaken copy, be it the purchase's, a
  synchronisation's or `createNfe`'s (which can show a refunded payment as PAID).
- `ImplementsAccount`: a use case moves the funds at most once, whole or not at all, and a
  debit only of a user who had enough when it was asked for.
- `ImplementsChargeback` (in `ledger` and in `request`): an execution gives a charge back at most once, and
  removes the row and the statement only afterwards and in that order; nothing else removes them.
- `CreditsComeFromPaidCharges`, `PaidIsCredited`: from the gateway to the rows.  The
  second excludes payments whose document stopped showing PAID (see below).
- `OneFirstOrder`: an account's first order stays it, although the count and the
  stamp are two steps: unpaid payments count, so two first payments make each other
  later ones.  Only a count that fails can stamp a second one.
- `ChargedFailuresAreExplained`, `FreeResultsAreExplained`, `ChargedIsSettled`: the
  only ways to a failed query that stays charged are a crash, a chargeback that failed, an
  answer that is not FAILED (or a result that could not be stored), and a FAILED answer
  that overtook its request.  A result comes free only after a FAILED answer or when its request gave
  up after asking: a poll that timed out, or an error once the query was sent.
- `ReprocessingIsExplained`: a query stays REPROCESSING after its last answer only by a
  stale or failed write or the drop of a last answer that is not complete.  `NoServiceForgotten`: however stale the writes, a service
  is stored or can be asked for again.  `ResultsAreKept`, `SucceededIsStored`: only a stale
  write takes data away.  `BusyIsReleased`: a service log stays busy only when its
  handler died or could not write it.
- `UsesAreAccountedFor`, `OversoldOnlyByOverlap`, `UserLimitOnlyByOverlap`: the limits of
  coupons are exact but for purchases that decided on a stale view, one each.
- `OverfilledByOneCartOrDelay`: the ceiling of a tenant is not exact.  What is left of it is never compared
  with the cart (`payment.helper.ts:118`), so one cart may pass it by nearly its whole price with no delay at all, as
  the cart of 500000 cents does in the test 'Create internal payment' (ceiling 100000).  Beyond that one cart
  the ceiling is passed only by carts charged through the tenant while others of its payments were missing from its total.
- `PremiumFollowsGateway`, `BilledIsLinked`, `ExcludedIsNotBilled`,
  `ExcludedIsNotServed`, `FreeCarIsFirst`: car, document and gateway agree when the handlers
  have ended, except where two overlapped or one failed half way, and except that a second upgrade
  of a car leaves the first subscription billed without a car.

### What the violated runs show

Each states what a test of the repository expects, in an order the test does not try.

- `CreditedOnce` (`add-user-credits.use-case.ts:39`): the row of the payment is
  looked for before the transaction that inserts it.
- `PaidStaysPaid` (`payment.helper.ts:69`): the purchase stores its reference with
  the status it inserted, PENDING, over a PAID a webhook has written.
- `CreditsStayInFunds` (`add-partner-incoming.use-case.ts:88`): stamping the first order
  resets `accountFunds`.
- `NoDuplicateQueries` (`create-query-v2.use-case.ts:198`): the check and the insert are
  two steps.

## 4. Fairness

Only QueryRequest states any.  In the other modules a handler that never moves again
is a crashed one, and every property is about safety.  QueryRequest's
`Spec` has weak fairness of the steps of each handler that has started: an
await is answered or rejected, the event loop runs the continuation, and a process
that dies takes the explicit `Crash`.  A poll ends, with the provider's answer or by its
timeout of 96 seconds (`tetris.service.ts:101`).  Nothing is assumed to make
requests or answers come: the provider may stay silent.

## 5. Proofs

tlapm checks the proofs for any number of users, handlers, payments, webhooks, requests,
services, purchases, coupons, tenants and cars, from the modules' assumptions, which give the
constants their types: `LedgerAssumption`, `PaymentsAssumption`, `CreditsAssumption`,
`RequestAssumption`, `ReprocessAssumption`, `CheckoutAssumption` and `SubscriptionAssumption`.
Handlers of different kinds are different, and some sets are not empty; the ledger's handlers,
the synchronisations and the purchases are finitely many, as their amounts are summed or
they are counted.

- `LedgerTypeOK`: `TypeOK` together with "a chargeback names a row that exists", without which
  removing the row would not preserve the type.
- `DebitRowsTheorem`: `DebitRowsKeepTheirItem` is inductive with two more facts: the statement
  a row names was made by a charge that committed and that made no other row; and a
  chargeback about to remove a statement has deleted its row already.
- `LatestRowTheorem`: `LatestRowShowsFunds` is inductive with what a transaction holds: an
  account has at most one open transaction, and while nothing disturbed the account
  the balance that transaction has read is the account's funds.
- `BareItemsTheorem`: `BareItemsAreUnfinished`, with the charges that ended `"unmoved"`, is inductive with `LedgerTypeOK`'s invariant.
- `AccountTheorem`: the ledger implements `Account`.  Initial states map to initial states;
  of a step of handler `h` only `MovementOf(h)` changes, and for each action it is asked
  for, applied, refused or the same.  The invariant `ViewsOnlyOpen` separates the views,
  which are no movements, from the use cases that insert an opening row on their way.
- `ChargebackTheorem`: the ledger implements `Chargeback`.  `ItemInv`, the invariant of `DebitRowsTheorem`,
  gives what the mapping needs: a chargeback between its writes names a row that exists, and has
  deleted it when it removes the statement, which no other row names.
- `FundsTheorem`: `ExplainedInv` adds to the equation that a chargeback has read the amounts of
  the row it names.  Each step changes at most one summand of one account, by what it adds to
  the funds.
- `OverdraftTheorem`: `OverdraftInv` says that every movement has the sign of its use case and
  that a debit that passed its check is covered by what was ever given to the account; funds
  and what was taken add up to that.
- `SyncTypeOK`, `AsksForTheChargeTheorem`, `StaysFoundTheorem`, `PaidIsBackedTheorem`,
  `PaidIsAnnouncedTheorem`, `TransitionRuleTheorem`: the invariants say
  what the copy held by each synchronisation still has in common with the document (a
  copy that shows PAID is older than an announcement; a reference that was
  stored stays stored; what was fetched as paid had been paid), and the same of the copy of each invoice.
- `CreditsTypeOK`, `CreditsComeFromPaidTheorem`, `PaidIsCreditedTheorem`: `PaymentCreditsProofs`
  instantiates the step lemmas of `PaymentSyncProofs` and `CreditLedgerProofs`, and adds what ties
  the two together: `Backing` (whoever carries a payment in the ledger carries one that was
  paid) and `Following` (a synchronisation's listener works for the payment it announced,
  and ends with its row there, or after the document stopped showing PAID).
- `OneFirstOrderTheorem`: `FirstInv` says that two listeners that counted a first order of one
  account counted the same payment: an announced payment is itself counted, and is never removed.
- `RequestTypeOK`, `FreeResultsTheorem`: `FreeInv` says what a handler's place in its code
  implies (an answer works for a query that was asked, only a FAILED one charges back) and
  that whoever gave a charge back still is the handler of that query.
- `ChargedFailuresTheorem`: `ChargedInv` adds the order of a chargeback's removals and, for
  every query that was marked failed with its row still live, a handler that is excused or a request
  on its way to the chargeback; excuses last.
- `RequestChargebackTheorem`, `EndedIsSettledTheorem`: `ReturnInv` adds that a handler gives back once, on its
  way to the removals, that an answer works on a charge whose request has written the query's
  id, and that a request has its statement until then.  With it each step of `QueryRequest` is
  a step of `Chargeback` or a stutter.  `EndedIsSettled` is a conjunct of it: a request that ended
  has its charge tied to the query, given back, or a chargeback that failed.
- `ReprocessTypeOK`, `NoServiceForgottenTheorem`: `ReprocessInv` says the same of the
  copies handlers hold as of the query (`Fine`, `Knows`): a query of version 1 always, and
  one of version 2 unless it is being reprocessed, stores each service or lists it as failed.
- `ResultsAreKeptTheorem`: `Grounded`, in `ReprocessInv`, says that the result of a version 2
  query, and of each copy and message, is among what the provider has; a write that is not late then
  keeps every service.
- `SucceededIsStoredTheorem`, `ReprocessingIsExplainedTheorem`: `StoredOrComing` and `EndIsComing`
  say that a success that is not stored, or a reprocessing that has not ended, has a handler
  on its way to store or end it, one that is excused, or a call the provider still owes an answer.
- `BusyIsReleasedTheorem`: `BusyIsHeld`, a log is busy only while a retry on its service is at a
  point that will release it, or has broken.
- `CheckoutTypeOK`, `OversoldTheorem`, `UserLimitTheorem`, `OverfilledTheorem`, `UsesTheorem`:
  each compares the sizes, or the cost, of two sets of purchases that a step of one purchase changes by it
  alone.  `UserLimitOnlyByOverlap` and `OverfilledByOneCartOrDelay` are not inductive, because a payment
  may become paid later; `AcceptedOnlyByOverlap` and `ThroughByOneCartOrDelay` count
  the purchases accepted or charged through the tenant, paid or not, and are.  The second is kept by the choice of a tenant whose
  total hides nothing since all that is charged through it then costs less than its ceiling, so that one
  price more stays below the ceiling and that price.
- `SubscriptionTypeOK`, `ExcludedIsNotBilledTheorem`, `ExcludedIsNotServedTheorem`, `FreeCarTheorem`:
  `Inv` says what each handler relies on at each of its steps (`Working`, `Buying`,
  `Registering`) and `ExcludedInv`: the subscription of an excluded car that is not excused
  is over at the gateway and in its document, from where no fresh synchronisation
  brings the car back.
- `BilledIsLinkedTheorem`, `PremiumFollowsGatewayTheorem`: `FollowInv` says that the subscription
  of a car was bought for it (`OwnerInv`), that one at the gateway has its car or a buyer about
  to insert or link it (`Linked`), and of each pair of copies, gateway and document (`FollowsGateway`),
  document and car (`FollowsSub`), that they agree, that one of them is excused, or that a
  handler holding the newer state is about to write it.

The proofs go by lemmas that say, field by field, what an action or a kind of action
does, then one step per action and conjunct.

Sums.  The ledger sums over rows and handlers, and `Checkout` over purchases, with the community modules' folds.  The
library's induction theorems are out of the provers' reach, as they take an operator, but
`WFMin` takes a set: the subsets of the indices for which a claim about sums fails would have a smallest
one, and it has none.  The lemmas so proved (a sum does not depend on the order of its
indices, changing one summand changes the sum by the difference, a sum of no negative number is
not negative, a sum over a subset is no greater when none is negative) are `SumLemmas` and carry the three theorems.

Every invariant and action property of the passing runs is proved.  Only model-checked is
`ChargedIsSettled`: liveness, and the `ENABLED` of its fairness, are not in reach.  What it needs of
safety is `EndedIsSettledTheorem`; that a request which neither dies nor waits for ever ends is left
to TLC.

## 6. Abstractions worth knowing

- Money is an integer number of cents.  `accountFunds` is a float in reais changed by
  `$inc`; drift and `numToCurrency`'s parsing are not modelled.
- `rows` are in insertion order; ObjectIds of processes with different clocks may not be.
- A write whose acknowledgement is lost is modelled where its caller reacts (the charge
  request, the queue, the association) and otherwise as the caller dying after it.
- The rejection of a `tap` is taken to reach the following `catch` of an
  `EitherIO` (the library is not part of the repository); `getById` of no id finds nothing.
- The version 1 queries of partners and of post-paid users are sent to the legacy service and write
  nothing here; they are left out.  In `Poll` the provider may say anything, also what its answers on the queue
  contradict.
- In QueryRequest all requests are of one user, code and vehicle within five minutes; the
  five-minute and one-day windows of the duplicate check never close.
- In QueryReprocess clients use the routes of the query's version.  What `EitherIO.zip` does is
  taken to be sequential, and a version 2 answer to hold all the provider
  has sent before: it replaces the query's result.  The automatic reprocessing is a service of its own and
  is modelled as the code in `src/` uses it.
- In Checkout there is one process, one month and the ABSOLUTE splitting; a cart's price, its discount taken off, is
  any of `Prices`, and what is paid is what it costs.  Status, expiry and minimum value of coupons are `Fail`.
- In CarSubscription the gateway's transitions are those its statuses suggest.  Dates
  (`deactivatedAt`, `nextChargeAt`) are left out, though a `null` date is dropped from updates
  and so stays; `LocalOf` has no case for a closed subscription, as the code has none.  The users who may
  always register a free car (`plan-availability.helper.ts`) are left out.
- `RegisterMyCarUseCase` calls `hasActiveProduct` with the plate and the FIPE id
  in each other's place (`register-my-car.use-case.ts:81` against the repository's
  signature): the check finds nothing, and is modelled so.
- The rewards income that `addPartnerIncoming` inserts after its stamp is left out.

## 7. Not modelled, and plan

Worth doing next, in this order:

1. `QueryLifecycle`: what a charged query promises (it ends as spent or refunded), with
   `QueryRequest` and `QueryReprocess` composed and shown to implement it.
2. The PERCENT splitting of the tenants and the change of month in `Checkout`; its
   composition with `PaymentSync`.

Left out for good: user profile, authentication, owner reviews, the alerts of my cars,
notifications, e-mail, marketing, tracking, feedback, company and general pages (single-document
reads and writes, or messages to other services), the parsers of query results (their content is
data no property looks at), and the rewards wallet, which is in another service.  They
are the larger part of the repository's lines: DTOs, schemas, controllers, presenters and
wiring hold no state whose order matters.
