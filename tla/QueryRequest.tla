---------------------------- MODULE QueryRequest ----------------------------
(***************************************************************************)
(* One charged vehicle query (data/core/query): the request charges the    *)
(* user, rejects a duplicate, inserts the query, brings it to the provider *)
(* and writes the query's id in the consumption statement of the charge.   *)
(* How it reaches the provider is the query's route:                       *)
(*   v2      it is sent to the provider's queue, and the request ends;     *)
(*   v1      the request calls the services and stores what they say;      *)
(*   credit  it is sent to the queue, and the request polls the provider   *)
(*           for at most a minute and a half and stores its answer.        *)
(* On the routes with a queue the provider answers on another one, and a   *)
(* FAILED answer finds the charge through that id and gives it back.       *)
(*                                                                         *)
(* Requests and answers are chains of awaits in API processes and          *)
(* interleave at every step: nothing makes an answer wait until the        *)
(* request it answers has written the id.  The provider may answer a query *)
(* more than once, with any status.                                        *)
(*                                                                         *)
(* All requests are of one user, of one query code, for one vehicle and    *)
(* within the five minutes in which a pending query is a duplicate.  How   *)
(* the funds move is CreditLedger's business: here a charge is a balance   *)
(* row and a consumption statement, and refunds says who gave it back.      *)
(***************************************************************************)
EXTENDS Naturals, FiniteSets

CONSTANTS
    Requests,      \* requests for a query; the query has the request's name
    Answers,       \* answers the provider sends
    Repeats        \* the requests with mayDuplicate

ASSUME RequestAssumption ==
    /\ Repeats \subseteq Requests
    /\ Requests \cap Answers = {}
    /\ Requests # {}

VARIABLES
    route,         \* how the queries reach the provider
    query,         \* the status of each request's query
    row,           \* the balance row of each request's charge
    item,          \* its consumption statement, "linked" once it has the query's id
    refunds,       \* the handlers that gave the charge back
    asked,         \* the queries that were sent to the provider
    task           \* the handlers of requests and answers

vars == <<route, query, row, item, refunds, asked, task>>

Handlers == Requests \cup Answers

Routes == {"v2", "v1", "credit"}

\* "stacked" is pending too, with the services' answers written and the result not.
QueryStatus == {"success", "partial", "pending", "stacked", "failure"}

QueryResponseStatus == {"PENDING", "REPROCESSING", "SUCCESS", "PARTIAL", "FAILED"}

RequestPc == {"charge", "check", "insert", "send", "call", "stack", "poll", "store", "mark",
              "associate"}
AnswerPc == {"receive", "save", "find", "fail"}
ChargebackPc == {"read", "refund", "removeRow", "removeItem"}

\* For the properties a task records that its answer was early, its look-up of the
\* consumption statement coming before the request had written the query's id in
\* it, and that the database failed its chargeback.
Task == [of : Requests, status : QueryResponseStatus, early : BOOLEAN, broken : BOOLEAN,
         pc : RequestPc \cup AnswerPc \cup ChargebackPc \cup {"done", "crashed"}]

TypeOK ==
    /\ route \in Routes
    /\ query \in [Requests -> QueryStatus \cup {"absent"}]
    /\ row \in [Requests -> {"none", "live", "removed"}]
    /\ item \in [Requests -> {"none", "bare", "linked", "removed"}]
    /\ refunds \in [Requests -> SUBSET Handlers]
    /\ asked \subseteq Requests
    /\ task \in [Handlers -> Task]

At(h, pc) == task[h].pc = pc

Goto(h, pc) == task' = [task EXCEPT ![h].pc = pc]

-----------------------------------------------------------------------------
(* The request.                                                            *)

\* chargeUserForQuery succeeds.
Charge(r) ==
    /\ At(r, "charge")
    /\ row' = [row EXCEPT ![r] = "live"]
    /\ item' = [item EXCEPT ![r] = "bare"]
    /\ Goto(r, "check")
    /\ UNCHANGED <<route, query, refunds, asked>>

\* getDuplicatedQuery: a query with a result, or one still being processed as long
\* as no service's answer is written in it.
IsDuplicate(q) == query[q] \in {"success", "partial", "pending"}

\* Mutant: a duplicate ends the request and the charge stays.
KeepDuplicateCharge(r) ==
    /\ At(r, "check")
    /\ Goto(r, IF r \notin Repeats /\ \E q \in Requests : IsDuplicate(q)
               THEN "done" ELSE "insert")
    /\ UNCHANGED <<route, query, row, item, refunds, asked>>

CheckDuplicate(r) ==
    /\ At(r, "check")
    /\ Goto(r, IF r \notin Repeats /\ \E q \in Requests : IsDuplicate(q)
               THEN "read" ELSE "insert")
    /\ UNCHANGED <<route, query, row, item, refunds, asked>>

\* The user is blocked, the query composer is missing or a repository fails.
RejectUser(r) ==
    /\ At(r, "check")
    /\ Goto(r, "read")
    /\ UNCHANGED <<route, query, row, item, refunds, asked>>

\* _newQuery; its log may fail to be inserted after the query was.
Insert(r) ==
    /\ At(r, "insert")
    /\ query' = [query EXCEPT ![r] = "pending"]
    /\ Goto(r, IF route = "v1" THEN "call" ELSE "send") \/ Goto(r, "read")
    /\ UNCHANGED <<route, row, item, refunds, asked>>

\* Only the credit route handles an error after it has an answer: a query whose
\* sending fails there stays pending.
SendError == IF route = "credit" THEN "read" ELSE "mark"

\* The message is in the queue, even when sending it ends with an error.
Send(r) ==
    /\ At(r, "send")
    /\ asked' = asked \cup {r}
    /\ Goto(r, IF route = "credit" THEN "poll" ELSE "associate") \/ Goto(r, SendError)
    /\ UNCHANGED <<route, query, row, item, refunds>>

SendFails(r) ==
    /\ At(r, "send")
    /\ Goto(r, SendError)
    /\ UNCHANGED <<route, query, row, item, refunds, asked>>

\* v1: processServices asks every service, or fails.
CallServices(r) ==
    /\ At(r, "call")
    /\ \/ asked' = asked \cup {r} /\ (Goto(r, "stack") \/ Goto(r, "mark"))
       \/ asked' = asked /\ Goto(r, "mark")
    /\ UNCHANGED <<route, query, row, item, refunds>>

\* v1: the services' answers are written; the query goes on if they show a vehicle.
StoreStack(r) ==
    /\ At(r, "stack")
    /\ query' = [query EXCEPT ![r] = "stacked"]
    /\ Goto(r, "store") \/ Goto(r, "mark")
    /\ UNCHANGED <<route, row, item, refunds, asked>>

StoreStackFails(r) ==
    /\ At(r, "stack")
    /\ Goto(r, "mark")
    /\ UNCHANGED <<route, query, row, item, refunds, asked>>

\* credit: the provider has answered, with SUCCESS or else, or the poll ends with an
\* error: it timed out, and an answer may still come on the queue.
Poll(r) ==
    /\ At(r, "poll")
    /\ Goto(r, "store") \/ Goto(r, "mark") \/ Goto(r, "read")
    /\ UNCHANGED <<route, query, row, item, refunds, asked>>

\* v1 and credit: the result is written by the request itself.
Store(r) ==
    /\ At(r, "store")
    /\ query' = [query EXCEPT ![r] = "success"]
    /\ Goto(r, "associate")
    /\ UNCHANGED <<route, row, item, refunds, asked>>

\* It fails, with or without having written.
StoreFails(r) ==
    /\ At(r, "store")
    /\ query' \in {query, [query EXCEPT ![r] = "success"]}
    /\ Goto(r, "mark")
    /\ UNCHANGED <<route, row, item, refunds, asked>>

\* The catch of the route; the request's own catch comes next, even if this fails.
MarkFailed(r) ==
    /\ At(r, "mark")
    /\ query' \in {query, [query EXCEPT ![r] = "failure"]}
    /\ Goto(r, "read")
    /\ UNCHANGED <<route, row, item, refunds, asked>>

\* associateQueryAndConsumption writes the consumption statement back.
Associate(r) ==
    /\ At(r, "associate")
    /\ item' = [item EXCEPT ![r] = "linked"]
    /\ Goto(r, "done")
    /\ UNCHANGED <<route, query, row, refunds, asked>>

\* It fails, with or without having written; the request's catch charges back.
AssociateFails(r) ==
    /\ At(r, "associate")
    /\ item' \in {item, [item EXCEPT ![r] = "linked"]}
    /\ Goto(r, "read")
    /\ UNCHANGED <<route, query, row, refunds, asked>>

-----------------------------------------------------------------------------
(* The answer.                                                             *)

\* The statuses that bring a result: a credit query has no partial one.
HasResult(s) == s = "SUCCESS" \/ (s = "PARTIAL" /\ route = "v2")

\* Mutant: every answer without a result gives the charge back.
ReactToAny(s) == IF HasResult(s) THEN "save" ELSE "find"

\* Mutant: a FAILED answer only marks the query.
ReactWithoutRefund(s) == IF HasResult(s) THEN "save" ELSE "fail"

\* What an answer's status leads to.
React(s) ==
    CASE HasResult(s) -> "save"
      [] s = "FAILED" -> "find"
      [] OTHER -> "fail"

Receive(m, r, s) ==
    /\ route # "v1"
    /\ At(m, "receive")
    /\ r \in asked
    /\ task' = [task EXCEPT ![m].of = r, ![m].status = s, ![m].pc = React(s)]
    /\ UNCHANGED <<route, query, row, item, refunds, asked>>

\* The query with the result that answer m brings.
Shown(m) ==
    [query EXCEPT ![task[m].of] = IF task[m].status = "SUCCESS" THEN "success" ELSE "partial"]

\* Mutant: a partial result is stored under its name in the queue.
SaveVerbatim(m) ==
    /\ At(m, "save")
    /\ query' = [query EXCEPT ![task[m].of] = task[m].status]
    /\ Goto(m, "done")
    /\ UNCHANGED <<route, row, item, refunds, asked>>

Save(m) ==
    /\ At(m, "save")
    /\ query' = Shown(m)
    /\ Goto(m, "done")
    /\ UNCHANGED <<route, row, item, refunds, asked>>

\* The answer cannot be parsed, or its write fails, with or without having written; the
\* catch below takes over.
SaveFails(m) ==
    /\ At(m, "save")
    /\ query' \in {query, Shown(m)}
    /\ Goto(m, "fail")
    /\ UNCHANGED <<route, row, item, refunds, asked>>

\* _chargebackUser: the consumption statement with the query's id, if any.
FindItem(m) ==
    /\ At(m, "find")
    /\ task' = [task EXCEPT ![m].early = item[task[m].of] = "bare",
                            ![m].pc = IF item[task[m].of] = "linked" THEN "read" ELSE "fail"]
    /\ UNCHANGED <<route, query, row, item, refunds, asked>>

\* The catch of responseQuery marks the query, whatever it showed before.
Fail(m) ==
    /\ At(m, "fail")
    /\ query' = [query EXCEPT ![task[m].of] = "failure"]
    /\ Goto(m, "done")
    /\ UNCHANGED <<route, row, item, refunds, asked>>

-----------------------------------------------------------------------------
(* chargebackUser, called by the request's catch and by a FAILED answer.   *)

After(h) == IF h \in Answers THEN "fail" ELSE "done"

\* Mutant: a charge whose row is gone is given back all the same.
ReadGoneRow(h) ==
    /\ At(h, "read")
    /\ Goto(h, "refund")
    /\ UNCHANGED <<route, query, row, item, refunds, asked>>

ReadRow(h) ==
    /\ At(h, "read")
    /\ Goto(h, IF row[task[h].of] = "live" THEN "refund" ELSE After(h))
    /\ UNCHANGED <<route, query, row, item, refunds, asked>>

Refund(h) ==
    /\ At(h, "refund")
    /\ refunds' = [refunds EXCEPT ![task[h].of] = @ \cup {h}]
    /\ Goto(h, "removeRow")
    /\ UNCHANGED <<route, query, row, item, asked>>

RemoveRow(h) ==
    /\ At(h, "removeRow")
    /\ row' = [row EXCEPT ![task[h].of] = "removed"]
    /\ Goto(h, "removeItem")
    /\ UNCHANGED <<route, query, item, refunds, asked>>

RemoveItem(h) ==
    /\ At(h, "removeItem")
    /\ item' = [item EXCEPT ![task[h].of] = "removed"]
    /\ Goto(h, After(h))
    /\ UNCHANGED <<route, query, row, refunds, asked>>

\* One of its reads or writes fails: the request ends with that error, and the
\* answer's handler, which ignores it, goes on.
ChargebackFails(h) ==
    /\ task[h].pc \in ChargebackPc \cup {"find"}
    /\ task' = [task EXCEPT ![h].broken = TRUE, ![h].pc = After(h)]
    /\ UNCHANGED <<route, query, row, item, refunds, asked>>

\* The process of a handler dies; nothing takes the handler up again.
Crash(h) ==
    /\ task[h].pc \notin {"charge", "receive", "done", "crashed"}
    /\ Goto(h, "crashed")
    /\ UNCHANGED <<route, query, row, item, refunds, asked>>

-----------------------------------------------------------------------------

Init ==
    /\ route \in Routes
    /\ query = [r \in Requests |-> "absent"]
    /\ row = [r \in Requests |-> "none"]
    /\ item = [r \in Requests |-> "none"]
    /\ refunds = [r \in Requests |-> {}]
    /\ asked = {}
    /\ task = [h \in Handlers |->
                  [of |-> IF h \in Requests THEN h ELSE CHOOSE r \in Requests : TRUE,
                   status |-> "PENDING", early |-> FALSE, broken |-> FALSE,
                   pc |-> IF h \in Requests THEN "charge" ELSE "receive"]]

RequestStep(r) ==
    \/ CheckDuplicate(r) \/ RejectUser(r) \/ Insert(r)
    \/ Send(r) \/ SendFails(r) \/ Poll(r)
    \/ CallServices(r) \/ StoreStack(r) \/ StoreStackFails(r)
    \/ Store(r) \/ StoreFails(r) \/ MarkFailed(r)
    \/ Associate(r) \/ AssociateFails(r)

AnswerStep(m) == Save(m) \/ SaveFails(m) \/ FindItem(m) \/ Fail(m)

ChargebackStep(h) ==
    ReadRow(h) \/ Refund(h) \/ RemoveRow(h) \/ RemoveItem(h) \/ ChargebackFails(h)

\* A step of a handler that has started.
Step(h) ==
    \/ h \in Requests /\ RequestStep(h)
    \/ h \in Answers /\ AnswerStep(h)
    \/ ChargebackStep(h)

Next ==
    \/ \E r \in Requests : Charge(r)
    \/ \E m \in Answers, r \in Requests, s \in QueryResponseStatus : Receive(m, r, s)
    \/ \E h \in Handlers : Step(h) \/ Crash(h)

Safe == Init /\ [][Next]_vars

\* A handler that has started goes on until it ends or its process dies: each of
\* its awaits is answered or rejected.  Nothing makes requests or answers come.
Spec == Safe /\ \A h \in Handlers : WF_vars(Step(h))

-----------------------------------------------------------------------------
(* Properties.                                                             *)

AtRest == \A h \in Handlers : task[h].pc \in {"charge", "receive", "done", "crashed"}

\* Why handler h may have left the charge of a failed query as it is: it died, its
\* chargeback failed, its answer is not FAILED, or its answer overtook the request.
Excuses(h) ==
    \/ At(h, "crashed")
    \/ task[h].broken
    \/ h \in Answers /\ ~At(h, "receive") /\ (task[h].status # "FAILED" \/ task[h].early)

(***************************************************************************)
(* A query that shows FAILURE at rest while its charge still stands has a  *)
(* handler with such an excuse: in every other order of requests, answers  *)
(* and overlapping chargebacks the charge is given back.                   *)
(***************************************************************************)
ChargedFailuresAreExplained ==
    AtRest => \A r \in Requests : query[r] = "failure" /\ row[r] = "live" =>
       \E h \in Handlers : task[h].of = r /\ Excuses(h)

(***************************************************************************)
(* A query that shows its result although its charge was given back was    *)
(* given back by a FAILED answer, or by its own request, which failed      *)
(* after the query was sent: no duplicate, late or inconclusive answer     *)
(* makes a query free.                                                     *)
(***************************************************************************)
FreeResultsAreExplained ==
    \A r \in Requests : query[r] \in {"success", "partial"} =>
       \A h \in refunds[r] :
          \/ h = r /\ r \in asked
          \/ h \in Answers /\ task[h].of = r /\ task[h].status = "FAILED"

(***************************************************************************)
(* A request that charged the user ends with the charge tied to a query,   *)
(* so that an answer can give it back, or given back already, unless its   *)
(* process died or its chargeback failed: no error path forgets the charge.*)
(***************************************************************************)
ChargedIsSettled ==
    \A r \in Requests :
       At(r, "check") ~> \/ item[r] \in {"linked", "removed"}
                         \/ refunds[r] # {}
                         \/ At(r, "crashed") \/ task[r].broken

\* Where a chargeback is between the row it found and its end.
Holds(h) == task[h].pc \in {"refund", "removeRow", "removeItem"}

Contract == INSTANCE Chargeback
    WITH Returners <- Handlers,
         standing <- {r \in Requests : row[r] = "live"},
         struck <- {r \in Requests : row[r] = "removed"},
         recorded <- {r \in Requests : item[r] \in {"bare", "linked"}},
         holding <- {<<h, task[h].of>> : h \in {g \in Handlers : Holds(g)}},
         returned <- {x \in Handlers \X Requests : x[1] \in refunds[x[2]]}

(***************************************************************************)
(* The charges of queries keep to Chargeback, as the ledger's rows do: in  *)
(* every order of requests, answers, failures and crashes a handler gives  *)
(* its query's charge back at most once, only if it found it standing, and *)
(* before it removes the charge; the statement through which an answer     *)
(* finds the charge is not removed before it nor written again after it.   *)
(***************************************************************************)
ImplementsChargeback == Contract!Spec

(***************************************************************************)
(* What the test 'should return QueryDuplicatedDomainError if query is     *)
(* duplicated if flag mayDuplicate is false' expects: no two queries of    *)
(* such requests, neither of which failed, for the same vehicle.           *)
(***************************************************************************)
NoDuplicateQueries ==
    Cardinality({r \in Requests \ Repeats : IsDuplicate(r)}) <= 1

=============================================================================
