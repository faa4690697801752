--------------------------- MODULE QueryReprocess ---------------------------
(***************************************************************************)
(* One finished query some of whose services failed, and everything that   *)
(* asks for them again.  A version 2 query is reprocessed by the provider  *)
(* as a whole, on a user's request, with replaced services or by the       *)
(* automatic reprocessing of another service; a version 1 query by that    *)
(* same service, or one failed service at a time by a synchronous call.    *)
(*                                                                         *)
(* The handlers share the query document and nothing orders them: most     *)
(* read it, wait for a queue or a service, and write back what they read.  *)
(* A query is abstracted to its queryStatus, the services whose data it    *)
(* holds (stackResult, responseJson) and its failedServices.               *)
(***************************************************************************)
EXTENDS Naturals, FiniteSets

CONSTANTS
    Services,      \* the services of the query
    Reprocesses,   \* calls of PUT /v2/reprocess/:queryId
    Replaces,      \* calls of PUT /v2/replace/:queryId
    AutoRequests,  \* calls of PUT /v3/reprocess/:queryId
    Retries,       \* calls of PUT /reprocess/:queryId/service-log/:serviceLogId
    Answers        \* answers of the provider to the queue of the query's version

Handlers == Reprocesses \cup Replaces \cup AutoRequests \cup Retries \cup Answers

ASSUME ReprocessAssumption ==
    /\ Services # {}
    /\ Reprocesses \cap (Replaces \cup AutoRequests \cup Retries \cup Answers) = {}
    /\ Replaces \cap (AutoRequests \cup Retries \cup Answers) = {}
    /\ AutoRequests \cap (Retries \cup Answers) = {}
    /\ Retries \cap Answers = {}

VARIABLES
    version,   \* the query's version; clients use the routes of that version
    doc,       \* the query document
    log,       \* the service log of each service, while the query is of version 1
    owes,      \* the calls whose request the provider has accepted and not concluded
    got,       \* the services the provider has data of
    auto,      \* the status of the automatic reprocessing in its own service
    task       \* the handlers

vars == <<version, doc, log, owes, got, auto, task>>

QueryStatus == {"pending", "partial", "success", "reprocessing"}
Doc == [shown : QueryStatus, result : SUBSET Services, failed : SUBSET Services]
Log == [busy : BOOLEAN, ok : BOOLEAN]
AutoStatus == {"none", "PROCCESSING", "SUCCESS", "EXPIRED_TIME"}

CallPc == {"begin", "status", "ask", "cancel", "write", "restore"}
AnswerPc == {"provider", "receive", "save"}
RetryPc == {"check", "mark", "call", "failLog", "saveLog", "saveQuery", "rollback"}

\* What a handler read of the query (copy), the services it brings data of, and
\* whether the provider means to go on (final).  For the properties it records that
\* it wrote what was no longer true (late) and that a step of it failed or its
\* process died (broken).
Task == [copy : Doc, data : SUBSET Services, final : BOOLEAN, late : BOOLEAN, broken : BOOLEAN,
         pc : CallPc \cup AnswerPc \cup RetryPc \cup {"done"}]

TypeOK ==
    /\ version \in {1, 2}
    /\ doc \in Doc
    /\ log \in [Services -> Log]
    /\ owes \subseteq Reprocesses \cup Replaces \cup AutoRequests
    /\ got \subseteq Services
    /\ auto \in AutoStatus
    /\ task \in [Handlers -> Task]

At(h, pc) == task[h].pc = pc

\* What a handler read and was told is gone when it has ended, but for the service
\* of a Retry, which the properties name.
NoCopy == [shown |-> "pending", result |-> {}, failed |-> {}]

Ended(h) == [task[h] EXCEPT !.copy = NoCopy, !.final = FALSE,
                            !.data = IF h \in Retries THEN @ ELSE {}]

Move(h, pc) == [IF pc = "done" THEN Ended(h) ELSE task[h] EXCEPT !.pc = pc]

Goto(h, pc) == task' = [task EXCEPT ![h] = Move(h, pc)]

Break(h, pc) == task' = [task EXCEPT ![h] = [Move(h, pc) EXCEPT !.broken = TRUE]]

\* Handler h writes the query, late or not, and ends.
WriteDoc(h, d, isLate) ==
    /\ doc' = d
    /\ task' = [task EXCEPT ![h] = [Move(h, "done") EXCEPT !.late = isLate]]

-----------------------------------------------------------------------------
(* ReprocessQueryUseCase.                                                  *)

BeginReprocess(h) ==
    /\ At(h, "begin") /\ version = 2
    /\ task' = [task EXCEPT ![h].copy = doc,
                            ![h].pc = IF doc.failed # {} /\ doc.shown # "reprocessing"
                                      THEN "ask" ELSE "restore"]
    /\ UNCHANGED <<version, doc, log, owes, got, auto>>

\* The message is in the queue, even when sending it ends with an error.
AskReprocess(h) ==
    /\ At(h, "ask")
    /\ owes' = owes \cup {h}
    /\ Goto(h, "cancel") \/ Goto(h, "restore")
    /\ UNCHANGED <<version, doc, log, got, auto>>

AskReprocessFails(h) ==
    /\ At(h, "ask")
    /\ Goto(h, "restore")
    /\ UNCHANGED <<version, doc, log, owes, got, auto>>

\* cancelReprocess deletes the automatic reprocessing of the query, if any.
Cancel(h, pc) ==
    /\ At(h, "cancel")
    /\ owes' = owes \ AutoRequests
    /\ auto' = "none"
    /\ Goto(h, pc)
    /\ UNCHANGED <<version, doc, log, got>>

CancelFails(h, pc) ==
    /\ At(h, "cancel")
    /\ Goto(h, pc)
    /\ UNCHANGED <<version, doc, log, owes, got, auto>>

\* Mutant: the status is left as it was read.
WriteReprocessingAsRead(h) ==
    /\ At(h, "write")
    /\ WriteDoc(h, [task[h].copy EXCEPT !.failed = {}],
                task[h].copy # doc \/ h \notin owes)
    /\ UNCHANGED <<version, log, owes, got, auto>>

\* The document as it was read is written back, with no failed services.
WriteReprocessing(h) ==
    /\ At(h, "write")
    /\ WriteDoc(h, [task[h].copy EXCEPT !.shown = "reprocessing", !.failed = {}],
                task[h].copy # doc \/ h \notin owes)
    /\ UNCHANGED <<version, log, owes, got, auto>>

WriteReprocessingFails(h) ==
    /\ At(h, "write")
    /\ Break(h, "restore")
    /\ UNCHANGED <<version, doc, log, owes, got, auto>>

\* The catch, which also follows a refused call, writes the document back as read.
Restore(h) ==
    /\ At(h, "restore")
    /\ \/ WriteDoc(h, task[h].copy, task[h].copy # doc)
       \/ Goto(h, "done") /\ UNCHANGED doc
    /\ UNCHANGED <<version, log, owes, got, auto>>

-----------------------------------------------------------------------------
(* ReplaceFailedServicesUseCase: the query itself is not written.          *)

BeginReplace(h) ==
    /\ At(h, "begin") /\ version = 2
    /\ Goto(h, "cancel") \/ Goto(h, "done")
    /\ UNCHANGED <<version, doc, log, owes, got, auto>>

AskReplace(h) ==
    /\ At(h, "ask")
    /\ owes' = owes \cup {h}
    /\ Goto(h, "done")
    /\ UNCHANGED <<version, doc, log, got, auto>>

\* The error of the queue is swallowed, after the cancellation.
AskReplaceFails(h) ==
    /\ At(h, "ask")
    /\ Break(h, "done")
    /\ UNCHANGED <<version, doc, log, owes, got, auto>>

-----------------------------------------------------------------------------
(* ResquestAutoReprocessQueryUseCase.                                      *)

BeginAuto(h) ==
    /\ At(h, "begin")
    /\ Goto(h, "status")
    /\ UNCHANGED <<version, doc, log, owes, got, auto>>

\* getByQueryId gives null when it fails, which both filters let through.
AskedBefore(h) ==
    /\ At(h, "status")
    /\ \/ Goto(h, IF auto \in {"PROCCESSING", "SUCCESS"} THEN "done" ELSE "ask")
       \/ Goto(h, "ask")
    /\ UNCHANGED <<version, doc, log, owes, got, auto>>

AskAuto(h) ==
    /\ At(h, "ask")
    /\ owes' = owes \cup {h}
    /\ auto' = "PROCCESSING"
    /\ Goto(h, "write")
    /\ UNCHANGED <<version, doc, log, got>>

AskAutoFails(h) ==
    /\ At(h, "ask")
    /\ Goto(h, "done")
    /\ UNCHANGED <<version, doc, log, owes, got, auto>>

\* _setStatusQuery writes queryStatus and nothing else.
WriteAuto(h) ==
    /\ At(h, "write")
    /\ \/ WriteDoc(h, [doc EXCEPT !.shown = "reprocessing"], h \notin owes)
       \/ Goto(h, "done") /\ UNCHANGED doc
    /\ UNCHANGED <<version, log, owes, got, auto>>

-----------------------------------------------------------------------------
(* The provider, and the automatic reprocessing, which answers on the      *)
(* queue of the query's version: with the services of R and, when final,   *)
(* for good.                                                               *)

Answer(m, R, final) ==
    /\ At(m, "provider")
    /\ owes # {}
    /\ version = 2 => got \subseteq R
    /\ got' = got \cup R
    /\ owes' = IF final THEN {} ELSE owes
    /\ auto' = IF final /\ auto = "PROCCESSING"
               THEN IF got' = Services THEN "SUCCESS" ELSE "EXPIRED_TIME"
               ELSE auto
    /\ task' = [task EXCEPT ![m].data = R, ![m].final = final, ![m].pc = "receive"]
    /\ UNCHANGED <<version, doc, log>>

\* ResponseReprocessQueryV2UseCase drops an answer that is neither complete nor
\* followed by another one; saveLegacyQuery reads the query.
Receive(m) ==
    /\ At(m, "receive")
    /\ \/ version = 2 /\ task[m].final /\ task[m].data # Services /\ Break(m, "done")
       \/ /\ version = 2 => ~task[m].final \/ task[m].data = Services
          /\ task' = [task EXCEPT ![m].copy = doc, ![m].pc = "save"]
    /\ UNCHANGED <<version, doc, log, owes, got, auto>>

\* Mutant: the status of the answer is stored as it is.
ShownVerbatim(m) == IF task[m].final THEN "SUCCESS" ELSE "PROCCESSING"

\* Mutant: only a complete answer ends the reprocessing.
ShownUntilSuccess(m) ==
    IF task[m].final /\ task[m].data = Services THEN "success" ELSE "reprocessing"

\* _getQueryStatus and _updateQuery.
ShownAfter(m) == IF task[m].final THEN "success" ELSE "reprocessing"

\* Mutant: the services of the answer replace those of the query.
ReplaceResults(m) ==
    [shown |-> ShownAfter(m), result |-> task[m].data,
     failed |-> IF version = 2 THEN Services \ task[m].data
                ELSE task[m].copy.failed \ task[m].data]

\* A version 2 answer holds the whole query; a version 1 answer is merged into
\* the query as it was read.
Merged(m) ==
    IF version = 2
    THEN [shown |-> ShownAfter(m), result |-> task[m].data, failed |-> Services \ task[m].data]
    ELSE [shown |-> ShownAfter(m), result |-> task[m].copy.result \cup task[m].data,
          failed |-> task[m].copy.failed \ task[m].data]

\* An answer is late when a later one has overtaken it.
Save(m) ==
    /\ At(m, "save")
    /\ WriteDoc(m, Merged(m),
                \/ version = 2 /\ task[m].data # got
                \/ version = 1 /\ task[m].copy # doc
                \/ ~task[m].final /\ owes = {})
    /\ UNCHANGED <<version, log, owes, got, auto>>

SaveFails(m) ==
    /\ At(m, "save")
    /\ Break(m, "done")
    /\ UNCHANGED <<version, doc, log, owes, got, auto>>

-----------------------------------------------------------------------------
(* ReprocessFailedServiceUseCase: task[h].data is the one service it is    *)
(* asked for.                                                              *)

BeginRetry(h, s) ==
    /\ At(h, "begin") /\ version = 1
    /\ s \in doc.failed
    /\ task' = [task EXCEPT ![h].copy = doc, ![h].data = {s},
                            ![h].pc = "check"]
    /\ UNCHANGED <<version, doc, log, owes, got, auto>>

Target(h) == CHOOSE s \in Services : task[h].data = {s}

\* _getValidServiceLog: the log is read here and marked in the next step.
CheckLog(h) ==
    /\ At(h, "check")
    /\ Goto(h, IF log[Target(h)].busy THEN "done" ELSE "mark")
    /\ UNCHANGED <<version, doc, log, owes, got, auto>>

MarkLog(h) ==
    /\ At(h, "mark")
    /\ log' = [log EXCEPT ![Target(h)].busy = TRUE]
    /\ Goto(h, "call")
    /\ UNCHANGED <<version, doc, owes, got, auto>>

\* Mutant: nothing is rolled back when the provider is unavailable.
CallWithoutRollback(h) ==
    /\ At(h, "call")
    /\ \E pc \in {"saveLog", "failLog", "done"} : Goto(h, pc)
    /\ UNCHANGED <<version, doc, log, owes, got, auto>>

\* processServices succeeds, fails or is unavailable.
CallProvider(h) ==
    /\ At(h, "call")
    /\ \E pc \in {"saveLog", "failLog", "rollback"} : Goto(h, pc)
    /\ UNCHANGED <<version, doc, log, owes, got, auto>>

FailLog(h) ==
    /\ At(h, "failLog")
    /\ log' = [log EXCEPT ![Target(h)] = [busy |-> FALSE, ok |-> FALSE]]
    /\ Goto(h, "done")
    /\ UNCHANGED <<version, doc, owes, got, auto>>

SaveLog(h) ==
    /\ At(h, "saveLog")
    /\ log' = [log EXCEPT ![Target(h)] = [busy |-> FALSE, ok |-> TRUE]]
    /\ Goto(h, "saveQuery")
    /\ UNCHANGED <<version, doc, owes, got, auto>>

\* Mutant: the service's data is not added to the query's.
SaveFailedOnly(h) ==
    /\ At(h, "saveQuery")
    /\ WriteDoc(h, [doc EXCEPT !.failed = task[h].copy.failed \ task[h].data],
                task[h].copy # doc)
    /\ UNCHANGED <<version, log, owes, got, auto>>

\* _updateQueryWithSuccessfulServiceLog, from the query as it was read.
SaveQuery(h) ==
    /\ At(h, "saveQuery")
    /\ WriteDoc(h, [doc EXCEPT !.failed = task[h].copy.failed \ task[h].data,
                               !.result = task[h].copy.result \cup task[h].data],
                task[h].copy # doc)
    /\ UNCHANGED <<version, log, owes, got, auto>>

\* Any of these writes fails and the catch takes over.
RetryFails(h) ==
    /\ task[h].pc \in {"failLog", "saveLog", "saveQuery"}
    /\ Break(h, "rollback")
    /\ UNCHANGED <<version, doc, log, owes, got, auto>>

\* _rollbackServiceReprocessing, which may fail too.
Rollback(h) ==
    /\ At(h, "rollback")
    /\ \/ /\ log' = [log EXCEPT ![Target(h)].busy = FALSE]
          /\ Goto(h, "done")
       \/ Break(h, "done") /\ UNCHANGED log
    /\ UNCHANGED <<version, doc, owes, got, auto>>

-----------------------------------------------------------------------------

\* The process of a handler dies; nothing takes the handler up again.
Crash(h) ==
    /\ task[h].pc \notin {"begin", "provider", "done"}
    /\ Break(h, "done")
    /\ UNCHANGED <<version, doc, log, owes, got, auto>>

\* A version 1 query is created without a queryStatus, which reads as pending.
Init ==
    /\ version \in {1, 2}
    /\ \E F \in SUBSET Services \ {{}} :
          doc = [shown |-> IF version = 1 THEN "pending" ELSE "partial",
                 result |-> Services \ F, failed |-> F]
    /\ log = [s \in Services |-> [busy |-> FALSE, ok |-> s \in doc.result]]
    /\ owes = {}
    /\ got = doc.result
    /\ auto = "none"
    /\ task = [h \in Handlers |->
                  [copy |-> NoCopy, data |-> {}, final |-> FALSE, late |-> FALSE, broken |-> FALSE,
                   pc |-> IF h \in Answers THEN "provider" ELSE "begin"]]

ReprocessStep(h) ==
    \/ AskReprocess(h) \/ AskReprocessFails(h) \/ Cancel(h, "write") \/ CancelFails(h, "restore")
    \/ WriteReprocessing(h) \/ WriteReprocessingFails(h) \/ Restore(h)

ReplaceStep(h) ==
    Cancel(h, "ask") \/ CancelFails(h, "done") \/ AskReplace(h) \/ AskReplaceFails(h)

AutoStep(h) == AskedBefore(h) \/ AskAuto(h) \/ AskAutoFails(h) \/ WriteAuto(h)

AnswerStep(m) == Receive(m) \/ Save(m) \/ SaveFails(m)

RetryStep(h) ==
    \/ CheckLog(h) \/ MarkLog(h) \/ CallProvider(h) \/ FailLog(h) \/ SaveLog(h)
    \/ SaveQuery(h) \/ RetryFails(h) \/ Rollback(h)

\* A step of a handler that has started.
Step(h) ==
    \/ h \in Reprocesses /\ ReprocessStep(h)
    \/ h \in Replaces /\ ReplaceStep(h)
    \/ h \in AutoRequests /\ AutoStep(h)
    \/ h \in Retries /\ RetryStep(h)
    \/ h \in Answers /\ AnswerStep(h)

Start ==
    \/ \E h \in Reprocesses : BeginReprocess(h)
    \/ \E h \in Replaces : BeginReplace(h)
    \/ \E h \in AutoRequests : BeginAuto(h)
    \/ \E h \in Retries, s \in Services : BeginRetry(h, s)
    \/ \E m \in Answers, R \in SUBSET Services, final \in BOOLEAN : Answer(m, R, final)

Next == Start \/ \E h \in Handlers : Step(h) \/ Crash(h)

Spec == Init /\ [][Next]_vars

-----------------------------------------------------------------------------
(* Properties.                                                             *)

AtRest == \A h \in Handlers : task[h].pc \in {"begin", "provider", "done"}

\* Why what handler h should have done may be missing, or undone.
Excuses(h) == task[h].late \/ task[h].broken

(***************************************************************************)
(* A query that shows REPROCESSING at rest, when nobody owes it an answer  *)
(* any more, was left so by a handler that wrote a stale query or an       *)
(* overtaken answer, whose step failed or whose process died, or by the    *)
(* drop of a last answer that is not complete: no other order of requests, *)
(* cancellations and answers loses the end of a reprocessing.              *)
(***************************************************************************)
ReprocessingIsExplained ==
    AtRest /\ owes = {} /\ doc.shown = "reprocessing" => \E h \in Handlers : Excuses(h)

(***************************************************************************)
(* A query that is not being reprocessed holds the data of each service or *)
(* lists the service as failed, however stale the writes: a user can ask   *)
(* for every missing service again.                                        *)
(***************************************************************************)
NoServiceForgotten ==
    doc.shown # "reprocessing" => doc.result \cup doc.failed = Services

(***************************************************************************)
(* The data of a service leaves the query only when a stale copy or an     *)
(* overtaken answer is written: asking again for the failed services never *)
(* costs the ones the user has paid and seen.                              *)
(***************************************************************************)
ResultsAreKept ==
    [][doc.result \subseteq doc'.result
       \/ \E h \in Handlers : doc' # doc /\ task'[h].late /\ task'[h].pc # task[h].pc]_vars

(***************************************************************************)
(* A service whose log says it succeeded is in the query at rest, unless   *)
(* somebody wrote a stale query or failed between the two writes.          *)
(***************************************************************************)
SucceededIsStored ==
    AtRest /\ version = 1 =>
       \A s \in Services : log[s].ok => s \in doc.result \/ \E h \in Handlers : Excuses(h)

(***************************************************************************)
(* A service log marked as reprocessing, which refuses every other call    *)
(* for the service, is released when its handlers have ended, unless one   *)
(* of them died or could not write the log: every way out of the call to   *)
(* the provider releases it, also when two calls overlap.                  *)
(***************************************************************************)
BusyIsReleased ==
    AtRest => \A s \in Services : log[s].busy =>
       \E h \in Retries : task[h].data = {s} /\ task[h].broken

=============================================================================
