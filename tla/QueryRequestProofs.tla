------------------------- MODULE QueryRequestProofs -------------------------
(***************************************************************************)
(* The invariants of QueryRequest, for any number of requests and answers. *)
(*                                                                         *)
(* FreeInv says what a handler's place in its code implies, and who gave a *)
(* charge back; it is inductive and implies FreeResultsAreExplained.       *)
(* ChargedInv adds what a chargeback finds and leaves, and that whoever    *)
(* marks a query failed has given the charge back, will, or is excused; it *)
(* implies ChargedFailuresAreExplained.  ReturnInv adds the order in which *)
(* a handler gives back and removes; with it the query's charge and its    *)
(* chargebacks implement Chargeback.                                       *)
(***************************************************************************)
EXTENDS QueryRequest, TLAPS

\* Where a request has brought its query to the provider and has no end yet.
AtProvider == {"poll", "stack", "store"}

\* A query is answered only after its request has passed the charge, and only a
\* FAILED answer gets to the chargeback.
TasksFit ==
    /\ \A r \in Requests :
          /\ task[r].of = r
          /\ At(r, "charge") => query[r] = "absent" /\ r \notin asked
          /\ task[r].pc \in AtProvider => r \in asked
    /\ \A m \in Answers :
          /\ ~At(m, "receive") => task[m].of \in asked
          /\ At(m, "save") => task[m].status # "FAILED"
          /\ task[m].pc \in ChargebackPc \cup {"find"} => task[m].status = "FAILED"

ResultsAreAnswers ==
    \A r \in Requests : query[r] \in {"success", "partial"} => r \in asked

RefundersFit ==
    \A r \in Requests : \A h \in refunds[r] :
       /\ task[h].of = r /\ ~At(h, "receive")
       /\ h \in Answers => task[h].status = "FAILED"

FreeInv == TypeOK /\ TasksFit /\ ResultsAreAnswers /\ RefundersFit

\* A charge that started has its consumption statement, which leaves after the row.
ChargesStart ==
    \A r \in Requests :
       /\ item[r] = "none" <=> At(r, "charge")
       /\ item[r] = "removed" => row[r] = "removed"

\* A chargeback about to remove the statement has removed the row, and an answer that
\* is about to mark the query, or has, is excused or left no live row.
ChargebacksEnd ==
    /\ \A h \in Handlers : At(h, "removeItem") => row[task[h].of] = "removed"
    /\ \A m \in Answers :
          /\ task[m].pc \in {"receive", "find"} => ~task[m].early
          /\ At(m, "receive") => ~task[m].broken
          /\ task[m].pc \in {"fail", "done"} => Excuses(m) \/ row[task[m].of] # "live"

\* What will become of the charge of a failed query is known.
FailuresHaveACause ==
    \A r \in Requests : query[r] = "failure" /\ row[r] = "live" =>
       \E h \in Handlers :
          /\ task[h].of = r
          /\ Excuses(h) \/ (h \in Requests /\ task[h].pc \in ChargebackPc)

ChargedInv == FreeInv /\ ChargesStart /\ ChargebacksEnd /\ FailuresHaveACause

-----------------------------------------------------------------------------
(* What the steps do to the tasks.                                         *)

\* Handler h goes to pc and the other handlers stay as they are.
Moves(h, pc) ==
    /\ task' \in [Handlers -> Task]
    /\ \A k \in Handlers : k # h => task'[k] = task[k]
    /\ task'[h].pc = pc

\* All else h knows stays.
Keeps(h) ==
    /\ task'[h].of = task[h].of
    /\ task'[h].status = task[h].status
    /\ task'[h].early = task[h].early
    /\ task'[h].broken = task[h].broken

Pcs == RequestPc \cup AnswerPc \cup ChargebackPc \cup {"done", "crashed"}

(* Goto changes nothing but the place of its handler.                      *)
LEMMA GotoFields ==
    ASSUME TypeOK, NEW h \in Handlers, NEW pc \in Pcs, Goto(h, pc)
    PROVE  Moves(h, pc) /\ Keeps(h)
<1>1. task \in [Handlers -> Task] /\ task[h] \in Task
  BY DEF TypeOK
<1>2. [task[h] EXCEPT !.pc = pc] \in Task
  BY <1>1 DEF Task, Pcs
<1>3. task' = [task EXCEPT ![h] = [task[h] EXCEPT !.pc = pc]]
  BY <1>1 DEF Goto
<1>4. task'[h] = [task[h] EXCEPT !.pc = pc]
  BY <1>1, <1>3
<1>5. Keeps(h) /\ task'[h].pc = pc
  BY <1>1, <1>4 DEF Keeps, Task
<1> QED  BY <1>1, <1>2, <1>3, <1>5 DEF Moves

(* An answer is received for a query.                                      *)
LEMMA ReceiveFields ==
    ASSUME TypeOK, NEW m \in Answers, NEW r \in Requests, NEW s \in QueryResponseStatus,
           Receive(m, r, s)
    PROVE  /\ Moves(m, React(s))
           /\ task'[m].of = r /\ task'[m].status = s
           /\ task'[m].early = task[m].early /\ task'[m].broken = task[m].broken
<1> DEFINE t == [task[m] EXCEPT !.of = r, !.status = s, !.pc = React(s)]
<1>1. m \in Handlers /\ task \in [Handlers -> Task] /\ task[m] \in Task
  BY DEF TypeOK, Handlers
<1>2. React(s) \in {"save", "find", "fail"}
  BY DEF React, HasResult
<1>3. t \in Task
  BY <1>1, <1>2 DEF Task, AnswerPc
<1>4. task' = [task EXCEPT ![m] = t]
  BY <1>1 DEF Receive
<1>5. task'[m] = t
  BY <1>1, <1>4
<1>6. /\ t.of = r /\ t.status = s /\ t.pc = React(s)
      /\ t.early = task[m].early /\ t.broken = task[m].broken
  BY <1>1 DEF Task
<1>7. task' \in [Handlers -> Task] /\ \A k \in Handlers : k # m => task'[k] = task[k]
  BY <1>1, <1>3, <1>4
<1> QED  BY <1>5, <1>6, <1>7 DEF Moves

(* A FAILED answer finds the consumption statement, or notes that it was early. *)
LEMMA FindItemFields ==
    ASSUME TypeOK, NEW m \in Answers, FindItem(m)
    PROVE  /\ Moves(m, IF item[task[m].of] = "linked" THEN "read" ELSE "fail")
           /\ task'[m].of = task[m].of /\ task'[m].status = task[m].status
           /\ task'[m].early = (item[task[m].of] = "bare")
           /\ task'[m].broken = task[m].broken
<1> DEFINE pc == IF item[task[m].of] = "linked" THEN "read" ELSE "fail"
           t == [task[m] EXCEPT !.early = item[task[m].of] = "bare", !.pc = pc]
<1>1. m \in Handlers /\ task \in [Handlers -> Task] /\ task[m] \in Task
  BY DEF TypeOK, Handlers
<1>2. pc \in Pcs /\ (item[task[m].of] = "bare") \in BOOLEAN
  BY DEF Pcs, ChargebackPc, AnswerPc
<1>3. t \in Task
  BY <1>1, <1>2 DEF Task, Pcs
<1>4. task' = [task EXCEPT ![m] = t]
  BY <1>1 DEF FindItem
<1>5. task'[m] = t
  BY <1>1, <1>4
<1>6. /\ t.of = task[m].of /\ t.status = task[m].status /\ t.pc = pc
      /\ t.early = (item[task[m].of] = "bare") /\ t.broken = task[m].broken
  BY <1>1 DEF Task
<1>7. task' \in [Handlers -> Task] /\ \A k \in Handlers : k # m => task'[k] = task[k]
  BY <1>1, <1>3, <1>4
<1> HIDE DEF t
<1> QED  BY <1>5, <1>6, <1>7 DEF Moves

(* A chargeback that fails is recorded.                                    *)
LEMMA ChargebackFailsFields ==
    ASSUME TypeOK, NEW h \in Handlers, ChargebackFails(h)
    PROVE  /\ Moves(h, After(h))
           /\ task'[h].of = task[h].of /\ task'[h].status = task[h].status
           /\ task'[h].early = task[h].early /\ task'[h].broken = TRUE
<1> DEFINE t == [task[h] EXCEPT !.broken = TRUE, !.pc = After(h)]
<1>1. task \in [Handlers -> Task] /\ task[h] \in Task
  BY DEF TypeOK
<1>2. After(h) \in {"fail", "done"}
  BY DEF After
<1>3. t \in Task
  BY <1>1, <1>2 DEF Task, AnswerPc
<1>4. task' = [task EXCEPT ![h] = t]
  BY <1>1 DEF ChargebackFails
<1>5. task'[h] = t
  BY <1>1, <1>4
<1>6. /\ t.of = task[h].of /\ t.status = task[h].status /\ t.pc = After(h)
      /\ t.early = task[h].early /\ t.broken = TRUE
  BY <1>1 DEF Task
<1>7. task' \in [Handlers -> Task] /\ \A k \in Handlers : k # h => task'[k] = task[k]
  BY <1>1, <1>3, <1>4
<1> QED  BY <1>5, <1>6, <1>7 DEF Moves

-----------------------------------------------------------------------------
(* FreeInv.                                                                *)

\* A handler that has started goes on to pc: it stays with its query, adds no
\* answer before the request, and is in a chargeback by right.
Started(h, pc) ==
    /\ ~At(h, "receive")
    /\ Moves(h, pc)
    /\ pc \notin {"charge", "receive", "save", "find"}
    /\ pc \in AtProvider => h \in asked'
    /\ task'[h].of = task[h].of /\ task'[h].status = task[h].status
    /\ h \in Answers /\ pc \in ChargebackPc => task[h].status = "FAILED"
    /\ asked' \in {asked, asked \cup ({h} \cap Requests)}
    /\ \A r \in Requests : r # task[h].of => query'[r] = query[r]

(* The steps of a request's own code are such steps ...                    *)
LEMMA RequestStarts ==
    ASSUME FreeInv, NEW r \in Requests, Charge(r) \/ RequestStep(r)
    PROVE  \E pc \in Pcs : Started(r, pc)
<1>0. TypeOK /\ TasksFit /\ r \in Handlers /\ task[r].of = r /\ r \notin Answers
  BY RequestAssumption DEF FreeInv, TasksFit, Handlers
<1> DEFINE places == RequestPc \cup {"read", "done"}
<1>1. PICK pc \in places \ {"charge"} :
         /\ Goto(r, pc) /\ ~At(r, "receive")
         /\ pc \in AtProvider => r \in asked'
  BY <1>0 DEF TasksFit, AtProvider, RequestStep, Charge, CheckDuplicate, RejectUser, Insert,
     Send, SendFails, CallServices, StoreStack, StoreStackFails, Poll, Store, StoreFails,
     SendError, MarkFailed, Associate, AssociateFails, At, RequestPc
<1>2. pc \in Pcs /\ pc \notin {"charge", "receive", "save", "find"}
  BY <1>1 DEF Pcs, RequestPc, ChargebackPc
<1>3. Moves(r, pc) /\ Keeps(r)
  BY <1>0, <1>1, <1>2, GotoFields
<1>4. asked' \in {asked, asked \cup {r}}
  BY DEF RequestStep, Charge, CheckDuplicate, RejectUser, Insert, Send, SendFails,
     CallServices, StoreStack, StoreStackFails, Poll, Store, StoreFails, SendError, MarkFailed,
     Associate, AssociateFails
<1>5. \A q \in Requests : q # r => query'[q] = query[q]
  BY <1>0 DEF RequestStep, Charge, CheckDuplicate, RejectUser, Insert, Send, SendFails,
     CallServices, StoreStack, StoreStackFails, Poll, Store, StoreFails, SendError, MarkFailed,
     Associate, AssociateFails, TypeOK
<1> QED  BY <1>0, <1>1, <1>2, <1>3, <1>4, <1>5 DEF Started, Keeps

(* ... and so are those of an answer that was received ...                 *)
LEMMA AnswerStarts ==
    ASSUME FreeInv, NEW m \in Answers, AnswerStep(m)
    PROVE  \E pc \in Pcs : Started(m, pc)
<1>0. TypeOK /\ TasksFit /\ m \in Handlers /\ task[m].of \in Requests
  BY DEF FreeInv, TypeOK, Task, Handlers
<1>1. asked' = asked /\ \A q \in Requests : q # task[m].of => query'[q] = query[q]
  BY <1>0 DEF AnswerStep, Save, Shown, SaveFails, FindItem, Fail, TypeOK
<1>2. CASE Save(m) \/ SaveFails(m) \/ Fail(m)
  <2>1. PICK pc \in {"fail", "done"} : Goto(m, pc) /\ ~At(m, "receive")
    BY <1>2 DEF Save, Shown, SaveFails, Fail, At
  <2>2. pc \in Pcs /\ pc \notin ChargebackPc
    BY <2>1 DEF Pcs, AnswerPc, ChargebackPc
  <2>3. Moves(m, pc) /\ Keeps(m)
    BY <1>0, <2>1, <2>2, GotoFields
  <2> QED  BY <1>1, <2>1, <2>2, <2>3 DEF Started, AtProvider, Keeps
<1>3. CASE FindItem(m)
  <2>1. PICK pc \in {"read", "fail"} :
           pc = IF item[task[m].of] = "linked" THEN "read" ELSE "fail"
    OBVIOUS
  <2>2. pc \in Pcs
    BY <2>1 DEF Pcs, AnswerPc, ChargebackPc
  <2>3. task[m].status = "FAILED" /\ ~At(m, "receive")
    BY <1>0, <1>3 DEF FindItem, TasksFit, At
  <2> QED  BY <1>0, <1>1, <1>3, <2>1, <2>2, <2>3, FindItemFields DEF Started, AtProvider
<1> QED  BY <1>2, <1>3 DEF AnswerStep

(* ... and those of a chargeback, and a crash.                             *)
LEMMA ChargebackStarts ==
    ASSUME FreeInv, NEW h \in Handlers, ChargebackStep(h) \/ Crash(h)
    PROVE  \E pc \in Pcs : Started(h, pc)
<1>0. TypeOK /\ TasksFit /\ Answers \subseteq Handlers
  BY DEF FreeInv, Handlers
<1>1. UNCHANGED <<asked, query>> /\ ~At(h, "receive")
  BY DEF ChargebackStep, ReadRow, Refund, RemoveRow, RemoveItem, ChargebackFails, Crash, At,
     ChargebackPc
<1>2. CASE ReadRow(h) \/ Refund(h) \/ RemoveRow(h) \/ RemoveItem(h) \/ Crash(h)
  <2>1. PICK pc \in {"refund", "removeRow", "removeItem", "fail", "done", "crashed"} :
           /\ Goto(h, pc)
           /\ pc \in ChargebackPc => task[h].pc \in ChargebackPc
    BY <1>2 DEF ReadRow, Refund, RemoveRow, RemoveItem, Crash, After, At, ChargebackPc
  <2>2. pc \in Pcs /\ pc \notin {"charge", "receive", "save", "find"}
    BY <2>1 DEF Pcs, AnswerPc, ChargebackPc
  <2>3. Moves(h, pc) /\ Keeps(h)
    BY <1>0, <2>1, <2>2, GotoFields
  <2>4. h \in Answers /\ pc \in ChargebackPc => task[h].status = "FAILED"
    BY <1>0, <2>1 DEF TasksFit
  <2> QED  BY <1>1, <2>2, <2>3, <2>4 DEF Started, AtProvider, Keeps
<1>3. CASE ChargebackFails(h)
  <2>1. After(h) \in {"fail", "done"} /\ After(h) \in Pcs /\ After(h) \notin ChargebackPc
    BY DEF After, Pcs, AnswerPc, ChargebackPc
  <2> QED  BY <1>0, <1>1, <1>3, <2>1, ChargebackFailsFields DEF Started, AtProvider
<1> QED  BY <1>2, <1>3 DEF ChargebackStep

(* Every step is one of a started handler, or receives an answer.          *)
LEMMA NextStarts ==
    ASSUME FreeInv, Next
    PROVE  \/ \E h \in Handlers, pc \in Pcs : Started(h, pc)
           \/ \E m \in Answers, r \in Requests, s \in QueryResponseStatus : Receive(m, r, s)
<1>1. Requests \subseteq Handlers /\ Answers \subseteq Handlers
  BY DEF Handlers
<1>2. CASE \E r \in Requests : Charge(r)
  BY <1>1, <1>2, RequestStarts
<1>3. ASSUME NEW h \in Handlers, Step(h) \/ Crash(h)
      PROVE  \E pc \in Pcs : Started(h, pc)
  BY <1>3, RequestStarts, AnswerStarts, ChargebackStarts DEF Step
<1> QED  BY <1>2, <1>3 DEF Next

(* Every step keeps the tasks' part of the invariant.                      *)
LEMMA TasksFitStep == FreeInv /\ Next => TasksFit'
<1> SUFFICES ASSUME FreeInv, Next PROVE TasksFit'
  OBVIOUS
<1>0. /\ TasksFit /\ Requests \subseteq Handlers /\ Answers \subseteq Handlers
      /\ Requests \cap Answers = {}
  BY RequestAssumption DEF FreeInv, Handlers
<1>1. ASSUME NEW h \in Handlers, NEW pc \in Pcs, Started(h, pc)
      PROVE  TasksFit'
  <2> USE DEF Started, Moves, At
  <2>1. ASSUME NEW r \in Requests
        PROVE  /\ task'[r].of = r
               /\ task'[r].pc = "charge" => query'[r] = "absent" /\ r \notin asked'
               /\ task'[r].pc \in AtProvider => r \in asked'
    <3>1. task'[r].of = r
      BY <1>0, <1>1 DEF TasksFit
    <3>2. ASSUME task'[r].pc = "charge" PROVE r # h /\ task[r].pc = "charge"
      BY <1>0, <1>1, <3>2
    <3>3. ASSUME task'[r].pc = "charge" PROVE r # task[h].of /\ r \notin asked /\ query[r] = "absent"
      BY <1>0, <1>1, <3>2, <3>3 DEF TasksFit, Handlers
    <3>4. task'[r].pc \in AtProvider => r \in asked'
      BY <1>0, <1>1 DEF TasksFit
    <3> QED  BY <1>0, <1>1, <3>1, <3>2, <3>3, <3>4
  <2>2. ASSUME NEW m \in Answers
        PROVE  /\ task'[m].pc # "receive" => task'[m].of \in asked'
               /\ task'[m].pc = "save" => task'[m].status # "FAILED"
               /\ task'[m].pc \in ChargebackPc \cup {"find"} => task'[m].status = "FAILED"
    BY <1>0, <1>1 DEF TasksFit
  <2> QED  BY <2>1, <2>2 DEF TasksFit
<1>2. ASSUME NEW m \in Answers, NEW r \in Requests, NEW s \in QueryResponseStatus,
             Receive(m, r, s)
      PROVE  TasksFit'
  <2>1. UNCHANGED <<query, asked>> /\ r \in asked
    BY <1>2 DEF Receive
  <2>2. Moves(m, React(s)) /\ task'[m].of = r /\ task'[m].status = s
    BY <1>2, ReceiveFields DEF FreeInv
  <2>3. /\ React(s) \in {"save", "find", "fail"}
        /\ React(s) = "save" => s # "FAILED"
        /\ React(s) = "find" => s = "FAILED"
    BY DEF React, HasResult
  <2>4. React(s) \notin ChargebackPc
    BY <2>3 DEF ChargebackPc
  <2> QED  BY <1>0, <2>1, <2>2, <2>3, <2>4 DEF TasksFit, Moves, At
<1> QED  BY <1>1, <1>2, NextStarts

(* Only a chargeback's refund changes who gave a charge back.              *)
LEMMA RefundsChange ==
    ASSUME Next
    PROVE  refunds' = refunds \/ \E h \in Handlers : Refund(h)
  BY DEF Next, Step, RequestStep, AnswerStep, ChargebackStep, Charge, Receive, Crash,
     CheckDuplicate, RejectUser, Insert, Send, SendFails, CallServices, StoreStack,
     StoreStackFails, Poll, Store, StoreFails, SendError, MarkFailed, Associate, AssociateFails,
     Save, Shown, SaveFails, FindItem, Fail, ReadRow, RemoveRow, RemoveItem, ChargebackFails

(* No step changes how queries reach the provider.                         *)
LEMMA RouteStays == Next => route' = route
  BY DEF Next, Step, RequestStep, AnswerStep, ChargebackStep, Charge, Receive, Crash,
     CheckDuplicate, RejectUser, Insert, Send, SendFails, CallServices, StoreStack,
     StoreStackFails, Poll, Store, StoreFails, SendError, MarkFailed, Associate, AssociateFails,
     Save, Shown, SaveFails, FindItem, Fail, ReadRow, Refund, RemoveRow, RemoveItem,
     ChargebackFails

(* Every step keeps the types.                                             *)
LEMMA TypeStep == FreeInv /\ Next => TypeOK'
<1> SUFFICES ASSUME FreeInv, Next PROVE TypeOK'
  OBVIOUS
<1>0. /\ TypeOK /\ Requests \subseteq Handlers /\ Answers \subseteq Handlers
      /\ \A h \in Handlers : task[h].of \in Requests
  BY DEF FreeInv, TypeOK, Task, Handlers
<1>1. task' \in [Handlers -> Task] /\ route' \in Routes
  BY <1>0, NextStarts, ReceiveFields, RouteStays DEF Started, Moves, TypeOK
<1>2. query' \in [Requests -> QueryStatus \cup {"absent"}]
  BY <1>0 DEF Next, Step, RequestStep, AnswerStep, ChargebackStep, TypeOK, QueryStatus,
     Charge, Receive, Crash, CheckDuplicate, RejectUser, Insert, Send, SendFails, CallServices,
     StoreStack, StoreStackFails, Poll, Store, StoreFails, SendError, MarkFailed, Associate,
     AssociateFails, Save, Shown, SaveFails, FindItem, Fail, ReadRow, Refund, RemoveRow,
     RemoveItem, ChargebackFails
<1>3. /\ row' \in [Requests -> {"none", "live", "removed"}]
      /\ item' \in [Requests -> {"none", "bare", "linked", "removed"}]
  BY <1>0 DEF Next, Step, RequestStep, AnswerStep, ChargebackStep, TypeOK, Charge, Receive,
     Crash, CheckDuplicate, RejectUser, Insert, Send, SendFails, CallServices, StoreStack,
     StoreStackFails, Poll, Store, StoreFails, SendError, MarkFailed, Associate, AssociateFails,
     Save, Shown, SaveFails, FindItem, Fail, ReadRow, Refund, RemoveRow, RemoveItem,
     ChargebackFails
<1>4. asked' \subseteq Requests
  BY <1>0 DEF Next, Step, RequestStep, AnswerStep, ChargebackStep, TypeOK, Charge, Receive,
     Crash, CheckDuplicate, RejectUser, Insert, Send, SendFails, CallServices, StoreStack,
     StoreStackFails, Poll, Store, StoreFails, SendError, MarkFailed, Associate, AssociateFails,
     Save, Shown, SaveFails, FindItem, Fail, ReadRow, Refund, RemoveRow, RemoveItem,
     ChargebackFails
<1>5. refunds' \in [Requests -> SUBSET Handlers]
  BY <1>0, RefundsChange DEF TypeOK, Refund
<1> QED  BY <1>1, <1>2, <1>3, <1>4, <1>5 DEF TypeOK

(* Every step keeps who may have given a charge back.                      *)
LEMMA RefundersStep == FreeInv /\ Next => RefundersFit'
<1> SUFFICES ASSUME FreeInv, Next PROVE RefundersFit'
  OBVIOUS
<1>0. /\ TypeOK /\ TasksFit /\ RefundersFit
      /\ Requests \subseteq Handlers /\ Answers \subseteq Handlers
  BY DEF FreeInv, Handlers
<1>1. ASSUME NEW h \in Handlers, ~At(h, "receive")
      PROVE  /\ task'[h].pc # "receive"
             /\ task'[h].of = task[h].of /\ task'[h].status = task[h].status
  <2>1. ASSUME NEW k \in Handlers, NEW pc \in Pcs, Started(k, pc)
        PROVE  /\ task'[h].pc # "receive"
               /\ task'[h].of = task[h].of /\ task'[h].status = task[h].status
    BY <1>1, <2>1 DEF Started, Moves, At
  <2>2. ASSUME NEW m \in Answers, NEW q \in Requests, NEW s \in QueryResponseStatus,
               Receive(m, q, s)
        PROVE  task'[h] = task[h]
    <3>1. h # m
      BY <1>1, <2>2 DEF Receive, At
    <3>2. Moves(m, React(s))
      BY <1>0, <2>2, ReceiveFields
    <3> QED  BY <3>1, <3>2 DEF Moves
  <2> QED  BY <1>0, <1>1, <2>1, <2>2, NextStarts DEF At
<1>2. ASSUME NEW r \in Requests, NEW h \in refunds'[r]
      PROVE  /\ h \in Handlers /\ task[h].of = r /\ ~At(h, "receive")
             /\ h \in Answers => task[h].status = "FAILED"
  <2>1. CASE refunds' = refunds
    BY <1>0, <1>2, <2>1 DEF RefundersFit, TypeOK
  <2>2. ASSUME NEW k \in Handlers, Refund(k)
        PROVE  h \in refunds[r] \/ (h = k /\ task[h].of = r)
    BY <1>0, <1>2, <2>2 DEF Refund, TypeOK
  <2>3. ASSUME NEW k \in Handlers, Refund(k)
        PROVE  ~At(k, "receive") /\ (k \in Answers => task[k].status = "FAILED")
    BY <1>0, <2>3 DEF Refund, At, TasksFit, ChargebackPc
  <2> QED  BY <1>0, <2>1, <2>2, <2>3, RefundsChange DEF RefundersFit, TypeOK
<1> QED  BY <1>1, <1>2 DEF RefundersFit, At

(* Only an answer that was asked for brings a result.                      *)
LEMMA ResultsStep == FreeInv /\ Next => ResultsAreAnswers'
<1> SUFFICES ASSUME FreeInv, Next, NEW r \in Requests, query'[r] \in {"success", "partial"}
             PROVE  r \in asked'
  BY DEF ResultsAreAnswers
<1>0. TypeOK /\ TasksFit /\ ResultsAreAnswers
  BY DEF FreeInv
<1>1. asked \subseteq asked'
  BY <1>0 DEF Next, Step, RequestStep, AnswerStep, ChargebackStep, Charge, Receive, Crash,
     CheckDuplicate, RejectUser, Insert, Send, SendFails, CallServices, StoreStack,
     StoreStackFails, Poll, Store, StoreFails, SendError, MarkFailed, Associate, AssociateFails,
     Save, Shown, SaveFails, FindItem, Fail, ReadRow, Refund, RemoveRow, RemoveItem,
     ChargebackFails
<1>2. \/ query'[r] = query[r]
      \/ Store(r) \/ StoreFails(r)
      \/ \E m \in Answers : (Save(m) \/ SaveFails(m)) /\ task[m].of = r
  <2>1. ASSUME NEW q \in Requests, Charge(q) \/ RequestStep(q)
        PROVE  query'[r] = query[r] \/ Store(r) \/ StoreFails(r)
    BY <1>0, <2>1 DEF RequestStep, TypeOK, Charge, CheckDuplicate, RejectUser, Insert, Send,
       SendFails, CallServices, StoreStack, StoreStackFails, Poll, Store, StoreFails,
       MarkFailed, Associate, AssociateFails
  <2>2. ASSUME NEW m \in Answers, AnswerStep(m)
        PROVE  query'[r] = query[r] \/ ((Save(m) \/ SaveFails(m)) /\ task[m].of = r)
    BY <1>0, <2>2 DEF AnswerStep, TypeOK, Save, Shown, SaveFails, FindItem, Fail
  <2>3. ASSUME NEW h \in Handlers, ChargebackStep(h) \/ Crash(h)
        PROVE  query'[r] = query[r]
    BY <2>3 DEF ChargebackStep, Crash, ReadRow, Refund, RemoveRow, RemoveItem, ChargebackFails
  <2> QED  BY <2>1, <2>2, <2>3 DEF Next, Step, Receive
<1>3. ASSUME NEW m \in Answers, Save(m) \/ SaveFails(m), task[m].of = r
      PROVE  r \in asked
  BY <1>0, <1>3 DEF TasksFit, Save, SaveFails, At
<1>4. Store(r) \/ StoreFails(r) => r \in asked
  BY <1>0 DEF TasksFit, AtProvider, Store, StoreFails, At
<1> QED  BY <1>0, <1>1, <1>2, <1>3, <1>4 DEF ResultsAreAnswers

(* FreeInv is an invariant.                                                *)
LEMMA FreeInvariant == Safe => []FreeInv
<1>1. Init => FreeInv
  <2> SUFFICES ASSUME Init PROVE FreeInv
    OBVIOUS
  <2>1. (CHOOSE r \in Requests : TRUE) \in Requests
    BY RequestAssumption
  <2>2. TypeOK
    BY <2>1 DEF Init, TypeOK, Task, QueryResponseStatus, RequestPc, AnswerPc
  <2>3. /\ \A r \in Requests : task[r].of = r /\ task[r].pc = "charge"
        /\ \A m \in Answers : task[m].pc = "receive"
    BY RequestAssumption DEF Init, Handlers
  <2>4. TasksFit
    BY <2>3 DEF Init, TasksFit, AtProvider, At, ChargebackPc
  <2> QED  BY <2>2, <2>4 DEF Init, FreeInv, ResultsAreAnswers, RefundersFit
<1>2. FreeInv /\ [Next]_vars => FreeInv'
  <2>1. FreeInv /\ UNCHANGED vars => FreeInv'
    BY DEF FreeInv, vars, TypeOK, TasksFit, ResultsAreAnswers, RefundersFit, At
  <2> QED  BY <2>1, TasksFitStep, TypeStep, RefundersStep, ResultsStep DEF FreeInv
<1> QED  BY <1>1, <1>2, PTL DEF Safe

(***************************************************************************)
(* Every variable keeps its type: a query shows one of the statuses that    *)
(* the code gives it, and a charge has one row and one statement.          *)
(***************************************************************************)
THEOREM RequestTypeOK == Safe => []TypeOK
<1>1. FreeInv => TypeOK
  BY DEF FreeInv
<1> QED  BY <1>1, FreeInvariant, PTL

(***************************************************************************)
(* A query that shows its result although its charge was given back was    *)
(* given back by a FAILED answer to it, or by its own request after it was *)
(* sent.                                                                   *)
(***************************************************************************)
THEOREM FreeResultsTheorem == Safe => []FreeResultsAreExplained
<1>1. FreeInv => FreeResultsAreExplained
  BY DEF FreeInv, TypeOK, TasksFit, ResultsAreAnswers, RefundersFit, FreeResultsAreExplained,
     Handlers
<1> QED  BY <1>1, FreeInvariant, PTL

-----------------------------------------------------------------------------
(* ChargedInv.                                                             *)

\* A step of handler h.
Acts(h) ==
    \/ h \in Requests /\ Charge(h)
    \/ h \in Answers /\ \E r \in Requests, s \in QueryResponseStatus : Receive(h, r, s)
    \/ Step(h)
    \/ Crash(h)

(* Every step is one handler's, and leaves the other handlers alone.       *)
LEMMA NextActs ==
    ASSUME FreeInv, Next
    PROVE  \E h \in Handlers : Acts(h) /\ \A k \in Handlers : k # h => task'[k] = task[k]
<1>1. Requests \subseteq Handlers /\ Answers \subseteq Handlers /\ TypeOK
  BY DEF Handlers, FreeInv
<1>2. PICK h \in Handlers : Acts(h)
  BY <1>1 DEF Next, Acts
<1>3. \A k \in Handlers : k # h => task'[k] = task[k]
  BY <1>1, <1>2, RequestStarts, AnswerStarts, ChargebackStarts, ReceiveFields
     DEF Acts, Step, Started, Moves
<1> QED  BY <1>2, <1>3

(* What a step does to a charge's row ...                                  *)
LEMMA RowChange ==
    ASSUME FreeInv, NEW h \in Handlers, Acts(h), NEW r \in Requests
    PROVE  \/ row'[r] = row[r]
           \/ h = r /\ Charge(r) /\ row'[r] = "live"
           \/ RemoveRow(h) /\ task[h].of = r /\ row'[r] = "removed"
<1>1. row \in [Requests -> {"none", "live", "removed"}] /\ task[h].of \in Requests
  BY DEF FreeInv, TypeOK, Task
<1> QED
  BY <1>1 DEF Acts, Step, RequestStep, AnswerStep, ChargebackStep, Charge, Receive, Crash,
     CheckDuplicate, RejectUser, Insert, Send, SendFails, CallServices, StoreStack,
     StoreStackFails, Poll, Store, StoreFails, SendError, MarkFailed, Associate, AssociateFails,
     Save, Shown, SaveFails, FindItem, Fail, ReadRow, Refund, RemoveRow, RemoveItem,
     ChargebackFails

(* ... to its consumption statement ...                                    *)
LEMMA ItemChange ==
    ASSUME FreeInv, NEW h \in Handlers, Acts(h), NEW r \in Requests
    PROVE  \/ item'[r] = item[r]
           \/ h = r /\ Charge(r) /\ item'[r] = "bare"
           \/ h = r /\ At(r, "associate") /\ item'[r] = "linked"
           \/ RemoveItem(h) /\ task[h].of = r /\ item'[r] = "removed"
<1>1. item \in [Requests -> {"none", "bare", "linked", "removed"}] /\ task[h].of \in Requests
  BY DEF FreeInv, TypeOK, Task
<1> QED
  BY <1>1 DEF Acts, Step, RequestStep, AnswerStep, ChargebackStep, Charge, Receive, Crash,
     CheckDuplicate, RejectUser, Insert, Send, SendFails, CallServices, StoreStack,
     StoreStackFails, Poll, Store, StoreFails, SendError, MarkFailed, Associate, AssociateFails,
     Save, Shown, SaveFails, FindItem, Fail, ReadRow, Refund, RemoveRow, RemoveItem,
     ChargebackFails

(* ... and who marks a query failed.                                       *)
LEMMA FailureChange ==
    ASSUME FreeInv, NEW h \in Handlers, Acts(h), NEW r \in Requests, query'[r] = "failure"
    PROVE  \/ query[r] = "failure"
           \/ h = r /\ MarkFailed(r)
           \/ h \in Answers /\ Fail(h) /\ task[h].of = r
<1>1. query \in [Requests -> QueryStatus \cup {"absent"}] /\ task[h].of \in Requests
  BY DEF FreeInv, TypeOK, Task
<1> QED
  BY <1>1 DEF Acts, Step, RequestStep, AnswerStep, ChargebackStep, Charge, Receive, Crash,
     CheckDuplicate, RejectUser, Insert, Send, SendFails, CallServices, StoreStack,
     StoreStackFails, Poll, Store, StoreFails, SendError, MarkFailed, Associate, AssociateFails,
     Save, Shown, SaveFails, FindItem, Fail, ReadRow, Refund, RemoveRow, RemoveItem,
     ChargebackFails

(* No handler but a request at its charge works for a query before that charge. *)
LEMMA WorksAfterCharge ==
    ASSUME FreeInv, NEW h \in Handlers, ~At(h, "receive"), ~At(h, "charge")
    PROVE  task[h].of \in Requests /\ ~At(task[h].of, "charge")
  BY RequestAssumption DEF FreeInv, TypeOK, Task, TasksFit, Handlers, At

(* A request leaves its charge by charging, and no step leads there.       *)
LEMMA ChargeFirst ==
    ASSUME FreeInv, NEW h \in Handlers, Acts(h), NEW r \in Requests,
           \A k \in Handlers : k # h => task'[k] = task[k]
    PROVE  At(r, "charge")' <=> At(r, "charge") /\ ~(h = r /\ Charge(r))
<1>0. r \in Handlers /\ r \notin Answers /\ TypeOK
  BY RequestAssumption DEF Handlers, FreeInv
<1>1. CASE h # r
  BY <1>0, <1>1 DEF At
<1>2. CASE h = r
  <2>1. ~At(r, "charge")'
    <3>1. CASE Charge(r) \/ RequestStep(r)
      BY <3>1, RequestStarts DEF Started, Moves, At
    <3>2. CASE ChargebackStep(r) \/ Crash(r)
      BY <1>0, <3>2, ChargebackStarts DEF Started, Moves, At
    <3> QED  BY <1>0, <1>2, <3>1, <3>2 DEF Acts, Step
  <2>2. At(r, "charge") => Charge(r)
    BY <1>0, <1>2 DEF Acts, Step, RequestStep, ChargebackStep, Crash, CheckDuplicate,
       RejectUser, Insert, Send, SendFails, CallServices, StoreStack, StoreStackFails, Poll,
       Store, StoreFails, SendError, MarkFailed, Associate, AssociateFails, ReadRow, Refund,
       RemoveRow, RemoveItem, ChargebackFails, ChargebackPc, At
  <2> QED  BY <1>2, <2>1, <2>2
<1> QED  BY <1>1, <1>2

(* A row that is gone, of a charge that was made, stays gone.              *)
LEMMA RowStaysGone ==
    ASSUME FreeInv, NEW h \in Handlers, Acts(h), NEW r \in Requests, ~At(r, "charge"),
           row[r] # "live"
    PROVE  row'[r] # "live" /\ (row[r] = "removed" => row'[r] = "removed")
  BY RowChange DEF Charge, At

(* Every step keeps the order of a charge's parts.                         *)
LEMMA ChargesStartStep ==
    ASSUME FreeInv, ChargesStart, ChargebacksEnd, Next
    PROVE  ChargesStart'
<1>0. item \in [Requests -> {"none", "bare", "linked", "removed"}]
  BY DEF FreeInv, TypeOK
<1>1. PICK h \in Handlers : Acts(h) /\ \A k \in Handlers : k # h => task'[k] = task[k]
  BY NextActs
<1>2. ASSUME NEW r \in Requests
      PROVE  item'[r] = "none" <=> At(r, "charge")'
  <2>1. RemoveItem(h) => ~At(task[h].of, "charge")
    BY WorksAfterCharge DEF RemoveItem, At
  <2>2. ASSUME h = r, Charge(r) PROVE item'[r] # "none"
    BY <1>0, <2>2 DEF Charge
  <2>3. At(r, "associate") => ~At(r, "charge")
    BY DEF At
  <2>4. item[r] = "none" <=> At(r, "charge")
    BY DEF ChargesStart
  <2>5. item'[r] = "none" <=> item[r] = "none" /\ ~(h = r /\ Charge(r))
    BY <1>1, <2>1, <2>2, <2>3, <2>4, ItemChange
  <2> QED  BY <1>1, <2>4, <2>5, ChargeFirst
<1>3. ASSUME NEW r \in Requests, item'[r] = "removed"
      PROVE  row'[r] = "removed"
  <2>1. CASE item[r] = "removed"
    BY <1>1, <2>1, RowStaysGone DEF ChargesStart
  <2>2. CASE RemoveItem(h) /\ task[h].of = r
    BY <2>2 DEF RemoveItem, ChargebacksEnd
  <2> QED  BY <1>1, <1>3, <2>1, <2>2, ItemChange
<1> QED  BY <1>2, <1>3 DEF ChargesStart

\* Where a handler that has started goes, but for the removal of the statement.
Onward ==
    (RequestPc \ {"charge"}) \cup {"read", "refund", "removeRow", "fail", "done", "crashed"}

(* A handler that has started changes what it knows in two steps only.     *)
LEMMA KeepingSteps ==
    ASSUME FreeInv, NEW h \in Handlers, Acts(h), ~At(h, "receive")
    PROVE  Keeps(h) \/ ChargebackFails(h) \/ (h \in Answers /\ FindItem(h))
<1>1. \/ ChargebackFails(h) \/ (h \in Answers /\ FindItem(h))
      \/ \E pc \in Onward \cup {"removeItem"} : Goto(h, pc)
  BY DEF Onward, RequestPc, Acts, Step, RequestStep, AnswerStep, ChargebackStep, Charge,
     Receive, Crash, After, CheckDuplicate, RejectUser, Insert, Send, SendFails, CallServices,
     StoreStack, StoreStackFails, Poll, Store, StoreFails, SendError, MarkFailed, Associate,
     AssociateFails, Save, Shown, SaveFails, Fail, ReadRow, Refund, RemoveRow, RemoveItem
<1>2. Onward \cup {"removeItem"} \subseteq Pcs
  BY DEF Pcs, Onward, RequestPc, AnswerPc, ChargebackPc
<1> QED  BY <1>1, <1>2, GotoFields DEF FreeInv

(* An excuse lasts, and so does the query it is for.                       *)
LEMMA ExcuseLasts ==
    ASSUME FreeInv, ChargebacksEnd, NEW h \in Handlers, Acts(h), NEW k \in Handlers, Excuses(k),
           \A g \in Handlers : g # h => task'[g] = task[g]
    PROVE  Excuses(k)' /\ task'[k].of = task[k].of
<1>0. TypeOK /\ TasksFit /\ Requests \cap Answers = {}
  BY RequestAssumption DEF FreeInv
<1>1. CASE k # h
  BY <1>1 DEF Excuses, At
<1>2. CASE k = h
  <2>1. ~At(k, "receive") /\ ~At(k, "crashed")
    BY <1>0, <1>2 DEF Acts, Step, RequestStep, AnswerStep, ChargebackStep, Charge, Receive,
       Crash, CheckDuplicate, RejectUser, Insert, Send, SendFails, CallServices, StoreStack,
       StoreStackFails, Poll, Store, StoreFails, SendError, MarkFailed, Associate,
       AssociateFails, Save, Shown, SaveFails, FindItem, Fail, ReadRow, Refund, RemoveRow,
       RemoveItem, ChargebackFails, ChargebackPc, At, Excuses, ChargebacksEnd, TasksFit
  <2>2. PICK pc \in Pcs : Started(k, pc)
    BY <1>2, <2>1, RequestStarts, AnswerStarts, ChargebackStarts DEF Acts, Step, Receive
  <2>3. ASSUME FindItem(k), k \in Answers
        PROVE  task[k].broken /\ task'[k].broken = task[k].broken
    BY <1>0, <2>1, <2>3, FindItemFields DEF FindItem, ChargebacksEnd, TasksFit, Excuses, At
  <2>4. CASE task'[k].broken = TRUE
    BY <2>2, <2>4 DEF Excuses, Started
  <2>5. CASE Keeps(k)
    BY <2>1, <2>2, <2>5 DEF Keeps, Excuses, At, Started, Moves
  <2>6. Keeps(k) \/ ChargebackFails(k) \/ (FindItem(k) /\ k \in Answers)
    BY <1>0, <1>2, <2>1, KeepingSteps
  <2> QED  BY <1>0, <2>2, <2>3, <2>4, <2>5, <2>6, ChargebackFailsFields DEF Started
<1> QED  BY <1>1, <1>2

(* A handler gets to the removal of the statement from that of the row ... *)
LEMMA LeadsToRemoveItem ==
    ASSUME FreeInv, NEW h \in Handlers, Acts(h), At(h, "removeItem")'
    PROVE  RemoveRow(h)
<1> SUFFICES ASSUME ~RemoveRow(h) PROVE FALSE
  OBVIOUS
<1>0. TypeOK
  BY DEF FreeInv
<1>1. CASE h \in Answers /\ \E r \in Requests, s \in QueryResponseStatus : Receive(h, r, s)
  BY <1>0, <1>1, ReceiveFields DEF Moves, React, HasResult, At
<1>2. CASE ChargebackFails(h)
  BY <1>0, <1>2, ChargebackFailsFields DEF Moves, After, At
<1>3. CASE h \in Answers /\ FindItem(h)
  BY <1>0, <1>3, FindItemFields DEF Moves, At
<1>4. CASE \E pc \in Onward : Goto(h, pc)
  <2>1. Onward \subseteq Pcs /\ "removeItem" \notin Onward
    BY DEF Pcs, Onward, RequestPc, AnswerPc, ChargebackPc
  <2> QED  BY <1>0, <1>4, <2>1, GotoFields DEF Moves, At
<1> QED
  BY <1>1, <1>2, <1>3, <1>4 DEF Onward, RequestPc, Acts, Step, RequestStep, AnswerStep,
     ChargebackStep, Charge, Crash, After, CheckDuplicate, RejectUser, Insert, Send, SendFails,
     CallServices, StoreStack, StoreStackFails, Poll, Store, StoreFails, SendError, MarkFailed,
     Associate, AssociateFails, Save, Shown, SaveFails, Fail, ReadRow, Refund, RemoveItem

(* ... ends its chargeback when the row is gone already ...                *)
LEMMA GotoRefund ==
    ASSUME FreeInv, NEW h \in Handlers, ReadRow(h), task'[h].pc \in {"fail", "done"}
    PROVE  row[task[h].of] # "live"
<1>1. TypeOK /\ "refund" \in Pcs
  BY DEF FreeInv, Pcs, ChargebackPc
<1>2. row[task[h].of] = "live" => Goto(h, "refund")
  BY DEF ReadRow
<1> QED  BY <1>1, <1>2, GotoFields DEF Moves

(* ... and, if it is of a FAILED answer, gets to its end by few steps.     *)
LEMMA LeadsToFail ==
    ASSUME FreeInv, NEW m \in Answers, Acts(m), ~At(m, "receive"), task'[m].pc \in {"fail", "done"}
    PROVE  \/ task[m].status # "FAILED" \/ FindItem(m) \/ Fail(m)
           \/ ChargebackFails(m) \/ ReadRow(m) \/ RemoveItem(m)
<1>0. TypeOK /\ TasksFit /\ m \in Handlers /\ m \notin Requests
  BY RequestAssumption DEF FreeInv, Handlers
<1>1. CASE Save(m) \/ SaveFails(m)
  BY <1>0, <1>1 DEF Save, Shown, SaveFails, TasksFit
<1>2. CASE Refund(m) \/ RemoveRow(m) \/ Crash(m)
  <2>1. PICK pc \in {"removeRow", "removeItem", "crashed"} : Goto(m, pc)
    BY <1>2 DEF Refund, RemoveRow, Crash
  <2>2. pc \in Pcs
    BY <2>1 DEF Pcs, ChargebackPc
  <2> QED  BY <1>0, <2>1, <2>2, GotoFields DEF Moves
<1> QED  BY <1>0, <1>1, <1>2 DEF Acts, Step, AnswerStep, ChargebackStep, Receive

(* Every step keeps what a chargeback finds and leaves ...                 *)
LEMMA ChargebacksEndStep ==
    ASSUME FreeInv, ChargesStart, ChargebacksEnd, Next
    PROVE  ChargebacksEnd'
<1>0. /\ TypeOK /\ TasksFit /\ Requests \cap Answers = {}
      /\ Requests \subseteq Handlers /\ Answers \subseteq Handlers
  BY RequestAssumption DEF FreeInv, Handlers
<1>1. PICK h \in Handlers : Acts(h) /\ \A k \in Handlers : k # h => task'[k] = task[k]
  BY NextActs
<1>2. ASSUME NEW k \in Handlers, At(k, "removeItem")'
      PROVE  row'[task'[k].of] = "removed"
  <2>1. CASE k # h
    <3>1. task'[k] = task[k] /\ At(k, "removeItem")
      BY <1>1, <1>2, <2>1 DEF At
    <3>2. task[k].of \in Requests /\ ~At(task[k].of, "charge")
      BY <3>1, WorksAfterCharge DEF At
    <3>3. row[task[k].of] = "removed"
      BY <3>1 DEF ChargebacksEnd
    <3> QED  BY <1>1, <3>1, <3>2, <3>3, RowStaysGone
  <2>2. CASE k = h
    <3>1. RemoveRow(h)
      BY <1>0, <1>1, <1>2, <2>2, LeadsToRemoveItem
    <3>2. task'[h].of = task[h].of /\ task[h].of \in Requests
      BY <1>0, <3>1, ChargebackStarts DEF ChargebackStep, Started, TypeOK, Task
    <3> QED  BY <1>0, <2>2, <3>1, <3>2 DEF RemoveRow, TypeOK
  <2> QED  BY <2>1, <2>2
<1>3. ASSUME NEW m \in Answers
      PROVE  /\ task'[m].pc \in {"receive", "find"} => ~task'[m].early
             /\ task'[m].pc = "receive" => ~task'[m].broken
  <2>1. CASE m # h
    BY <1>0, <1>1, <2>1 DEF ChargebacksEnd, At
  <2>2. CASE m = h /\ At(m, "receive")
    <3>1. PICK r \in Requests, s \in QueryResponseStatus : Receive(m, r, s)
      BY <1>0, <1>1, <2>2 DEF Acts, Step, RequestStep, AnswerStep, ChargebackStep, Crash,
         Save, SaveFails, FindItem, Fail, ReadRow, Refund, RemoveRow, RemoveItem,
         ChargebackFails, ChargebackPc, At
    <3> QED  BY <1>0, <2>2, <3>1, ReceiveFields DEF ChargebacksEnd, At
  <2>3. CASE m = h /\ ~At(m, "receive")
    <3>1. PICK pc \in Pcs : Started(m, pc)
      BY <1>0, <1>1, <2>3, AnswerStarts, ChargebackStarts DEF Acts, Step, Receive
    <3> QED  BY <1>0, <3>1 DEF Started, Moves
  <2> QED  BY <2>1, <2>2, <2>3
<1>4. ASSUME NEW m \in Answers, task'[m].pc \in {"fail", "done"}
      PROVE  Excuses(m)' \/ row'[task'[m].of] # "live"
  <2>1. CASE m # h
    <3>1. task'[m] = task[m] /\ task[m].pc \in {"fail", "done"}
      BY <1>0, <1>1, <1>4, <2>1
    <3>2. task[m].of \in Requests /\ ~At(task[m].of, "charge")
      BY <1>0, <3>1, WorksAfterCharge DEF At
    <3>3. Excuses(m) => Excuses(m)'
      BY <1>0, <1>1, ExcuseLasts
    <3>4. Excuses(m) \/ row[task[m].of] # "live"
      BY <3>1 DEF ChargebacksEnd
    <3> QED  BY <1>1, <3>1, <3>2, <3>3, <3>4, RowStaysGone
  <2>2. CASE m = h /\ At(m, "receive")
    <3>1. PICK r \in Requests, s \in QueryResponseStatus : Receive(m, r, s)
      BY <1>0, <1>1, <2>2 DEF Acts, Step, RequestStep, AnswerStep, ChargebackStep, Crash,
         Save, SaveFails, FindItem, Fail, ReadRow, Refund, RemoveRow, RemoveItem,
         ChargebackFails, ChargebackPc, At
    <3>2. task'[m].status = s /\ task'[m].pc = React(s)
      BY <1>0, <3>1, ReceiveFields DEF Moves
    <3>3. s # "FAILED"
      BY <1>4, <3>2 DEF React, HasResult
    <3> QED  BY <1>4, <3>2, <3>3 DEF Excuses, At
  <2>3. CASE m = h /\ ~At(m, "receive")
    <3>1. PICK pc \in Pcs : Started(m, pc)
      BY <1>0, <1>1, <2>3, AnswerStarts, ChargebackStarts DEF Acts, Step, Receive
    <3>2. task[m].of \in Requests /\ task'[m].of = task[m].of /\ task'[m].status = task[m].status
      BY <1>0, <3>1 DEF Started, TypeOK, Task
    <3>3. CASE task[m].status # "FAILED"
      BY <1>4, <3>2, <3>3 DEF Excuses, At
    <3>4. CASE FindItem(m) /\ task[m].status = "FAILED"
      <4>1. ~At(task[m].of, "charge")
        BY <1>0, <2>3, <3>4, WorksAfterCharge DEF FindItem, At
      <4>2. item[task[m].of] \in {"bare", "removed"}
        BY <1>0, <1>4, <3>2, <3>4, <4>1, FindItemFields DEF ChargesStart, TypeOK, Moves
      <4>3. CASE item[task[m].of] = "bare"
        BY <1>0, <1>4, <3>2, <3>4, <4>3, FindItemFields DEF Excuses, At
      <4>4. CASE item[task[m].of] = "removed"
        BY <3>2, <3>4, <4>4 DEF ChargesStart, FindItem
      <4> QED  BY <4>2, <4>3, <4>4
    <3>5. CASE ChargebackFails(m)
      BY <1>0, <3>5, ChargebackFailsFields DEF Excuses
    <3>6. CASE Fail(m) /\ task[m].status = "FAILED"
      <4>1. Excuses(m) => Excuses(m)'
        BY <1>0, <1>1, ExcuseLasts
      <4> QED  BY <3>2, <3>6, <4>1 DEF Fail, ChargebacksEnd, At
    <3>7. CASE ReadRow(m)
      <4>1. row[task[m].of] # "live"
        BY <1>0, <1>4, <3>7, GotoRefund
      <4> QED  BY <3>2, <3>7, <4>1 DEF ReadRow
    <3>8. CASE RemoveItem(m)
      BY <1>0, <3>2, <3>8 DEF RemoveItem, ChargebacksEnd
    <3> QED
      BY <1>0, <1>1, <1>4, <2>3, <3>3, <3>4, <3>5, <3>6, <3>7, <3>8, LeadsToFail
  <2> QED  BY <2>1, <2>2, <2>3
<1> QED  BY <1>2, <1>3, <1>4 DEF ChargebacksEnd, At

(* ... and that a failed query's charge is accounted for.                  *)
LEMMA FailuresStep ==
    ASSUME FreeInv, ChargesStart, ChargebacksEnd, FailuresHaveACause, Next
    PROVE  FailuresHaveACause'
<1>0. /\ TypeOK /\ TasksFit /\ Requests \cap Answers = {}
      /\ Requests \subseteq Handlers /\ Answers \subseteq Handlers
  BY RequestAssumption DEF FreeInv, Handlers
<1>1. PICK h \in Handlers : Acts(h) /\ \A k \in Handlers : k # h => task'[k] = task[k]
  BY NextActs
<1> DEFINE Cause(k, r) == /\ task[k].of = r
                          /\ Excuses(k) \/ (k \in Requests /\ task[k].pc \in ChargebackPc)
<1>2. SUFFICES ASSUME NEW r \in Requests, query'[r] = "failure", row'[r] = "live"
               PROVE  \E k \in Handlers : Cause(k, r)'
  BY DEF FailuresHaveACause
<1>3. row[r] = "live"
  <2>1. CASE h = r /\ Charge(r)
    BY <1>0, <1>2, <2>1 DEF Charge, TasksFit
  <2> QED  BY <1>1, <1>2, <2>1, RowChange
<1>4. CASE h \in Answers /\ Fail(h) /\ task[h].of = r
  <2>1. Excuses(h)
    BY <1>3, <1>4 DEF Fail, ChargebacksEnd, At
  <2> QED  BY <1>1, <1>4, <2>1, ExcuseLasts
<1>5. CASE h = r /\ MarkFailed(r)
  <2>1. "read" \in Pcs /\ "read" \in ChargebackPc
    BY DEF Pcs, ChargebackPc
  <2>2. task'[r].pc = "read" /\ task'[r].of = task[r].of
    BY <1>0, <1>5, <2>1, GotoFields DEF MarkFailed, Moves, Keeps
  <2> QED  BY <1>0, <2>1, <2>2 DEF TasksFit
<1>6. CASE query[r] = "failure"
  <2>1. PICK k \in Handlers : Cause(k, r)
    BY <1>3, <1>6 DEF FailuresHaveACause
  <2>2. CASE Excuses(k)
    BY <1>1, <2>1, <2>2, ExcuseLasts
  <2>3. CASE k # h
    BY <1>1, <2>1, <2>3 DEF Excuses, At
  <2>4. CASE k = h /\ ~Excuses(k)
    <3>1. h \in Requests /\ h = r /\ task[h].pc \in ChargebackPc
      BY <1>0, <2>1, <2>4 DEF TasksFit
    <3>2. ChargebackStep(h) \/ Crash(h)
      BY <1>0, <1>1, <3>1 DEF Acts, Step, RequestStep, Charge, CheckDuplicate, RejectUser,
         Insert, Send, SendFails, CallServices, StoreStack, StoreStackFails, Poll, Store,
         StoreFails, SendError, MarkFailed, Associate, AssociateFails, At, ChargebackPc
    <3>3. task'[h].of = r
      BY <1>0, <3>1, <3>2, ChargebackStarts DEF Started, TasksFit
    <3>4. CASE ChargebackFails(h)
      BY <1>0, <3>3, <3>4, ChargebackFailsFields DEF Excuses
    <3>5. CASE Crash(h)
      <4>1. task'[h].pc = "crashed"
        BY <1>0, <3>5, GotoFields DEF Crash, Moves, Pcs
      <4> QED  BY <3>3, <4>1 DEF Excuses, At
    <3>6. CASE RemoveRow(h)
      BY <1>0, <1>2, <3>1, <3>6 DEF RemoveRow, TypeOK, TasksFit
    <3>7. CASE RemoveItem(h)
      BY <1>0, <1>3, <3>1, <3>7 DEF RemoveItem, ChargebacksEnd, TasksFit
    <3>8. CASE ReadRow(h) \/ Refund(h)
      <4>1. PICK pc \in {"refund", "removeRow"} : Goto(h, pc)
        BY <1>0, <1>3, <3>1, <3>8 DEF ReadRow, Refund, TasksFit
      <4>2. pc \in Pcs /\ pc \in ChargebackPc
        BY <4>1 DEF Pcs, ChargebackPc
      <4>3. task'[h].pc \in ChargebackPc
        BY <1>0, <4>1, <4>2, GotoFields DEF Moves
      <4> QED  BY <3>1, <3>3, <4>3
    <3> QED  BY <3>2, <3>4, <3>5, <3>6, <3>7, <3>8 DEF ChargebackStep
  <2> QED  BY <2>2, <2>3, <2>4
<1> QED  BY <1>1, <1>2, <1>4, <1>5, <1>6, FailureChange

(* ChargedInv is an invariant.                                             *)
LEMMA ChargedInvariant == Safe => []ChargedInv
<1>1. Init => ChargesStart /\ ChargebacksEnd /\ FailuresHaveACause
  <2> SUFFICES ASSUME Init PROVE ChargesStart /\ ChargebacksEnd /\ FailuresHaveACause
    OBVIOUS
  <2>1. /\ \A r \in Requests : task[r].pc = "charge"
        /\ \A m \in Answers : task[m].pc = "receive" /\ ~task[m].early /\ ~task[m].broken
    BY RequestAssumption DEF Init, Handlers
  <2> QED  BY <2>1 DEF Init, Handlers, ChargesStart, ChargebacksEnd, FailuresHaveACause, At
<1>2. /\ FreeInv /\ [Next]_vars
      /\ ChargesStart /\ ChargebacksEnd /\ FailuresHaveACause
      => ChargesStart' /\ ChargebacksEnd' /\ FailuresHaveACause'
  <2>1. ChargesStart /\ ChargebacksEnd /\ FailuresHaveACause /\ UNCHANGED vars
        => ChargesStart' /\ ChargebacksEnd' /\ FailuresHaveACause'
    BY DEF vars, ChargesStart, ChargebacksEnd, FailuresHaveACause, Excuses, At
  <2> QED  BY <2>1, ChargesStartStep, ChargebacksEndStep, FailuresStep
<1> QED  BY <1>1, <1>2, FreeInvariant, PTL DEF Safe, ChargedInv

(***************************************************************************)
(* A query that shows FAILURE at rest while its charge still stands has a  *)
(* handler that died, whose chargeback failed, or whose answer is not      *)
(* FAILED or overtook the request.                                         *)
(***************************************************************************)
THEOREM ChargedFailuresTheorem == Safe => []ChargedFailuresAreExplained
<1>1. ChargedInv => ChargedFailuresAreExplained
  BY DEF ChargedInv, FailuresHaveACause, ChargedFailuresAreExplained, AtRest, ChargebackPc
<1> QED  BY <1>1, ChargedInvariant, PTL

-----------------------------------------------------------------------------
(* The charge and its chargebacks, step by step.                           *)

\* Handler h has given nothing back.
NotYet == RequestPc \cup {"receive", "find", "read", "refund"}

\* A handler gives back once, on its way to the removals; an answer works on a charge
\* whose request has written the id, and a request has its statement until then.
ReturnsInOrder ==
    /\ \A h \in Handlers :
          /\ task[h].pc \in NotYet => \A r \in Requests : h \notin refunds[r]
          /\ task[h].pc \in {"removeRow", "removeItem"} => h \in refunds[task[h].of]
    /\ \A r \in Requests :
          /\ At(r, "charge") => row[r] = "none"
          /\ row[r] = "none" => At(r, "charge")
          /\ row[r] = "removed" => refunds[r] # {}
          /\ task[r].pc \in RequestPc \ {"charge"} => item[r] = "bare"
    /\ \A m \in Answers : task[m].pc \in ChargebackPc => item[task[m].of] \in {"linked", "removed"}

(***************************************************************************)
(* What ChargedIsSettled leaves to safety: a request that has ended, with  *)
(* or without an error, left its charge tied to a query or given back, or  *)
(* its chargeback failed.                                                  *)
(***************************************************************************)
EndedIsSettled ==
    \A r \in Requests : At(r, "done") =>
       item[r] \in {"linked", "removed"} \/ refunds[r] # {} \/ task[r].broken

ReturnInv == ChargedInv /\ ReturnsInOrder /\ EndedIsSettled

(* Where each kind of step leads.                                          *)
LEMMA Turns ==
    ASSUME FreeInv, NEW h \in Handlers, Acts(h)
    PROVE  \/ /\ h \in Answers /\ At(h, "receive")
              /\ task'[h].pc \in {"save", "find", "fail"}
           \/ /\ h \in Answers /\ FindItem(h)
              /\ \/ task'[h].pc = "read" /\ item[task[h].of] = "linked"
                 \/ task'[h].pc = "fail"
           \/ /\ h \in Answers /\ task[h].pc \in {"save", "fail"}
              /\ task'[h].pc \in {"fail", "done"}
           \/ /\ h \in Requests /\ task[h].pc \in RequestPc
              /\ \/ task'[h].pc \in (RequestPc \ {"charge"}) \cup {"read"}
                 \/ Associate(h) /\ task'[h].pc = "done"
           \/ ReadRow(h) /\ row[task[h].of] = "live" /\ task'[h].pc = "refund"
           \/ ReadRow(h) /\ row[task[h].of] # "live" /\ task'[h].pc = After(h)
           \/ Refund(h) /\ task'[h].pc = "removeRow"
           \/ RemoveRow(h) /\ task'[h].pc = "removeItem"
           \/ RemoveItem(h) /\ task'[h].pc = After(h)
           \/ ChargebackFails(h) /\ task'[h].pc = After(h) /\ task'[h].broken
           \/ Crash(h) /\ task'[h].pc = "crashed"
<1>0. TypeOK /\ TasksFit
  BY DEF FreeInv
<1>1. ASSUME NEW pc \in Pcs, Goto(h, pc) PROVE task'[h].pc = pc
  BY <1>0, <1>1, GotoFields DEF Moves
<1>2. (RequestPc \cup AnswerPc \cup ChargebackPc \cup {"done", "crashed"}) \subseteq Pcs
  BY DEF Pcs
<1>3. ASSUME NEW r \in Requests, NEW s \in QueryResponseStatus, h \in Answers, Receive(h, r, s)
      PROVE  At(h, "receive") /\ task'[h].pc \in {"save", "find", "fail"}
  <2>1. Moves(h, React(s))
    BY <1>0, <1>3, ReceiveFields
  <2>2. React(s) \in {"save", "find", "fail"}
    BY DEF React, HasResult
  <2> QED  BY <1>3, <2>1, <2>2 DEF Receive, Moves
<1>4. ASSUME h \in Requests, Charge(h) \/ RequestStep(h), ~Associate(h)
      PROVE  task[h].pc \in RequestPc /\ task'[h].pc \in (RequestPc \ {"charge"}) \cup {"read"}
  <2>1. PICK pc \in (RequestPc \ {"charge"}) \cup {"read"} : Goto(h, pc)
    BY <1>4 DEF RequestStep, Charge, CheckDuplicate, RejectUser, Insert, Send, SendFails,
       CallServices, StoreStack, StoreStackFails, Poll, Store, StoreFails, SendError, MarkFailed,
       AssociateFails, RequestPc
  <2>2. task[h].pc \in RequestPc
    BY <1>4 DEF RequestStep, Charge, CheckDuplicate, RejectUser, Insert, Send, SendFails,
       CallServices, StoreStack, StoreStackFails, Poll, Store, StoreFails, SendError, MarkFailed,
       AssociateFails, RequestPc, At
  <2>3. task'[h].pc = pc
    BY <1>1, <1>2, <2>1 DEF ChargebackPc
  <2> QED  BY <2>1, <2>2, <2>3
<1>5. ASSUME Associate(h) PROVE task[h].pc \in RequestPc /\ task'[h].pc = "done"
  BY <1>1, <1>2, <1>5 DEF Associate, At, RequestPc
<1>6. ASSUME h \in Answers, Save(h) \/ SaveFails(h) \/ Fail(h)
      PROVE  task[h].pc \in {"save", "fail"} /\ task'[h].pc \in {"fail", "done"}
  BY <1>1, <1>2, <1>6 DEF Save, Shown, SaveFails, Fail, At, AnswerPc
<1>7. ASSUME h \in Answers, FindItem(h)
      PROVE  \/ task'[h].pc = "read" /\ item[task[h].of] = "linked"
             \/ task'[h].pc = "fail"
  BY <1>0, <1>7, FindItemFields DEF Moves
<1>8. After(h) \in Pcs
  BY DEF After, Pcs, AnswerPc
<1>9. ASSUME ReadRow(h)
      PROVE  \/ row[task[h].of] = "live" /\ task'[h].pc = "refund"
             \/ row[task[h].of] # "live" /\ task'[h].pc = After(h)
  <2>1. CASE row[task[h].of] = "live"
    BY <1>1, <1>2, <1>9, <2>1 DEF ReadRow, ChargebackPc
  <2>2. CASE row[task[h].of] # "live"
    BY <1>1, <1>8, <1>9, <2>2 DEF ReadRow
  <2> QED  BY <2>1, <2>2
<1>10. /\ Refund(h) => task'[h].pc = "removeRow"
       /\ RemoveRow(h) => task'[h].pc = "removeItem"
       /\ Crash(h) => task'[h].pc = "crashed"
  BY <1>1, <1>2 DEF Refund, RemoveRow, Crash, ChargebackPc
<1>11. RemoveItem(h) => task'[h].pc = After(h)
  BY <1>1, <1>8 DEF RemoveItem
<1>12. ChargebackFails(h) => task'[h].pc = After(h) /\ task'[h].broken
  BY <1>0, ChargebackFailsFields DEF Moves
<1>13. CASE h \in Requests /\ (Charge(h) \/ RequestStep(h))
  BY <1>4, <1>5, <1>13
<1>14. CASE h \in Answers /\ AnswerStep(h)
  BY <1>6, <1>7, <1>14 DEF AnswerStep
<1>15. CASE ChargebackStep(h)
  BY <1>9, <1>10, <1>11, <1>12, <1>15 DEF ChargebackStep
<1> QED  BY <1>3, <1>10, <1>13, <1>14, <1>15 DEF Acts, Step

(* A handler that has started keeps its query.                             *)
LEMMA OfStays ==
    ASSUME FreeInv, NEW h \in Handlers, Acts(h), ~At(h, "receive")
    PROVE  /\ task'[h].of = task[h].of
           /\ task[h].broken => task'[h].broken
<1>1. Keeps(h) \/ ChargebackFails(h) \/ (h \in Answers /\ FindItem(h))
  BY KeepingSteps
<1> QED  BY <1>1, ChargebackFailsFields, FindItemFields DEF FreeInv, Keeps

(* Who gives a charge back.                                                *)
LEMMA RefundsGrow ==
    ASSUME FreeInv, NEW h \in Handlers, Acts(h), NEW r \in Requests
    PROVE  \/ refunds'[r] = refunds[r]
           \/ Refund(h) /\ task[h].of = r /\ refunds'[r] = refunds[r] \cup {h}
<1>1. refunds' = refunds \/ Refund(h)
  BY DEF Acts, Step, RequestStep, AnswerStep, ChargebackStep, Charge, Receive, Crash,
     CheckDuplicate, RejectUser, Insert, Send, SendFails, CallServices, StoreStack,
     StoreStackFails, Poll, Store, StoreFails, SendError, MarkFailed, Associate, AssociateFails,
     Save, Shown, SaveFails, FindItem, Fail, ReadRow, RemoveRow, RemoveItem, ChargebackFails
<1> QED  BY <1>1 DEF Refund, FreeInv, TypeOK

(* Every step keeps the order of giving back.                              *)
LEMMA ReturnsInOrderStep ==
    ASSUME ChargedInv, ReturnsInOrder, Next
    PROVE  ReturnsInOrder'
<1>0. /\ FreeInv /\ TypeOK /\ TasksFit /\ Requests \cap Answers = {}
      /\ Requests \subseteq Handlers /\ Answers \subseteq Handlers
      /\ ChargesStart /\ ChargebacksEnd
  BY RequestAssumption DEF ChargedInv, FreeInv, Handlers
<1>1. PICK h \in Handlers : Acts(h) /\ \A k \in Handlers : k # h => task'[k] = task[k]
  BY <1>0, NextActs
<1>2. ASSUME NEW k \in Handlers, task'[k].pc \in NotYet
      PROVE  task[k].pc \in NotYet /\ ~(k = h /\ Refund(h))
  <2>1. CASE k # h
    BY <1>1, <1>2, <2>1
  <2>2. CASE k = h
    <3>1. After(h) \notin NotYet /\ task'[h].pc \notin {"removeRow", "removeItem", "crashed", "save", "fail", "done"}
      BY <1>2, <2>2 DEF After, NotYet, RequestPc
    <3>2. task'[h].pc # After(h)
      BY <1>2, <2>2, <3>1
    <3>3. \/ At(h, "receive") \/ At(h, "find") \/ At(h, "read") \/ task[h].pc \in RequestPc
      BY <1>0, <1>1, <3>1, <3>2, Turns DEF FindItem, ReadRow
    <3>4. ~Refund(h)
      BY <3>3 DEF Refund, At, RequestPc
    <3> QED  BY <2>2, <3>3, <3>4 DEF NotYet, At
  <2> QED  BY <2>1, <2>2
<1>3. ASSUME NEW k \in Handlers, task'[k].pc \in NotYet, NEW r \in Requests
      PROVE  k \notin refunds'[r]
  BY <1>0, <1>1, <1>2, <1>3, RefundsGrow DEF ReturnsInOrder
<1>4. ASSUME NEW k \in Handlers, task'[k].pc \in {"removeRow", "removeItem"}
      PROVE  k \in refunds'[task'[k].of]
  <2>1. task[k].of \in Requests
    BY <1>0 DEF TypeOK, Task
  <2>2. CASE k # h
    BY <1>0, <1>1, <1>4, <2>1, <2>2, RefundsGrow DEF ReturnsInOrder
  <2>3. CASE k = h
    <3>1. After(h) \notin {"removeRow", "removeItem"}
      BY DEF After
    <3>2. Refund(h) \/ RemoveRow(h)
      BY <1>0, <1>1, <1>4, <2>3, <3>1, Turns DEF RequestPc
    <3>3. ~At(h, "receive")
      BY <3>2 DEF Refund, RemoveRow, At
    <3>4. task'[h].of = task[h].of
      BY <1>0, <1>1, <3>3, OfStays
    <3>5. CASE Refund(h)
      BY <1>0, <2>1, <2>3, <3>4, <3>5 DEF Refund, TypeOK
    <3>6. CASE RemoveRow(h)
      BY <2>3, <3>4, <3>6 DEF RemoveRow, At, ReturnsInOrder
    <3> QED  BY <3>2, <3>5, <3>6
  <2> QED  BY <2>2, <2>3
<1>5. ASSUME NEW r \in Requests
      PROVE  /\ At(r, "charge")' => row'[r] = "none"
             /\ row'[r] = "none" => At(r, "charge")'
  <2>1. At(r, "charge")' <=> At(r, "charge") /\ ~(h = r /\ Charge(r))
    BY <1>0, <1>1, ChargeFirst
  <2>2. row[r] = "none" <=> At(r, "charge")
    BY DEF ReturnsInOrder
  <2>3. RemoveRow(h) => ~At(task[h].of, "charge")
    BY <1>0, WorksAfterCharge DEF RemoveRow, At
  <2>4. h = r /\ Charge(r) => row'[r] = "live"
    BY <1>0 DEF Charge, TypeOK
  <2> QED  BY <1>0, <1>1, <2>1, <2>2, <2>3, <2>4, RowChange
<1>6. ASSUME NEW r \in Requests, row'[r] = "removed"
      PROVE  refunds'[r] # {}
  <2>1. CASE row[r] = "removed"
    BY <1>0, <1>1, <2>1, RefundsGrow DEF ReturnsInOrder
  <2>2. CASE RemoveRow(h) /\ task[h].of = r
    BY <1>0, <1>1, <2>2, RefundsGrow DEF RemoveRow, At, ReturnsInOrder
  <2> QED  BY <1>0, <1>1, <1>6, <2>1, <2>2, RowChange
<1>7. ASSUME NEW r \in Requests, task'[r].pc \in RequestPc \ {"charge"}
      PROVE  item'[r] = "bare"
  <2>1. ASSUME h = r PROVE task[r].pc \in RequestPc /\ ~Associate(r)
    <3>1. task'[h].pc \notin {"read", "refund", "removeRow", "removeItem", "crashed", "done", "fail"}
      BY <1>7, <2>1 DEF RequestPc
    <3>2. After(h) \in {"done", "fail"}
      BY DEF After
    <3>3. task[r].pc \in RequestPc
      BY <1>0, <1>1, <2>1, <3>1, <3>2, Turns
    <3>4. ~Associate(r)
      <4>1. "done" \in Pcs
        BY DEF Pcs
      <4> QED  BY <1>0, <2>1, <3>1, <4>1, GotoFields DEF Associate, Moves
    <3> QED  BY <3>3, <3>4
  <2>2. task[r].pc \in RequestPc
    BY <1>0, <1>1, <1>7, <2>1
  <2>3. CASE h = r /\ Charge(r)
    BY <1>0, <2>3 DEF Charge, TypeOK
  <2>4. CASE ~(h = r /\ Charge(r))
    <3>1. ~At(r, "charge")
      BY <1>0, <1>1, <1>7, <2>4, ChargeFirst DEF At
    <3>2. item[r] = "bare"
      BY <2>2, <3>1 DEF ReturnsInOrder, At
    <3>3. ~(RemoveItem(h) /\ task[h].of = r)
      <4> SUFFICES ASSUME RemoveItem(h), task[h].of = r PROVE FALSE
        OBVIOUS
      <4>1. At(h, "removeItem") /\ task[h].pc \in ChargebackPc
        BY DEF RemoveItem, At, ChargebackPc
      <4>2. h # r
        BY <2>2, <4>1 DEF At, RequestPc
      <4>3. h \in Answers
        BY <1>0, <4>2 DEF Handlers, TasksFit
      <4> QED  BY <3>2, <4>1, <4>3 DEF ReturnsInOrder
    <3>4. ~(h = r /\ At(r, "associate") /\ item'[r] = "linked")
      <4> SUFFICES ASSUME h = r, At(r, "associate"), item'[r] = "linked" PROVE FALSE
        OBVIOUS
      <4>1. Associate(r) \/ AssociateFails(r) \/ Crash(r)
        BY <1>0, <1>1 DEF Acts, Step, RequestStep, ChargebackStep, Charge, CheckDuplicate,
           RejectUser, Insert, Send, SendFails, CallServices, StoreStack, StoreStackFails, Poll,
           Store, StoreFails, SendError, MarkFailed, ReadRow, Refund, RemoveRow, RemoveItem,
           ChargebackFails, ChargebackPc, At
      <4>2. AssociateFails(r) \/ Crash(r) => task'[r].pc \in {"read", "crashed"}
        <5>1. {"read", "crashed"} \subseteq Pcs
          BY DEF Pcs, ChargebackPc
        <5> QED  BY <1>0, <5>1, GotoFields DEF AssociateFails, Crash, Moves
      <4> QED  BY <1>7, <2>1, <4>1, <4>2 DEF RequestPc
    <3> QED  BY <1>0, <1>1, <2>4, <3>2, <3>3, <3>4, ItemChange
  <2> QED  BY <2>3, <2>4
<1>8. ASSUME NEW r \in Requests, item[r] \in {"linked", "removed"}
      PROVE  item'[r] \in {"linked", "removed"}
  <2>1. ~(h = r /\ Charge(r))
    BY <1>8 DEF ChargesStart, Charge, At, ChargedInv
  <2> QED  BY <1>0, <1>1, <1>8, <2>1, ItemChange
<1>9. ASSUME NEW m \in Answers, task'[m].pc \in ChargebackPc
      PROVE  item'[task'[m].of] \in {"linked", "removed"}
  <2>1. task[m].of \in Requests
    BY <1>0 DEF TypeOK, Task
  <2>2. CASE m # h
    BY <1>0, <1>1, <1>8, <1>9, <2>1, <2>2 DEF ReturnsInOrder
  <2>3. CASE m = h
    <3>1. After(h) \notin ChargebackPc
      BY DEF After, ChargebackPc
    <3>2. task'[h].pc \notin {"save", "find", "fail", "done", "crashed"}
      BY <1>9, <2>3 DEF ChargebackPc
    <3>3. \/ FindItem(h) /\ item[task[h].of] = "linked"
          \/ ReadRow(h) \/ Refund(h) \/ RemoveRow(h)
      BY <1>0, <1>1, <1>9, <2>3, <3>1, <3>2, Turns
    <3>4. ~At(h, "receive")
      BY <3>3 DEF FindItem, ReadRow, Refund, RemoveRow, At
    <3>5. task'[h].of = task[h].of
      BY <1>0, <1>1, <3>4, OfStays
    <3>6. item[task[h].of] \in {"linked", "removed"}
      BY <2>3, <3>3 DEF ReadRow, Refund, RemoveRow, At, ChargebackPc, ReturnsInOrder
    <3> QED  BY <1>8, <2>1, <2>3, <3>5, <3>6
  <2> QED  BY <2>2, <2>3
<1> QED  BY <1>3, <1>4, <1>5, <1>6, <1>7, <1>9 DEF ReturnsInOrder, At

(* No way out of a request forgets its charge.                             *)
LEMMA EndedStep ==
    ASSUME ReturnInv, Next
    PROVE  EndedIsSettled'
<1>0. /\ FreeInv /\ TypeOK /\ TasksFit /\ Requests \subseteq Handlers
      /\ Requests \cap Answers = {} /\ ChargesStart
  BY RequestAssumption DEF ReturnInv, ChargedInv, FreeInv, Handlers
<1>1. PICK h \in Handlers : Acts(h) /\ \A k \in Handlers : k # h => task'[k] = task[k]
  BY <1>0, NextActs
<1> SUFFICES ASSUME NEW r \in Requests, At(r, "done")'
             PROVE  item'[r] \in {"linked", "removed"} \/ refunds'[r] # {} \/ task'[r].broken
  BY DEF EndedIsSettled
<1>2. item[r] \in {"linked", "removed"} => item'[r] \in {"linked", "removed"}
  <2>1. h = r /\ Charge(r) => item[r] = "none"
    BY DEF ChargesStart, Charge, ReturnInv, ChargedInv
  <2> QED  BY <1>0, <1>1, <2>1, ItemChange
<1>3. refunds[r] # {} => refunds'[r] # {}
  BY <1>0, <1>1, RefundsGrow
<1>4. CASE h # r
  BY <1>0, <1>1, <1>2, <1>3, <1>4 DEF At, ReturnInv, EndedIsSettled
<1>5. CASE h = r
  <2>1. task'[r].pc = "done" /\ task[r].of = r /\ r \notin Answers
    BY <1>0 DEF At, TasksFit
  <2>2. \/ Associate(r) \/ RemoveItem(r)
        \/ ReadRow(r) /\ row[r] # "live"
        \/ task'[r].broken
    BY <1>0, <1>1, <1>5, <2>1, Turns DEF RequestPc
  <2>3. CASE Associate(r)
    BY <1>0, <2>3 DEF Associate, TypeOK
  <2>4. CASE RemoveItem(r)
    BY <1>0, <2>1, <2>4 DEF RemoveItem, TypeOK
  <2>5. CASE ReadRow(r) /\ row[r] # "live"
    <3>1. row[r] # "none"
      BY <2>5 DEF ReadRow, At, ReturnInv, ReturnsInOrder
    <3>2. row[r] = "removed"
      BY <1>0, <2>5, <3>1 DEF TypeOK
    <3> QED  BY <1>3, <3>2 DEF ReturnInv, ReturnsInOrder
  <2> QED  BY <2>2, <2>3, <2>4, <2>5
<1> QED  BY <1>4, <1>5

(* ReturnInv is an invariant.                                              *)
LEMMA ReturnInvariant == Safe => []ReturnInv
<1>1. Init => ReturnsInOrder /\ EndedIsSettled
  <2> SUFFICES ASSUME Init PROVE ReturnsInOrder /\ EndedIsSettled
    OBVIOUS
  <2>1. /\ \A r \in Requests : task[r].pc = "charge" /\ row[r] = "none" /\ refunds[r] = {}
        /\ \A m \in Answers : task[m].pc = "receive"
        /\ \A h \in Handlers : task[h].pc \in {"charge", "receive"}
    BY RequestAssumption DEF Init, Handlers
  <2> QED  BY <2>1 DEF ReturnsInOrder, EndedIsSettled, At, ChargebackPc
<1>2. ReturnsInOrder /\ EndedIsSettled /\ UNCHANGED vars => ReturnsInOrder' /\ EndedIsSettled'
  BY DEF ReturnsInOrder, EndedIsSettled, vars, At
<1>3. /\ ChargedInv /\ [Next]_vars
      /\ ReturnsInOrder /\ EndedIsSettled
      => ReturnsInOrder' /\ EndedIsSettled'
  BY <1>2, ReturnsInOrderStep, EndedStep DEF ReturnInv
<1> QED  BY <1>1, <1>3, ChargedInvariant, PTL DEF Safe, ReturnInv

(***************************************************************************)
(* A request that has ended left its charge tied to a query, so that an    *)
(* answer can give it back, or given back, or its chargeback failed: the   *)
(* safety half of ChargedIsSettled, for any number of requests and answers.*)
(***************************************************************************)
THEOREM EndedIsSettledTheorem == Safe => []EndedIsSettled
<1>1. ReturnInv => EndedIsSettled
  BY DEF ReturnInv
<1> QED  BY <1>1, ReturnInvariant, PTL

-----------------------------------------------------------------------------
(* The charges implement Chargeback.                                       *)

\* The refinement mapping.
StandingCharges == {r \in Requests : row[r] = "live"}
StruckCharges == {r \in Requests : row[r] = "removed"}
RecordedCharges == {r \in Requests : item[r] \in {"bare", "linked"}}
HeldCharges == {<<h, task[h].of>> : h \in {g \in Handlers : Holds(g)}}
ReturnedCharges == {x \in Handlers \X Requests : x[1] \in refunds[x[2]]}

(* A handler holds the charge of its query.                                *)
LEMMA HeldOf ==
    ASSUME NEW h \in Handlers
    PROVE  /\ Holds(h) <=> <<h, task[h].of>> \in HeldCharges
           /\ \A x \in HeldCharges : x[1] = h => x = <<h, task[h].of>>
  BY DEF HeldCharges

(* A step of one handler changes what it holds only.                       *)
LEMMA HeldChange ==
    ASSUME NEW h \in Handlers, \A k \in Handlers : k # h => task'[k] = task[k],
           Holds(h) => task'[h].of = task[h].of
    PROVE  /\ Holds(h)' => HeldCharges' = HeldCharges \cup {<<h, task'[h].of>>}
           /\ ~Holds(h)' => HeldCharges' = HeldCharges \ {<<h, task[h].of>>}
<1>1. \A k \in Handlers : k # h => task'[k].of = task[k].of /\ (Holds(k)' <=> Holds(k))
  BY DEF Holds
<1> QED  BY <1>1 DEF HeldCharges

(* A step that touches neither row, statement nor chargeback is a stutter. *)
LEMMA QuietIsStutter ==
    ASSUME NEW h \in Handlers, \A k \in Handlers : k # h => task'[k] = task[k],
           ~Holds(h), ~Holds(h)',
           \A r \in Requests : /\ row'[r] = row[r] /\ refunds'[r] = refunds[r]
                               /\ item'[r] \in {"bare", "linked"} <=> item[r] \in {"bare", "linked"}
    PROVE  UNCHANGED Contract!vars
<1>1. HeldCharges' = HeldCharges
  <2>1. HeldCharges' = HeldCharges \ {<<h, task[h].of>>}
    BY HeldChange
  <2>2. <<h, task[h].of>> \notin HeldCharges
    BY HeldOf
  <2> QED  BY <2>1, <2>2
<1>2. /\ StandingCharges' = StandingCharges /\ StruckCharges' = StruckCharges
      /\ RecordedCharges' = RecordedCharges
  BY DEF StandingCharges, StruckCharges, RecordedCharges
<1>3. ReturnedCharges' = ReturnedCharges
  BY DEF ReturnedCharges
<1> QED  BY <1>1, <1>2, <1>3 DEF Contract!vars, StandingCharges, StruckCharges, RecordedCharges,
            HeldCharges, ReturnedCharges

(* The chargeback's steps are those of the contract.                       *)
LEMMA ChargebackImplements ==
    ASSUME ReturnInv, NEW h \in Handlers, ChargebackStep(h) \/ Crash(h), Acts(h),
           \A k \in Handlers : k # h => task'[k] = task[k]
    PROVE  Contract!Next \/ UNCHANGED Contract!vars
<1> DEFINE c == task[h].of
           x == <<h, c>>
<1>0. /\ FreeInv /\ TypeOK /\ c \in Requests /\ ChargebacksEnd /\ ReturnsInOrder
      /\ row \in [Requests -> {"none", "live", "removed"}]
      /\ refunds \in [Requests -> SUBSET Handlers]
      /\ item \in [Requests -> {"none", "bare", "linked", "removed"}]
  BY DEF ReturnInv, ChargedInv, FreeInv, TypeOK, Task
<1>1. ~At(h, "receive") /\ task'[h].of = c
  <2>1. ~At(h, "receive")
    BY DEF ChargebackStep, ReadRow, Refund, RemoveRow, RemoveItem, ChargebackFails, Crash, At,
       ChargebackPc
  <2> QED  BY <1>0, <2>1, OfStays
<1>2. After(h) \in {"fail", "done"}
  BY DEF After
<1>3. x \in ReturnedCharges <=> h \in refunds[c]
  BY <1>0 DEF ReturnedCharges
<1>4. Holds(h) <=> x \in HeldCharges
  BY HeldOf
<1>5. /\ Holds(h)' => HeldCharges' = HeldCharges \cup {x}
      /\ ~Holds(h)' => HeldCharges' = HeldCharges \ {x}
  BY <1>1, HeldChange
<1>6. ASSUME UNCHANGED row
      PROVE  StandingCharges' = StandingCharges /\ StruckCharges' = StruckCharges
  BY <1>6 DEF StandingCharges, StruckCharges
<1>7. UNCHANGED item => RecordedCharges' = RecordedCharges
  BY DEF RecordedCharges
<1>8. UNCHANGED refunds => ReturnedCharges' = ReturnedCharges
  BY DEF ReturnedCharges
<1>9. x[1] = h /\ x[2] = c
  OBVIOUS
<1>10. CASE ReadRow(h) /\ row[c] = "live"
  <2>1. UNCHANGED <<row, item, refunds>> /\ At(h, "read")
    BY <1>10 DEF ReadRow
  <2>2. task'[h].pc = "refund"
    <3>1. "refund" \in Pcs
      BY DEF Pcs, ChargebackPc
    <3> QED  BY <1>0, <1>10, <3>1, GotoFields DEF ReadRow, Moves
  <2>3. HeldCharges' = HeldCharges \cup {x}
    BY <1>5, <2>2 DEF Holds
  <2>4. \A r \in Requests : h \notin refunds[r]
    BY <1>0, <2>1 DEF ReturnsInOrder, NotYet, At
  <2>5. ~Holds(h)
    BY <2>1 DEF Holds, At
  <2>6. \A y \in HeldCharges \cup ReturnedCharges : y[1] # h
    <3>1. \A y \in HeldCharges : y[1] # h
      BY <2>5, HeldOf
    <3>2. \A y \in ReturnedCharges : y[1] # h
      BY <2>4 DEF ReturnedCharges
    <3> QED  BY <3>1, <3>2
  <2>7. c \in StandingCharges
    BY <1>0, <1>10 DEF StandingCharges
  <2>8. \E d \in StandingCharges : HeldCharges' = HeldCharges \cup {<<h, d>>}
    BY <2>3, <2>7
  <2> HIDE DEF x, c
  <2>9. Contract!Find(h)
    BY <1>6, <1>7, <1>8, <2>1, <2>6, <2>8 DEF Contract!Find, StandingCharges,
       StruckCharges, RecordedCharges, HeldCharges, ReturnedCharges
  <2> QED  BY <2>9 DEF Contract!Next
<1>11. CASE Refund(h)
  <2>1. UNCHANGED <<row, item>> /\ task[h].pc = "refund"
    BY <1>11 DEF Refund, At
  <2>2. task'[h].pc = "removeRow"
    <3>1. "removeRow" \in Pcs
      BY DEF Pcs, ChargebackPc
    <3> QED  BY <1>0, <1>11, <3>1, GotoFields DEF Refund, Moves
  <2>3. Holds(h) /\ Holds(h)'
    BY <2>1, <2>2 DEF Holds
  <2>4. h \notin refunds[c]
    BY <1>0, <2>1 DEF ReturnsInOrder, NotYet
  <2>5. ReturnedCharges' = ReturnedCharges \cup {x}
    BY <1>0, <1>11 DEF Refund, ReturnedCharges
  <2> HIDE DEF x
  <2>6. x \in HeldCharges \ ReturnedCharges /\ HeldCharges' = HeldCharges
    BY <1>3, <1>4, <1>5, <2>3, <2>4
  <2>7. Contract!GiveBack(h)
    BY <1>6, <1>7, <1>9, <2>1, <2>5, <2>6 DEF Contract!GiveBack, StandingCharges,
       StruckCharges, RecordedCharges, HeldCharges, ReturnedCharges
  <2> QED  BY <2>7 DEF Contract!Next
<1>12. CASE RemoveRow(h)
  <2>1. UNCHANGED <<item, refunds>> /\ task[h].pc = "removeRow"
    BY <1>12 DEF RemoveRow, At
  <2>2. task'[h].pc = "removeItem"
    <3>1. "removeItem" \in Pcs
      BY DEF Pcs, ChargebackPc
    <3> QED  BY <1>0, <1>12, <3>1, GotoFields DEF RemoveRow, Moves
  <2>3. Holds(h) /\ Holds(h)'
    BY <2>1, <2>2 DEF Holds
  <2>4. h \in refunds[c]
    BY <1>0, <2>1 DEF ReturnsInOrder
  <2>5. StandingCharges' = StandingCharges \ {c} /\ StruckCharges' = StruckCharges \cup {c}
    BY <1>0, <1>12 DEF RemoveRow, StandingCharges, StruckCharges
  <2> HIDE DEF x
  <2>6. x \in HeldCharges \cap ReturnedCharges /\ HeldCharges' = HeldCharges
    BY <1>3, <1>4, <1>5, <2>3, <2>4
  <2>7. Contract!Strike(h)
    BY <1>7, <1>8, <1>9, <2>1, <2>5, <2>6 DEF Contract!Strike, StandingCharges,
       StruckCharges, RecordedCharges, HeldCharges, ReturnedCharges
  <2> QED  BY <2>7 DEF Contract!Next
<1>13. CASE RemoveItem(h)
  <2>1. UNCHANGED <<row, refunds>> /\ task[h].pc = "removeItem"
    BY <1>13 DEF RemoveItem, At
  <2>2. task'[h].pc = After(h)
    <3>1. After(h) \in Pcs
      BY <1>2 DEF Pcs, AnswerPc
    <3> QED  BY <1>0, <1>13, <3>1, GotoFields DEF RemoveItem, Moves
  <2>3. Holds(h) /\ ~Holds(h)'
    BY <1>2, <2>1, <2>2 DEF Holds
  <2>4. h \in refunds[c] /\ row[c] = "removed"
    BY <1>0, <2>1 DEF ReturnsInOrder, ChargebacksEnd, At
  <2>5. RecordedCharges' = RecordedCharges \ {c} /\ c \in StruckCharges
    BY <1>0, <1>13, <2>4 DEF RemoveItem, RecordedCharges, StruckCharges
  <2> HIDE DEF x
  <2>6. x \in HeldCharges \cap ReturnedCharges /\ HeldCharges' = HeldCharges \ {x}
    BY <1>3, <1>4, <1>5, <2>3, <2>4
  <2>7. Contract!Erase(h)
    BY <1>6, <1>8, <1>9, <2>1, <2>5, <2>6 DEF Contract!Erase, StandingCharges,
       StruckCharges, RecordedCharges, HeldCharges, ReturnedCharges
  <2> QED  BY <2>7 DEF Contract!Next
<1>14. CASE \/ ReadRow(h) /\ row[c] # "live"
            \/ ChargebackFails(h) \/ Crash(h)
  <2>1. UNCHANGED <<row, item, refunds>>
    BY <1>14 DEF ReadRow, ChargebackFails, Crash
  <2>2. task'[h].pc \in {"fail", "done", "crashed"}
    <3>1. After(h) \in Pcs /\ "crashed" \in Pcs
      BY <1>2 DEF Pcs, AnswerPc
    <3>2. CASE ReadRow(h) /\ row[c] # "live"
      BY <1>0, <1>2, <3>1, <3>2, GotoFields DEF ReadRow, Moves
    <3>3. CASE ChargebackFails(h)
      BY <1>0, <1>2, <3>3, ChargebackFailsFields DEF Moves
    <3>4. CASE Crash(h)
      BY <1>0, <3>1, <3>4, GotoFields DEF Crash, Moves
    <3> QED  BY <1>14, <3>2, <3>3, <3>4
  <2>3. ~Holds(h)'
    BY <2>2 DEF Holds
  <2>4. CASE ~Holds(h)
    BY <2>1, <2>3, <2>4, QuietIsStutter
  <2>5. CASE Holds(h)
    <3> HIDE DEF x
    <3>1. x \in HeldCharges /\ HeldCharges' = HeldCharges \ {x}
      BY <1>4, <1>5, <2>3, <2>5
    <3>2. Contract!GiveUp(h)
      BY <1>6, <1>7, <1>8, <1>9, <2>1, <3>1 DEF Contract!GiveUp, StandingCharges,
         StruckCharges, RecordedCharges, HeldCharges, ReturnedCharges
    <3> QED  BY <3>2 DEF Contract!Next
  <2> QED  BY <2>4, <2>5
<1> QED  BY <1>10, <1>11, <1>12, <1>13, <1>14 DEF ChargebackStep

(* A charge is made; the other steps concern no chargeback.                *)
LEMMA OthersImplement ==
    ASSUME ReturnInv, NEW h \in Handlers, Acts(h), ~ChargebackStep(h), ~Crash(h),
           \A k \in Handlers : k # h => task'[k] = task[k]
    PROVE  Contract!Next \/ UNCHANGED Contract!vars
<1>0. /\ FreeInv /\ TypeOK /\ TasksFit /\ Requests \cap Answers = {} /\ ReturnsInOrder
      /\ ChargesStart
      /\ row \in [Requests -> {"none", "live", "removed"}]
      /\ item \in [Requests -> {"none", "bare", "linked", "removed"}]
  BY RequestAssumption DEF ReturnInv, ChargedInv, FreeInv, TypeOK
<1>1. ~Holds(h) /\ ~Holds(h)'
  <2>1. /\ ~ReadRow(h) /\ ~Refund(h) /\ ~RemoveRow(h) /\ ~RemoveItem(h) /\ ~ChargebackFails(h)
    BY DEF ChargebackStep
  <2>2. /\ task[h].pc \in RequestPc \cup {"receive", "find", "save", "fail"}
        /\ task'[h].pc \in RequestPc \cup {"find", "save", "fail", "read", "done"}
    BY <1>0, <2>1, Turns DEF FindItem, At
  <2> QED  BY <2>2 DEF Holds, RequestPc
<1>2. \A r \in Requests : refunds'[r] = refunds[r]
  BY <1>0, RefundsGrow DEF ChargebackStep
<1>3. CASE h \in Requests /\ Charge(h)
  <2>1. row[h] = "none" /\ row'[h] = "live" /\ \A r \in Requests : r # h => row'[r] = row[r]
    BY <1>0, <1>3 DEF Charge, ReturnsInOrder
  <2>2. item[h] = "none" /\ item'[h] = "bare" /\ \A r \in Requests : r # h => item'[r] = item[r]
    BY <1>0, <1>3 DEF Charge, ChargesStart
  <2>3. /\ StandingCharges' = StandingCharges \cup {h} /\ h \notin StandingCharges \cup StruckCharges
        /\ StruckCharges' = StruckCharges
        /\ StandingCharges \cap StruckCharges = {}
    BY <1>3, <2>1 DEF StandingCharges, StruckCharges
  <2>4. RecordedCharges' = RecordedCharges \cup {h}
    BY <1>3, <2>2 DEF RecordedCharges
  <2>5. HeldCharges' = HeldCharges
    <3>1. HeldCharges' = HeldCharges \ {<<h, task[h].of>>}
      BY <1>1, HeldChange
    <3>2. <<h, task[h].of>> \notin HeldCharges
      BY <1>1, HeldOf
    <3> QED  BY <3>1, <3>2
  <2>6. ReturnedCharges' = ReturnedCharges
    BY <1>2 DEF ReturnedCharges
  <2>7. /\ StandingCharges \subseteq StandingCharges'
        /\ StandingCharges' \cap StruckCharges = {}
        /\ RecordedCharges' = RecordedCharges \cup (StandingCharges' \ StandingCharges)
    BY <2>3, <2>4
  <2>8. Contract!Make
    BY <2>3, <2>5, <2>6, <2>7 DEF Contract!Make, StandingCharges, StruckCharges,
       RecordedCharges, HeldCharges, ReturnedCharges
  <2> QED  BY <2>8 DEF Contract!Next
<1>4. CASE ~(h \in Requests /\ Charge(h))
  <2>1. \A r \in Requests : row'[r] = row[r]
    BY <1>0, <1>4, RowChange DEF ChargebackStep
  <2>2. ASSUME NEW r \in Requests
        PROVE  item'[r] \in {"bare", "linked"} <=> item[r] \in {"bare", "linked"}
    <3>1. h = r /\ At(r, "associate") => item[r] = "bare"
      BY <1>0 DEF ReturnsInOrder, At, RequestPc
    <3> QED  BY <1>0, <1>4, <3>1, ItemChange DEF ChargebackStep
  <2> QED  BY <1>1, <1>2, <2>1, <2>2, QuietIsStutter
<1> QED  BY <1>3, <1>4

(***************************************************************************)
(* The charges of queries implement Chargeback, for any number of requests *)
(* and answers, on every route: what QueryRequest assumes of the ledger's  *)
(* chargeback is what ChargebackTheorem proves of the ledger.              *)
(***************************************************************************)
THEOREM RequestChargebackTheorem == Safe => ImplementsChargeback
<1>1. Init => Contract!Init
  <2> SUFFICES ASSUME Init PROVE Contract!Init
    OBVIOUS
  <2>1. \A h \in Handlers : ~Holds(h)
    BY DEF Init, Holds
  <2> QED  BY <2>1 DEF Init, Contract!Init
<1>2. ReturnInv /\ [Next]_vars => [Contract!Next]_(Contract!vars)
  <2> SUFFICES ASSUME ReturnInv, [Next]_vars PROVE Contract!Next \/ UNCHANGED Contract!vars
    OBVIOUS
  <2>1. CASE UNCHANGED vars
    BY <2>1 DEF vars, Contract!vars, Holds
  <2>2. ASSUME Next PROVE Contract!Next \/ UNCHANGED Contract!vars
    <3>1. PICK h \in Handlers : Acts(h) /\ \A k \in Handlers : k # h => task'[k] = task[k]
      BY <2>2, NextActs DEF ReturnInv, ChargedInv
    <3>2. CASE ChargebackStep(h) \/ Crash(h)
      BY <3>1, <3>2, ChargebackImplements
    <3>3. CASE ~ChargebackStep(h) /\ ~Crash(h)
      BY <3>1, <3>3, OthersImplement
    <3> QED  BY <3>2, <3>3
  <2> QED  BY <2>1, <2>2
<1> QED  BY <1>1, <1>2, ReturnInvariant, PTL DEF Safe, ImplementsChargeback, Contract!Spec

=============================================================================
