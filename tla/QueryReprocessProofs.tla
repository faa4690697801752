------------------------ MODULE QueryReprocessProofs ------------------------
(***************************************************************************)
(* Machine-checked proofs about QueryReprocess, for any services and any   *)
(* number of handlers: type correctness, that no missing service is        *)
(* forgotten, that the data of a service is kept and a success is stored,  *)
(* that a reprocessing ends, and that a busy service log is released.      *)
(*                                                                         *)
(* Most steps of a handler only pass from one point to the next; the       *)
(* others read the query, write it, or write a service log.  Each lemma is *)
(* about one of these kinds of step.                                       *)
(***************************************************************************)
EXTENDS QueryReprocess, TLAPS

Pcs == CallPc \cup AnswerPc \cup RetryPc \cup {"done"}

\* Where a call holds the log of its service.
Holding == {"call", "failLog", "saveLog", "rollback"}

Others(h) == \A g \in Handlers : g # h => task'[g] = task[g]

-----------------------------------------------------------------------------
(* What the updates of a handler's task do to it.                          *)

\* A handler that moves keeps what it knows, until it has ended.
LEMMA MoveFields ==
    ASSUME TypeOK, NEW h \in Handlers, NEW pc \in Pcs
    PROVE  /\ Move(h, pc) \in Task
           /\ Move(h, pc).pc = pc
           /\ Move(h, pc).broken = task[h].broken
           /\ Move(h, pc).late = task[h].late
           /\ pc # "done" => Move(h, pc).copy = task[h].copy
           /\ h \in Retries => Move(h, pc).data = task[h].data
<1>1. task[h] \in Task
  BY DEF TypeOK
<1>2. NoCopy \in Doc
  BY DEF NoCopy, Doc, QueryStatus
<1>3. CASE pc = "done"
  <2>1. Ended(h) \in Task
    BY <1>1, <1>2 DEF Ended, Task
  <2>2. Move(h, pc) = [Ended(h) EXCEPT !.pc = pc]
    BY <1>3 DEF Move
  <2>3. /\ Ended(h).broken = task[h].broken /\ Ended(h).late = task[h].late
        /\ h \in Retries => Ended(h).data = task[h].data
    BY <1>1 DEF Ended, Task
  <2> QED BY <1>3, <2>1, <2>2, <2>3 DEF Task, Pcs
<1>4. CASE pc # "done"
  <2>1. Move(h, pc) = [task[h] EXCEPT !.pc = pc]
    BY <1>4 DEF Move
  <2> QED BY <1>1, <2>1 DEF Task, Pcs
<1> QED BY <1>3, <1>4

\* One handler's task is replaced by another.
LEMMA TaskUpdate ==
    ASSUME TypeOK, NEW h \in Handlers, NEW x \in Task, task' = [task EXCEPT ![h] = x]
    PROVE  task' \in [Handlers -> Task] /\ Others(h) /\ task'[h] = x
BY DEF TypeOK, Others

\* One field of a task is set.
LEMMA SetField ==
    ASSUME NEW m \in Task, NEW late \in BOOLEAN
    PROVE  /\ [m EXCEPT !.broken = TRUE] \in Task
           /\ [m EXCEPT !.broken = TRUE].broken = TRUE
           /\ [m EXCEPT !.broken = TRUE].late = m.late
           /\ [m EXCEPT !.broken = TRUE].pc = m.pc
           /\ [m EXCEPT !.broken = TRUE].copy = m.copy
           /\ [m EXCEPT !.broken = TRUE].data = m.data
           /\ [m EXCEPT !.late = late] \in Task
           /\ [m EXCEPT !.late = late].late = late
           /\ [m EXCEPT !.late = late].pc = m.pc
           /\ [m EXCEPT !.late = late].data = m.data
           /\ [m EXCEPT !.late = late].broken = m.broken
BY DEF Task

\* What moving does.
LEMMA GotoEffect ==
    ASSUME TypeOK, NEW h \in Handlers, NEW pc \in Pcs, Goto(h, pc)
    PROVE  /\ task' \in [Handlers -> Task] /\ Others(h)
           /\ task'[h].pc = pc
           /\ pc # "done" => task'[h].copy = task[h].copy
           /\ h \in Retries => task'[h].data = task[h].data
           /\ task'[h].broken = task[h].broken
           /\ task'[h].late = task[h].late
<1>1. task' = [task EXCEPT ![h] = Move(h, pc)]
  BY DEF Goto
<1> QED BY <1>1, MoveFields, TaskUpdate

\* What breaking does.
LEMMA BreakEffect ==
    ASSUME TypeOK, NEW h \in Handlers, NEW pc \in Pcs, Break(h, pc)
    PROVE  /\ task' \in [Handlers -> Task] /\ Others(h)
           /\ task'[h].pc = pc
           /\ pc # "done" => task'[h].copy = task[h].copy
           /\ h \in Retries => task'[h].data = task[h].data
           /\ task'[h].broken = TRUE
           /\ task'[h].late = task[h].late
<1> DEFINE m == Move(h, pc)
           x == [m EXCEPT !.broken = TRUE]
<1>1. /\ m \in Task /\ m.pc = pc /\ m.late = task[h].late
      /\ pc # "done" => m.copy = task[h].copy
      /\ h \in Retries => m.data = task[h].data
  BY MoveFields
<1>2. task' = [task EXCEPT ![h] = x]
  BY DEF Break
<1> HIDE DEF m
<1>3. /\ x \in Task /\ x.broken = TRUE /\ x.late = m.late
      /\ x.pc = m.pc /\ x.copy = m.copy /\ x.data = m.data
  BY <1>1, SetField
<1> HIDE DEF x
<1>4. task' \in [Handlers -> Task] /\ Others(h) /\ task'[h] = x
  BY <1>2, <1>3, TaskUpdate
<1> QED BY <1>1, <1>3, <1>4

\* What writing the query does.
LEMMA WriteEffect ==
    ASSUME TypeOK, NEW h \in Handlers, NEW d, NEW isLate \in BOOLEAN, WriteDoc(h, d, isLate)
    PROVE  /\ task' \in [Handlers -> Task] /\ Others(h)
           /\ doc' = d /\ task'[h].pc = "done" /\ task'[h].late = isLate
           /\ h \in Retries => task'[h].data = task[h].data
           /\ task'[h].broken = task[h].broken
<1> DEFINE m == Move(h, "done")
           x == [m EXCEPT !.late = isLate]
<1>1. "done" \in Pcs
  BY DEF Pcs
<1>2. /\ m \in Task /\ m.pc = "done" /\ m.broken = task[h].broken
      /\ h \in Retries => m.data = task[h].data
  BY <1>1, MoveFields
<1>3. task' = [task EXCEPT ![h] = x]
  BY DEF WriteDoc
<1> HIDE DEF m
<1>4. x \in Task /\ x.pc = m.pc /\ x.data = m.data /\ x.broken = m.broken
  BY <1>2 DEF Task
<1>5. x.late = isLate
  BY <1>2 DEF Task
<1> HIDE DEF x
<1>6. task' \in [Handlers -> Task] /\ Others(h) /\ task'[h] = x
  BY <1>3, <1>4, TaskUpdate
<1> QED BY <1>2, <1>4, <1>5, <1>6 DEF WriteDoc

-----------------------------------------------------------------------------
(* The inductive invariant.                                                *)

\* Every service is in the query or failed; a version 2 query that is being
\* reprocessed has no failed services.
Fine(d) == version = 1 \/ d.shown # "reprocessing" => d.result \cup d.failed = Services

\* The provider has what a version 2 query holds.
Grounded(d) == version = 2 => d.result \subseteq got

\* What a handler that will write the query, or a log, knows: the copy it read was
\* fine and grounded, a version never changes, and only the end of a handler is late.
Knows(h) ==
    /\ h \in Reprocesses /\ task[h].pc \notin {"begin", "done"} =>
          version = 2 /\ Fine(task[h].copy) /\ Grounded(task[h].copy)
    /\ h \in Retries /\ task[h].pc \notin {"begin", "done"} =>
          /\ version = 1 /\ Fine(task[h].copy)
          /\ \E s \in Services : task[h].data = {s}
    /\ h \in Answers /\ task[h].pc = "save" => Fine(task[h].copy)
    /\ h \in Answers /\ task[h].pc \in {"receive", "save"} => task[h].data \subseteq got
    /\ task[h].late => task[h].pc = "done"

ReprocessInv ==
    /\ TypeOK
    /\ Fine(doc) /\ Grounded(doc)
    /\ \A h \in Handlers : Knows(h)

\* A call that holds the log of service s, or held it and broke.
Holds(h, s) ==
    /\ h \in Retries /\ task[h].pc # "begin" /\ task[h].data = {s}
    /\ task[h].pc \in Holding \/ task[h].broken

BusyIsHeld == \A s \in Services : log[s].busy => \E h \in Handlers : Holds(h, s)

\* A call that will add service s to the query.
Stores(h, s) == h \in Retries /\ task[h].pc = "saveQuery" /\ task[h].data = {s}

\* A service whose log says it succeeded is in the query, or will be.
StoredOrComing ==
    version = 1 => \A s \in Services : log[s].ok =>
       s \in doc.result \/ \E h \in Handlers : Excuses(h) \/ Stores(h, s)

\* A handler that will end the reprocessing, or ask for another.
Ends(h) ==
    \/ h \in Answers /\ task[h].pc \in {"receive", "save"} /\ task[h].final
    \/ h \in Reprocesses /\ task[h].pc = "write"
    \/ h \in Replaces /\ task[h].pc = "ask"

\* While the query shows a reprocessing, its end is owed or on its way.
EndIsComing ==
    doc.shown = "reprocessing" => owes # {} \/ \E h \in Handlers : Excuses(h) \/ Ends(h)

\* Who may end a reprocessing, and where.
LEMMA EndsWhere ==
    ASSUME NEW h \in Handlers, Ends(h)
    PROVE  /\ h \in Reprocesses => task[h].pc = "write"
           /\ h \in Replaces => task[h].pc = "ask"
           /\ h \in Answers => task[h].pc \in {"receive", "save"} /\ task[h].final
           /\ h \notin AutoRequests /\ h \notin Retries
BY ReprocessAssumption DEF Ends

-----------------------------------------------------------------------------
(* The kinds of step.                                                      *)

\* From one point to the next.  What the provider owes may be cancelled on the way to
\* ask again; what was about to be stored or ended breaks, or is owed again.
Pass(h) ==
    /\ UNCHANGED <<version, doc, log, got>>
    /\ task[h].pc \notin {"begin", "provider", "done"}
    /\ \E pc \in Pcs \ {"begin"} :
          /\ Goto(h, pc) \/ Break(h, pc)
          /\ h \in Answers => pc = "done"
          /\ task[h].pc \in Holding => pc \in Holding \/ Break(h, pc)
          /\ owes # {} => \/ owes' # {}
                          \/ h \in Reprocesses /\ pc = "write"
                          \/ h \in Replaces /\ pc = "ask"
          /\ Ends(h) => owes' # {} \/ Break(h, pc)
          /\ task[h].pc = "saveQuery" => Break(h, pc)

\* The query is written, from what the handler knows: a write that is not late keeps
\* the results, and shows a reprocessing only if one is owed or was shown.
Writes(h) ==
    /\ UNCHANGED <<version, log, owes, got>>
    /\ task[h].pc \notin Holding \cup {"begin", "done"}
    /\ \E d \in Doc, isLate \in BOOLEAN :
          /\ WriteDoc(h, d, isLate) /\ Fine(d) /\ Grounded(d)
          /\ isLate \/ doc.result \subseteq d.result
          /\ \/ isLate \/ owes # {} \/ d.shown # "reprocessing"
             \/ doc.shown = "reprocessing" /\ ~Ends(h)
          /\ \A s \in Services : Stores(h, s) => s \in d.result

\* A handler that is no retry reads the query, or begins without it.
Reads(h) ==
    /\ UNCHANGED <<version, doc, log>>
    /\ h \notin Retries
    /\ h \in Reprocesses => version = 2
    /\ got \subseteq got'
    /\ \E x \in Task :
          /\ task' = [task EXCEPT ![h] = x]
          /\ h \in Reprocesses \/ (h \in Answers /\ x.pc = "save") => x.copy = doc
          /\ x.broken = task[h].broken /\ x.late = task[h].late
          /\ task[h].pc # "done"
          /\ h \in Answers => x.data \subseteq got'
          /\ Ends(h) \/ (owes # {} /\ owes' = {}) =>
                h \in Answers /\ x.pc \in {"receive", "save"} /\ x.final

\* The log of the handler's service is written: it is taken, or it is released.
Logs(h) ==
    /\ UNCHANGED <<version, doc, owes, got>>
    /\ h \in Retries /\ task[h].pc \in {"mark", "failLog", "saveLog", "rollback"}
    /\ log' \in [Services -> Log]
    /\ \A s \in Services : s # Target(h) => log'[s] = log[s]
    /\ \E pc \in {"call", "saveQuery", "done"} :
          /\ Goto(h, pc)
          /\ pc # "call" => log'[Target(h)].busy = FALSE
          /\ log'[Target(h)].ok => log[Target(h)].ok \/ pc = "saveQuery"

\* The steps of a version 2 call.
LEMMA ReprocessKinds ==
    ASSUME ReprocessInv, NEW h \in Reprocesses, ReprocessStep(h)
    PROVE  Pass(h) \/ Writes(h)
<1>1. /\ h \in Handlers /\ h \notin Answers /\ h \notin Retries
      /\ task[h] \in Task /\ Knows(h)
      /\ \A s \in Services : ~Stores(h, s)
  BY ReprocessAssumption DEF Handlers, ReprocessInv, TypeOK, Stores
<1>2. CASE AskReprocess(h) \/ AskReprocessFails(h) \/ Cancel(h, "write")
           \/ CancelFails(h, "restore") \/ WriteReprocessingFails(h)
  <2>1. Ends(h) => task[h].pc = "write"
    BY <1>1, EndsWhere
  <2> QED BY <1>1, <1>2, <2>1 DEF AskReprocess, AskReprocessFails, Cancel, CancelFails,
       WriteReprocessingFails, Pass, At, Pcs, CallPc, AnswerPc, RetryPc, Holding
<1>3. CASE WriteReprocessing(h)
  <2> DEFINE d == [task[h].copy EXCEPT !.shown = "reprocessing", !.failed = {}]
             isLate == task[h].copy # doc \/ h \notin owes
  <2>1. /\ WriteDoc(h, d, isLate) /\ task[h].pc = "write"
        /\ UNCHANGED <<version, log, owes, got>>
    BY <1>3 DEF WriteReprocessing, At
  <2>2. task[h].copy \in Doc /\ version = 2 /\ Grounded(task[h].copy)
    BY <1>1, <2>1 DEF Task, Knows
  <2>3. /\ d \in Doc /\ d.shown = "reprocessing" /\ d.result = task[h].copy.result
        /\ isLate \in BOOLEAN
    BY <2>2 DEF Doc, QueryStatus
  <2>4. isLate \/ (task[h].copy = doc /\ h \in owes)
    OBVIOUS
  <2>5. isLate \/ (doc.result \subseteq d.result /\ owes # {})
    BY <2>3, <2>4
  <2> HIDE DEF d, isLate
  <2>6. Fine(d) /\ Grounded(d)
    BY <2>2, <2>3 DEF Fine, Grounded
  <2> QED BY <1>1, <2>1, <2>3, <2>5, <2>6 DEF Writes, Holding
<1>4. CASE Restore(h)
  <2>1. task[h].pc = "restore" /\ UNCHANGED <<version, log, owes, got>> /\ ~Ends(h)
    BY <1>1, <1>4, EndsWhere DEF Restore, At
  <2>2. task[h].copy \in Doc /\ Fine(task[h].copy) /\ Grounded(task[h].copy)
    BY <1>1, <2>1 DEF Task, Knows
  <2>3. CASE WriteDoc(h, task[h].copy, task[h].copy # doc)
    <3> DEFINE isLate == task[h].copy # doc
    <3>1. isLate \in BOOLEAN /\ WriteDoc(h, task[h].copy, isLate)
      BY <2>3
    <3>2. isLate \/ task[h].copy = doc
      OBVIOUS
    <3> HIDE DEF isLate
    <3> QED BY <1>1, <2>1, <2>2, <3>1, <3>2 DEF Writes, Holding
  <2>4. CASE Goto(h, "done") /\ UNCHANGED doc
    BY <1>1, <2>1, <2>4 DEF Pass, Pcs, Holding
  <2> QED BY <1>4, <2>3, <2>4 DEF Restore
<1> QED BY <1>2, <1>3, <1>4 DEF ReprocessStep

\* The steps of a replacement.
LEMMA ReplaceKinds ==
    ASSUME ReprocessInv, NEW h \in Replaces, ReplaceStep(h)
    PROVE  Pass(h)
<1>1. h \notin Answers /\ (Ends(h) => task[h].pc = "ask")
  BY ReprocessAssumption, EndsWhere DEF Handlers
<1> QED BY <1>1 DEF ReplaceStep, AskReplace, AskReplaceFails, Cancel, CancelFails,
       Pass, At, Pcs, CallPc, AnswerPc, RetryPc, Holding

\* The steps of an automatic reprocessing's request.
LEMMA AutoKinds ==
    ASSUME ReprocessInv, NEW h \in AutoRequests, AutoStep(h)
    PROVE  Pass(h) \/ Writes(h)
<1>1. h \notin Answers /\ h \notin Retries /\ ~Ends(h) /\ \A s \in Services : ~Stores(h, s)
  BY ReprocessAssumption, EndsWhere DEF Handlers, Stores
<1>2. CASE AskAuto(h) \/ AskAutoFails(h)
  BY <1>1, <1>2 DEF AskAuto, AskAutoFails, Pass, At, Pcs, CallPc, AnswerPc, RetryPc, Holding
<1>3. CASE AskedBefore(h)
  <2>1. \E pc \in {"done", "ask"} : Goto(h, pc)
    BY <1>3 DEF AskedBefore
  <2> QED BY <1>1, <1>3, <2>1 DEF AskedBefore, Pass, At, Pcs, CallPc, Holding
<1>4. CASE WriteAuto(h)
  <2>1. task[h].pc = "write" /\ UNCHANGED <<version, log, owes, got>>
    BY <1>4 DEF WriteAuto, At
  <2>2. CASE WriteDoc(h, [doc EXCEPT !.shown = "reprocessing"], h \notin owes)
    <3> DEFINE d == [doc EXCEPT !.shown = "reprocessing"]
               isLate == h \notin owes
    <3>1. doc \in Doc /\ Fine(doc) /\ Grounded(doc)
      BY DEF ReprocessInv, TypeOK
    <3>2. /\ d \in Doc /\ d.shown = "reprocessing"
          /\ d.result = doc.result /\ d.failed = doc.failed
      BY <3>1 DEF Doc, QueryStatus
    <3>3. isLate \in BOOLEAN /\ WriteDoc(h, d, isLate) /\ (isLate \/ owes # {})
      BY <2>2
    <3> HIDE DEF d, isLate
    <3>4. Fine(d) /\ Grounded(d)
      BY <3>1, <3>2 DEF Fine, Grounded
    <3> QED BY <1>1, <2>1, <3>2, <3>3, <3>4 DEF Writes, Holding
  <2>3. CASE Goto(h, "done") /\ UNCHANGED doc
    BY <1>1, <2>1, <2>3 DEF Pass, Pcs, Holding
  <2> QED BY <1>4, <2>2, <2>3 DEF WriteAuto
<1> QED BY <1>2, <1>3, <1>4 DEF AutoStep

\* The steps of an answer's handler.
LEMMA AnswerKinds ==
    ASSUME ReprocessInv, NEW h \in Answers, AnswerStep(h)
    PROVE  Pass(h) \/ Writes(h) \/ Reads(h)
<1>1. /\ h \in Handlers /\ h \notin Retries /\ h \notin Reprocesses
      /\ task[h] \in Task /\ Knows(h) /\ doc \in Doc /\ Grounded(doc)
      /\ (Ends(h) => task[h].final) /\ \A s \in Services : ~Stores(h, s)
  BY ReprocessAssumption, EndsWhere DEF Handlers, ReprocessInv, TypeOK, Stores
<1>2. CASE Receive(h)
  <2>1. task[h].pc = "receive" /\ UNCHANGED <<version, doc, log, owes, got>>
    BY <1>2 DEF Receive, At
  <2>2. CASE Break(h, "done")
    BY <2>1, <2>2 DEF Pass, Pcs, Holding
  <2>3. CASE task' = [task EXCEPT ![h].copy = doc, ![h].pc = "save"]
    <3> DEFINE x == [task[h] EXCEPT !.copy = doc, !.pc = "save"]
    <3>1. /\ x \in Task /\ x.copy = doc /\ x.pc = "save"
          /\ x.broken = task[h].broken /\ x.late = task[h].late
          /\ x.data = task[h].data /\ x.final = task[h].final
      BY <1>1 DEF Task, AnswerPc
    <3>2. task[h].data \subseteq got'
      BY <1>1, <2>1 DEF Knows
    <3>3. task' = [task EXCEPT ![h] = x]
      BY <1>1, <2>3 DEF ReprocessInv, TypeOK
    <3> HIDE DEF x
    <3> QED BY <1>1, <2>1, <3>1, <3>2, <3>3 DEF Reads
  <2> QED BY <1>2, <2>2, <2>3 DEF Receive
<1>3. CASE Save(h)
  <2> DEFINE isLate == \/ version = 2 /\ task[h].data # got
                       \/ version = 1 /\ task[h].copy # doc
                       \/ ~task[h].final /\ owes = {}
  <2>1. /\ task[h].pc = "save" /\ UNCHANGED <<version, log, owes, got>>
        /\ WriteDoc(h, Merged(h), isLate)
    BY <1>3 DEF Save, At
  <2>2. /\ Fine(task[h].copy) /\ task[h].copy \in Doc /\ task[h].data \in SUBSET Services
        /\ task[h].data \subseteq got
    BY <1>1, <2>1 DEF Knows, Task
  <2>3. ShownAfter(h) \in QueryStatus
    BY DEF ShownAfter, QueryStatus
  <2>4. version \in {1, 2}
    BY DEF ReprocessInv, TypeOK
  <2>5. Merged(h) \in Doc /\ Merged(h).result \cup Merged(h).failed = Services
    <3>1. CASE version = 2
      BY <2>2, <2>3, <3>1 DEF Merged, Doc
    <3>2. CASE version = 1
      <4>1. task[h].copy.result \cup task[h].copy.failed = Services
        BY <2>2, <3>2 DEF Fine
      <4> QED BY <2>2, <2>3, <3>2, <4>1 DEF Merged, Doc
    <3> QED BY <2>4, <3>1, <3>2
  <2>6. Merged(h).shown = ShownAfter(h)
    BY DEF Merged
  <2>7. isLate \/ owes # {} \/ Merged(h).shown # "reprocessing"
    BY <2>6 DEF ShownAfter
  <2>8. /\ Fine(Merged(h)) /\ Grounded(Merged(h))
        /\ isLate \/ doc.result \subseteq Merged(h).result
    <3>1. CASE version = 2
      <4>1. Merged(h).result = task[h].data
        BY <3>1 DEF Merged
      <4> QED BY <1>1, <2>2, <2>5, <3>1, <4>1 DEF Fine, Grounded
    <3>2. CASE version = 1
      <4>1. Merged(h).result = task[h].copy.result \cup task[h].data
        BY <3>2 DEF Merged
      <4> QED BY <2>5, <3>2, <4>1 DEF Fine, Grounded
    <3> QED BY <2>4, <3>1, <3>2
  <2>9. isLate \in BOOLEAN
    OBVIOUS
  <2> HIDE DEF isLate
  <2> QED BY <1>1, <2>1, <2>5, <2>7, <2>8, <2>9 DEF Writes, Holding
<1>4. CASE SaveFails(h)
  BY <1>4 DEF SaveFails, Pass, At, Pcs, Holding
<1> QED BY <1>2, <1>3, <1>4 DEF AnswerStep

\* The steps of a retry.
LEMMA RetryKinds ==
    ASSUME ReprocessInv, NEW h \in Retries, RetryStep(h)
    PROVE  Pass(h) \/ Writes(h) \/ Logs(h)
<1>1. /\ h \in Handlers /\ h \notin Answers /\ ~Ends(h)
      /\ task[h] \in Task /\ Knows(h) /\ doc \in Doc /\ log \in [Services -> Log]
  BY ReprocessAssumption, EndsWhere DEF Handlers, ReprocessInv, TypeOK
<1>2. CASE CheckLog(h)
  <2>1. \E pc \in {"done", "mark"} : Goto(h, pc)
    BY <1>2 DEF CheckLog
  <2> QED BY <1>1, <1>2, <2>1 DEF CheckLog, Pass, At, Pcs, RetryPc, Holding
<1>3. CASE CallProvider(h)
  BY <1>1, <1>3 DEF CallProvider, Pass, At, Pcs, RetryPc, Holding
<1>4. CASE RetryFails(h)
  BY <1>1, <1>4 DEF RetryFails, Pass, At, Pcs, RetryPc, Holding
<1>5. ASSUME NEW s \in Services, task[h].data = {s} PROVE Target(h) = s
  BY <1>5 DEF Target
<1>6. task[h].pc \notin {"begin", "done"} => Target(h) \in Services
  BY <1>1, <1>5 DEF Knows
<1>7. CASE MarkLog(h)
  <2>1. log' = [log EXCEPT ![Target(h)].busy = TRUE]
    BY <1>7 DEF MarkLog
  <2>2. /\ log' \in [Services -> Log] /\ \A s \in Services : s # Target(h) => log'[s] = log[s]
        /\ log'[Target(h)].ok = log[Target(h)].ok
    BY <1>1, <1>6, <1>7, <2>1 DEF Log, MarkLog, At
  <2> QED BY <1>7, <2>2 DEF MarkLog, Logs, At
<1>8. CASE FailLog(h)
  <2>1. log' = [log EXCEPT ![Target(h)] = [busy |-> FALSE, ok |-> FALSE]]
        /\ Target(h) \in Services
    BY <1>6, <1>8 DEF FailLog, At
  <2>2. /\ log' \in [Services -> Log] /\ \A s \in Services : s # Target(h) => log'[s] = log[s]
        /\ log'[Target(h)].busy = FALSE /\ log'[Target(h)].ok = FALSE
    BY <1>1, <2>1 DEF Log
  <2> QED BY <1>8, <2>2 DEF FailLog, Logs, At
<1>9. CASE SaveLog(h)
  <2>1. log' = [log EXCEPT ![Target(h)] = [busy |-> FALSE, ok |-> TRUE]]
        /\ Target(h) \in Services
    BY <1>6, <1>9 DEF SaveLog, At
  <2>2. /\ log' \in [Services -> Log] /\ \A s \in Services : s # Target(h) => log'[s] = log[s]
        /\ log'[Target(h)].busy = FALSE
    BY <1>1, <2>1 DEF Log
  <2> QED BY <1>9, <2>2 DEF SaveLog, Logs, At
<1>10. CASE Rollback(h)
  <2>1. task[h].pc = "rollback" /\ UNCHANGED <<version, doc, owes, got>>
    BY <1>10 DEF Rollback, At
  <2>2. CASE log' = [log EXCEPT ![Target(h)].busy = FALSE] /\ Goto(h, "done")
    <3>1. Target(h) \in Services
      BY <1>6, <2>1
    <3>2. /\ log' \in [Services -> Log]
          /\ \A s \in Services : s # Target(h) => log'[s] = log[s]
          /\ log'[Target(h)].busy = FALSE /\ log'[Target(h)].ok = log[Target(h)].ok
      BY <1>1, <2>2, <3>1 DEF Log
    <3> QED BY <2>1, <2>2, <3>2 DEF Logs
  <2>3. CASE Break(h, "done") /\ UNCHANGED log
    BY <1>1, <2>1, <2>3 DEF Pass, Pcs, Holding
  <2> QED BY <1>10, <2>2, <2>3 DEF Rollback
<1>11. CASE SaveQuery(h)
  <2> DEFINE d == [doc EXCEPT !.failed = task[h].copy.failed \ task[h].data,
                              !.result = task[h].copy.result \cup task[h].data]
             isLate == task[h].copy # doc
  <2>1. /\ task[h].pc = "saveQuery" /\ UNCHANGED <<version, log, owes, got>>
        /\ WriteDoc(h, d, isLate)
    BY <1>11 DEF SaveQuery, At
  <2>2. /\ task[h].copy \in Doc /\ task[h].data \in SUBSET Services /\ version = 1
        /\ task[h].copy.result \cup task[h].copy.failed = Services
    BY <1>1, <2>1 DEF Knows, Fine, Task
  <2>3. /\ d \in Doc /\ d.result \cup d.failed = Services
        /\ d.shown = doc.shown /\ d.result = task[h].copy.result \cup task[h].data
    BY <1>1, <2>2 DEF Doc
  <2>4. isLate \in BOOLEAN /\ (isLate \/ task[h].copy = doc)
    OBVIOUS
  <2> HIDE DEF d, isLate
  <2>5. Fine(d) /\ Grounded(d) /\ (isLate \/ doc.result \subseteq d.result)
    BY <2>2, <2>3, <2>4 DEF Fine, Grounded
  <2>6. \A s \in Services : Stores(h, s) => s \in d.result
    BY <2>3 DEF Stores
  <2> QED BY <1>1, <2>1, <2>3, <2>4, <2>5, <2>6 DEF Writes, Holding
<1> QED BY <1>2, <1>3, <1>4, <1>7, <1>8, <1>9, <1>10, <1>11 DEF RetryStep

\* A process that dies.
LEMMA CrashKinds ==
    ASSUME NEW h \in Handlers, Crash(h)
    PROVE  Pass(h)
BY DEF Crash, Pass, Pcs

-----------------------------------------------------------------------------
(* What each kind of step keeps.                                           *)

\* What a handler knows does not depend on the others.
LEMMA OthersKnow ==
    ASSUME ReprocessInv, NEW h \in Handlers, Others(h), UNCHANGED version, got \subseteq got',
           NEW g \in Handlers, g # h
    PROVE  Knows(g)'
<1>1. Knows(g) /\ task'[g] = task[g]
  BY DEF ReprocessInv, Others
<1> QED BY <1>1 DEF Knows, Fine, Grounded

\* A step that passes.
LEMMA PassKeeps ==
    ASSUME ReprocessInv, NEW h \in Handlers, Pass(h)
    PROVE  /\ task' \in [Handlers -> Task] /\ Others(h)
           /\ Knows(h)'
           /\ \A s \in Services : Holds(h, s) => Holds(h, s)'
           /\ Excuses(h) => Excuses(h)'
           /\ Ends(h) \/ owes # {} => owes' # {} \/ Ends(h)' \/ Excuses(h)'
           /\ \A s \in Services : Stores(h, s) => Excuses(h)'
<1>1. PICK pc \in Pcs \ {"begin"} :
         /\ Goto(h, pc) \/ Break(h, pc)
         /\ h \in Answers => pc = "done"
         /\ task[h].pc \in Holding => pc \in Holding \/ Break(h, pc)
         /\ owes # {} => \/ owes' # {}
                         \/ h \in Reprocesses /\ pc = "write"
                         \/ h \in Replaces /\ pc = "ask"
         /\ Ends(h) => owes' # {} \/ Break(h, pc)
         /\ task[h].pc = "saveQuery" => Break(h, pc)
  BY DEF Pass
<1>2. /\ task' \in [Handlers -> Task] /\ Others(h)
      /\ task'[h].pc = pc /\ task'[h].late = task[h].late
      /\ pc # "done" => task'[h].copy = task[h].copy
      /\ h \in Retries => task'[h].data = task[h].data
      /\ Goto(h, pc) => task'[h].broken = task[h].broken
      /\ Break(h, pc) => task'[h].broken = TRUE
  BY <1>1, GotoEffect, BreakEffect DEF ReprocessInv
<1>3. Knows(h) /\ UNCHANGED <<version, got>> /\ task[h].pc \notin {"begin", "done"}
  BY DEF ReprocessInv, Pass
<1>4. Knows(h)'
  BY <1>1, <1>2, <1>3 DEF Knows, Fine, Grounded
<1>5. ASSUME NEW s \in Services, Holds(h, s) PROVE Holds(h, s)'
  BY <1>1, <1>2, <1>5, Zenon DEF Holds
<1>6. Excuses(h) => Excuses(h)'
  BY <1>1, <1>2, Zenon DEF Excuses
<1>7. Break(h, pc) => Excuses(h)'
  BY <1>2 DEF Excuses
<1>8. Ends(h) \/ owes # {} => owes' # {} \/ Ends(h)' \/ Excuses(h)'
  <2>1. (h \in Reprocesses /\ pc = "write") \/ (h \in Replaces /\ pc = "ask") => Ends(h)'
    BY <1>2 DEF Ends
  <2> QED BY <1>1, <1>7, <2>1
<1>9. ASSUME NEW s \in Services, Stores(h, s) PROVE Excuses(h)'
  BY <1>1, <1>7, <1>9 DEF Stores
<1> QED BY <1>2, <1>4, <1>5, <1>6, <1>8, <1>9

\* A step that writes the query.
LEMMA WritesKeeps ==
    ASSUME ReprocessInv, NEW h \in Handlers, Writes(h)
    PROVE  /\ task' \in [Handlers -> Task] /\ Others(h)
           /\ doc' \in Doc /\ Fine(doc') /\ Grounded(doc')
           /\ Knows(h)'
           /\ \A s \in Services : Holds(h, s) => Holds(h, s)'
           /\ task[h].pc # "done" /\ task'[h].pc = "done"
           /\ Excuses(h) => Excuses(h)'
           /\ task'[h].late \/ doc.result \subseteq doc'.result
           /\ \/ task'[h].late \/ owes # {} \/ doc'.shown # "reprocessing"
              \/ doc.shown = "reprocessing" /\ ~Ends(h)
           /\ \A s \in Services : Stores(h, s) => s \in doc'.result
<1>1. PICK d \in Doc, isLate \in BOOLEAN :
         /\ WriteDoc(h, d, isLate) /\ Fine(d) /\ Grounded(d)
         /\ isLate \/ doc.result \subseteq d.result
         /\ \/ isLate \/ owes # {} \/ d.shown # "reprocessing"
            \/ doc.shown = "reprocessing" /\ ~Ends(h)
         /\ \A s \in Services : Stores(h, s) => s \in d.result
  BY DEF Writes
<1>2. /\ task' \in [Handlers -> Task] /\ Others(h)
      /\ doc' = d /\ task'[h].pc = "done" /\ task'[h].late = isLate
      /\ h \in Retries => task'[h].data = task[h].data
      /\ task'[h].broken = task[h].broken
  BY <1>1, WriteEffect DEF ReprocessInv
<1>3. Knows(h)'
  BY <1>2 DEF Knows
<1>4. ASSUME NEW s \in Services, Holds(h, s) PROVE Holds(h, s)'
  BY <1>2, <1>4, Zenon DEF Holds, Writes
<1>5. task[h].pc # "done" /\ ~task[h].late
  BY DEF Writes, ReprocessInv, Knows
<1>6. Excuses(h) => Excuses(h)'
  BY <1>2, <1>5 DEF Excuses
<1> QED BY <1>1, <1>2, <1>3, <1>4, <1>5, <1>6

\* A step that reads it.
LEMMA ReadsKeeps ==
    ASSUME ReprocessInv, NEW h \in Handlers, Reads(h)
    PROVE  /\ task' \in [Handlers -> Task] /\ Others(h)
           /\ Knows(h)'
           /\ Excuses(h) => Excuses(h)'
           /\ Ends(h) \/ owes # {} => owes' # {} \/ Ends(h)'
<1>1. PICK x \in Task :
         /\ task' = [task EXCEPT ![h] = x]
         /\ h \in Reprocesses \/ (h \in Answers /\ x.pc = "save") => x.copy = doc
         /\ x.broken = task[h].broken /\ x.late = task[h].late
         /\ task[h].pc # "done"
         /\ h \in Answers => x.data \subseteq got'
         /\ Ends(h) \/ (owes # {} /\ owes' = {}) =>
               h \in Answers /\ x.pc \in {"receive", "save"} /\ x.final
  BY DEF Reads
<1>2. task' \in [Handlers -> Task] /\ Others(h) /\ task'[h] = x
  BY <1>1, TaskUpdate DEF ReprocessInv
<1>3. /\ h \notin Retries /\ UNCHANGED <<version, doc>> /\ Fine(doc) /\ Grounded(doc)
      /\ h \in Reprocesses => version = 2
      /\ got \subseteq got' /\ Knows(h)
  BY DEF Reads, ReprocessInv
<1>4. /\ h \in Reprocesses => Fine(x.copy)' /\ Grounded(x.copy)'
      /\ h \in Answers /\ x.pc = "save" => Fine(x.copy)'
  BY <1>1, <1>3 DEF Fine, Grounded
<1>5. ~x.late
  BY <1>1, <1>3 DEF Knows
<1>6. Knows(h)'
  BY <1>1, <1>2, <1>3, <1>4, <1>5 DEF Knows
<1>7. Excuses(h) => Excuses(h)'
  BY <1>1, <1>2 DEF Excuses
<1>8. Ends(h) \/ (owes # {} /\ owes' = {}) => Ends(h)'
  BY <1>1, <1>2 DEF Ends
<1> QED BY <1>2, <1>6, <1>7, <1>8

\* A retry knows its service.
LEMMA TargetIs ==
    ASSUME NEW h, NEW s \in Services, task[h].data = {s}
    PROVE  Target(h) = s
BY DEF Target

\* A step that writes the log of its service.
LEMMA LogsKeeps ==
    ASSUME ReprocessInv, NEW h \in Handlers, Logs(h)
    PROVE  /\ task' \in [Handlers -> Task] /\ Others(h)
           /\ Knows(h)'
           /\ task[h].data = {Target(h)} /\ task'[h].data = {Target(h)}
           /\ task'[h].pc = "call" \/ log'[Target(h)].busy = FALSE
           /\ log'[Target(h)].ok => log[Target(h)].ok \/ task'[h].pc = "saveQuery"
           /\ Excuses(h) => Excuses(h)'
<1>1. PICK pc \in {"call", "saveQuery", "done"} :
         /\ Goto(h, pc)
         /\ pc # "call" => log'[Target(h)].busy = FALSE
         /\ log'[Target(h)].ok => log[Target(h)].ok \/ pc = "saveQuery"
  BY DEF Logs
<1>2. pc \in Pcs
  BY DEF Pcs, RetryPc
<1>3. /\ task' \in [Handlers -> Task] /\ Others(h)
      /\ task'[h].pc = pc
      /\ pc # "done" => task'[h].copy = task[h].copy
      /\ h \in Retries => task'[h].data = task[h].data
      /\ task'[h].broken = task[h].broken /\ task'[h].late = task[h].late
  BY <1>1, <1>2, GotoEffect DEF ReprocessInv
<1>4. /\ Knows(h) /\ UNCHANGED version /\ h \in Retries
      /\ task[h].pc \notin {"begin", "done"}
  BY DEF ReprocessInv, Logs
<1>5. h \notin Reprocesses /\ h \notin Answers
  BY <1>4, ReprocessAssumption
<1>6. PICK s \in Services : task[h].data = {s}
  BY <1>4 DEF Knows
<1>7. Target(h) = s
  BY <1>6, TargetIs
<1>8. Knows(h)'
  BY <1>3, <1>4, <1>5 DEF Knows, Fine
<1>9. Excuses(h) => Excuses(h)'
  BY <1>3 DEF Excuses
<1> QED BY <1>1, <1>3, <1>4, <1>6, <1>7, <1>8, <1>9

\* A retry begins.
LEMMA RetryBegins ==
    ASSUME ReprocessInv, NEW h \in Retries, NEW s \in Services, BeginRetry(h, s)
    PROVE  /\ task' \in [Handlers -> Task] /\ Others(h)
           /\ Knows(h)' /\ task[h].pc = "begin" /\ UNCHANGED <<version, doc, log, owes, got>>
           /\ Excuses(h) => Excuses(h)'
<1> DEFINE x == [task[h] EXCEPT !.copy = doc, !.data = {s}, !.pc = "check"]
<1>1. /\ h \in Handlers /\ h \notin Reprocesses /\ h \notin Answers
      /\ TypeOK /\ task[h] \in Task /\ doc \in Doc /\ Fine(doc)
  BY ReprocessAssumption DEF Handlers, ReprocessInv, TypeOK
<1>2. /\ x \in Task /\ x.copy = doc /\ x.data = {s}
      /\ x.broken = task[h].broken /\ x.late = task[h].late
  BY <1>1 DEF Task, RetryPc
<1>3. task' = [task EXCEPT ![h] = x]
  BY <1>1 DEF BeginRetry, TypeOK
<1> HIDE DEF x
<1>4. task' \in [Handlers -> Task] /\ Others(h) /\ task'[h] = x
  BY <1>1, <1>2, <1>3, TaskUpdate
<1>5. version = 1 /\ task[h].pc = "begin" /\ UNCHANGED <<version, doc, log, owes, got>>
  BY DEF BeginRetry, At
<1>6. ~task[h].late
  BY <1>1, <1>5 DEF ReprocessInv, Knows
<1>7. Knows(h)'
  BY <1>1, <1>2, <1>4, <1>5, <1>6 DEF Knows, Fine
<1>8. Excuses(h) => Excuses(h)'
  BY <1>2, <1>4 DEF Excuses
<1> QED BY <1>4, <1>5, <1>7, <1>8

\* Every other beginning reads.
LEMMA StartReads ==
    ASSUME ReprocessInv, Start
    PROVE  \/ \E h \in Handlers : Reads(h)
           \/ \E h \in Retries, s \in Services : BeginRetry(h, s)
<1>1. ASSUME NEW h \in Reprocesses, BeginReprocess(h) PROVE h \in Handlers /\ Reads(h)
  <2> DEFINE pc == IF doc.failed # {} /\ doc.shown # "reprocessing" THEN "ask" ELSE "restore"
             x == [task[h] EXCEPT !.copy = doc, !.pc = pc]
  <2>1. h \in Handlers /\ h \notin Retries /\ task[h] \in Task /\ doc \in Doc
    BY ReprocessAssumption DEF Handlers, ReprocessInv, TypeOK
  <2>2. task' = [task EXCEPT ![h].copy = doc, ![h].pc = pc]
    BY <1>1 DEF BeginReprocess
  <2>3. pc \in CallPc
    BY DEF CallPc
  <2> HIDE DEF pc
  <2>4. /\ x \in Task /\ x.copy = doc
        /\ x.broken = task[h].broken /\ x.late = task[h].late
    BY <2>1, <2>3 DEF Task
  <2>5. task' = [task EXCEPT ![h] = x]
    BY <2>1, <2>2 DEF ReprocessInv, TypeOK
  <2>6. /\ task[h].pc = "begin" /\ version = 2 /\ h \notin Answers
        /\ UNCHANGED <<version, doc, log, owes, got>>
    BY <1>1, ReprocessAssumption DEF BeginReprocess, At
  <2>7. ~Ends(h)
    BY <2>1, <2>6, EndsWhere
  <2> HIDE DEF x
  <2> QED BY <2>1, <2>4, <2>5, <2>6, <2>7 DEF Reads
<1>2. ASSUME NEW h \in Replaces \cup AutoRequests, NEW pc \in Pcs, Goto(h, pc),
             task[h].pc = "begin", UNCHANGED <<version, doc, log, owes, got>>
      PROVE  h \in Handlers /\ Reads(h)
  <2>1. h \in Handlers /\ h \notin Retries /\ h \notin Reprocesses /\ h \notin Answers
    BY ReprocessAssumption DEF Handlers
  <2>2. /\ Move(h, pc) \in Task /\ task' = [task EXCEPT ![h] = Move(h, pc)]
        /\ Move(h, pc).broken = task[h].broken /\ Move(h, pc).late = task[h].late
    BY <1>2, <2>1, MoveFields DEF Goto, ReprocessInv
  <2>3. ~Ends(h)
    BY <1>2, <2>1, EndsWhere
  <2> QED BY <1>2, <2>1, <2>2, <2>3 DEF Reads
<1>3. ASSUME NEW h \in Replaces, BeginReplace(h) PROVE h \in Handlers /\ Reads(h)
  BY <1>2, <1>3 DEF BeginReplace, At, Pcs, CallPc
<1>4. ASSUME NEW h \in AutoRequests, BeginAuto(h) PROVE h \in Handlers /\ Reads(h)
  BY <1>2, <1>4 DEF BeginAuto, At, Pcs, CallPc
<1>5. ASSUME NEW m \in Answers, NEW R \in SUBSET Services, NEW final \in BOOLEAN,
             Answer(m, R, final)
      PROVE  m \in Handlers /\ Reads(m)
  <2> DEFINE x == [task[m] EXCEPT !.data = R, !.final = final, !.pc = "receive"]
  <2>1. /\ m \in Handlers /\ m \notin Retries /\ m \notin Reprocesses /\ task[m] \in Task
    BY ReprocessAssumption DEF Handlers, ReprocessInv, TypeOK
  <2>2. /\ x \in Task /\ x.pc = "receive" /\ x.final = final /\ x.data = R
        /\ x.broken = task[m].broken /\ x.late = task[m].late
    BY <2>1 DEF Task, AnswerPc
  <2>3. task' = [task EXCEPT ![m] = x]
    BY <1>5, <2>1 DEF Answer, ReprocessInv, TypeOK
  <2>4. /\ UNCHANGED <<version, doc, log>> /\ task[m].pc = "provider"
        /\ got' = got \cup R /\ (final \/ owes' = owes)
    BY <1>5 DEF Answer, At
  <2>5. ~Ends(m)
    BY <2>1, <2>4, EndsWhere
  <2> HIDE DEF x
  <2> QED BY <2>1, <2>2, <2>3, <2>4, <2>5 DEF Reads
<1> QED BY <1>1, <1>3, <1>4, <1>5 DEF Start

\* The provider's variables keep their types.
LEMMA RestTyped ==
    ASSUME TypeOK, Next
    PROVE  /\ UNCHANGED version
           /\ owes' \subseteq Reprocesses \cup Replaces \cup AutoRequests
           /\ got \subseteq got' /\ got' \subseteq Services
           /\ auto' \in AutoStatus
<1> USE DEF TypeOK, AutoStatus
<1>1. CASE Start
  <2>1. CASE \E m \in Answers, R \in SUBSET Services, final \in BOOLEAN : Answer(m, R, final)
    BY <2>1 DEF Answer
  <2> QED BY <1>1, <2>1 DEF Start, BeginReprocess, BeginReplace, BeginAuto, BeginRetry
<1>2. ASSUME NEW h \in Reprocesses, ReprocessStep(h)
      PROVE  /\ UNCHANGED <<version, got>> /\ auto' \in AutoStatus
             /\ owes' \subseteq Reprocesses \cup Replaces \cup AutoRequests
  BY <1>2 DEF ReprocessStep, AskReprocess, AskReprocessFails, Cancel, CancelFails,
              WriteReprocessing, WriteReprocessingFails, Restore
<1>3. ASSUME NEW h \in Replaces, ReplaceStep(h)
      PROVE  /\ UNCHANGED <<version, got>> /\ auto' \in AutoStatus
             /\ owes' \subseteq Reprocesses \cup Replaces \cup AutoRequests
  BY <1>3 DEF ReplaceStep, Cancel, CancelFails, AskReplace, AskReplaceFails
<1>4. ASSUME NEW h \in AutoRequests, AutoStep(h)
      PROVE  /\ UNCHANGED <<version, got>> /\ auto' \in AutoStatus
             /\ owes' \subseteq Reprocesses \cup Replaces \cup AutoRequests
  BY <1>4 DEF AutoStep, AskedBefore, AskAuto, AskAutoFails, WriteAuto
<1>5. ASSUME NEW h, RetryStep(h) \/ AnswerStep(h) \/ Crash(h)
      PROVE  UNCHANGED <<version, got, auto, owes>>
  BY <1>5 DEF RetryStep, AnswerStep, CheckLog, MarkLog, CallProvider, FailLog, SaveLog,
              SaveQuery, RetryFails, Rollback, Receive, Save, SaveFails, Crash
<1> QED BY <1>1, <1>2, <1>3, <1>4, <1>5 DEF Next, Step

\* Every step of a handler that has started is of one of the kinds.
LEMMA StepKinds ==
    ASSUME ReprocessInv, NEW h \in Handlers, Step(h) \/ Crash(h)
    PROVE  Pass(h) \/ Writes(h) \/ Reads(h) \/ Logs(h)
BY ReprocessKinds, ReplaceKinds, AutoKinds, AnswerKinds, RetryKinds, CrashKinds DEF Step

-----------------------------------------------------------------------------
(* The theorems.                                                           *)

\* The invariant holds at first.
LEMMA ReprocessInit ==
    ASSUME Init
    PROVE  ReprocessInv /\ BusyIsHeld
<1>1. PICK F \in SUBSET Services \ {{}} :
         doc = [shown |-> IF version = 1 THEN "pending" ELSE "partial",
                result |-> Services \ F, failed |-> F]
  BY DEF Init
<1>2. doc \in Doc /\ Fine(doc) /\ Grounded(doc)
  BY <1>1 DEF Init, Doc, QueryStatus, Fine, Grounded
<1>3. NoCopy \in Doc
  BY DEF NoCopy, Doc, QueryStatus
<1>4. task \in [Handlers -> Task]
  BY <1>3 DEF Init, Task, CallPc, AnswerPc
<1>5. \A h \in Handlers : /\ h \in Answers => task[h].pc = "provider"
                          /\ h \notin Answers => task[h].pc = "begin"
                          /\ ~task[h].late
  BY DEF Init
<1>6. \A h \in Handlers : Knows(h)
  BY <1>5, ReprocessAssumption DEF Knows
<1>7. \A s \in Services : log[s].busy = FALSE
  BY DEF Init
<1>8. log \in [Services -> Log]
  BY DEF Init, Log
<1>9. /\ version \in {1, 2} /\ owes \subseteq Reprocesses \cup Replaces \cup AutoRequests
      /\ got \subseteq Services /\ auto \in AutoStatus
  BY <1>1 DEF Init, AutoStatus
<1> QED BY <1>2, <1>4, <1>6, <1>7, <1>8, <1>9 DEF ReprocessInv, TypeOK, BusyIsHeld

\* One handler's step keeps it, when it is of a known effect.
LEMMA EffectKeepsInv ==
    ASSUME ReprocessInv, Next, NEW h \in Handlers, task' \in [Handlers -> Task], Others(h),
           Knows(h)', doc' \in Doc, Fine(doc'), Grounded(doc'), log' \in [Services -> Log]
    PROVE  ReprocessInv'
<1>1. /\ UNCHANGED version
      /\ owes' \subseteq Reprocesses \cup Replaces \cup AutoRequests
      /\ got \subseteq got' /\ got' \subseteq Services
      /\ auto' \in AutoStatus
  BY RestTyped DEF ReprocessInv
<1>2. ASSUME NEW g \in Handlers PROVE Knows(g)'
  BY <1>1, OthersKnow
<1>3. TypeOK'
  BY <1>1 DEF TypeOK, ReprocessInv
<1>4. Fine(doc)' /\ Grounded(doc)'
  BY <1>1 DEF Fine, Grounded
<1> QED BY <1>2, <1>3, <1>4 DEF ReprocessInv

\* Every step keeps it.
LEMMA ReprocessNext ==
    ASSUME ReprocessInv, [Next]_vars
    PROVE  ReprocessInv'
<1>1. doc \in Doc /\ Fine(doc) /\ Grounded(doc) /\ log \in [Services -> Log]
  BY DEF ReprocessInv, TypeOK
<1>2. ASSUME Next, NEW h \in Handlers, Pass(h) PROVE ReprocessInv'
  BY <1>1, <1>2, PassKeeps, EffectKeepsInv DEF Pass, Fine
<1>3. ASSUME Next, NEW h \in Handlers, Writes(h) PROVE ReprocessInv'
  BY <1>1, <1>3, WritesKeeps, EffectKeepsInv DEF Writes
<1>4. ASSUME Next, NEW h \in Handlers, Reads(h) PROVE ReprocessInv'
  BY <1>1, <1>4, ReadsKeeps, EffectKeepsInv DEF Reads
<1>5. ASSUME Next, NEW h \in Handlers, Logs(h) PROVE ReprocessInv'
  BY <1>1, <1>5, LogsKeeps, EffectKeepsInv DEF Logs
<1>6. ASSUME Next, NEW h \in Retries, NEW s \in Services, BeginRetry(h, s) PROVE ReprocessInv'
  <2>1. h \in Handlers
    BY DEF Handlers
  <2> QED BY <1>1, <1>6, <2>1, RetryBegins, EffectKeepsInv
<1>7. CASE Start
  BY <1>4, <1>6, <1>7, StartReads DEF Next
<1>8. CASE \E h \in Handlers : Step(h) \/ Crash(h)
  BY <1>2, <1>3, <1>4, <1>5, <1>8, StepKinds DEF Next
<1>9. CASE UNCHANGED vars
  BY <1>9 DEF vars, ReprocessInv, TypeOK, Fine, Grounded, Knows
<1> QED BY <1>7, <1>8, <1>9 DEF Next

\* Type correctness of the query, its logs and its handlers in every reachable state.
THEOREM ReprocessTypeOK == Spec => []TypeOK
<1>1. Init => ReprocessInv
  BY ReprocessInit
<1>2. ReprocessInv /\ [Next]_vars => ReprocessInv'
  BY ReprocessNext
<1>3. ReprocessInv => TypeOK
  BY DEF ReprocessInv
<1> QED BY <1>1, <1>2, <1>3, PTL DEF Spec

\* However stale the writes of the handlers, a query that is not being reprocessed
\* holds the data of each service or lists it as failed (reprocess-query.use-case.ts,
\* response-reprocess-query-v2.use-case.ts, reprocess-failed-service.use-case.ts).
THEOREM NoServiceForgottenTheorem == Spec => []NoServiceForgotten
<1>1. Init => ReprocessInv
  BY ReprocessInit
<1>2. ReprocessInv /\ [Next]_vars => ReprocessInv'
  BY ReprocessNext
<1>3. ReprocessInv => NoServiceForgotten
  BY DEF ReprocessInv, Fine, NoServiceForgotten
<1> QED BY <1>1, <1>2, <1>3, PTL DEF Spec

\* A step of one handler keeps every log held, if it keeps what the handler holds.
LEMMA HeldByOthers ==
    ASSUME BusyIsHeld, NEW h \in Handlers, Others(h), UNCHANGED log,
           \A s \in Services : Holds(h, s) => Holds(h, s)'
    PROVE  BusyIsHeld'
<1> SUFFICES ASSUME NEW s \in Services, log[s].busy PROVE \E g \in Handlers : Holds(g, s)'
  BY DEF BusyIsHeld
<1>1. PICK g \in Handlers : Holds(g, s)
  BY DEF BusyIsHeld
<1>2. CASE g = h
  BY <1>1, <1>2
<1>3. CASE g # h
  <2>1. task'[g] = task[g]
    BY <1>3 DEF Others
  <2> QED BY <1>1, <2>1 DEF Holds
<1> QED BY <1>2, <1>3

\* A step that writes a log releases it or holds it, and keeps the others held.
LEMMA HeldByWriter ==
    ASSUME ReprocessInv, BusyIsHeld, NEW h \in Handlers, Logs(h)
    PROVE  BusyIsHeld'
<1>1. /\ Others(h) /\ task[h].data = {Target(h)} /\ task'[h].data = {Target(h)}
      /\ task'[h].pc = "call" \/ log'[Target(h)].busy = FALSE
  BY LogsKeeps
<1> SUFFICES ASSUME NEW s \in Services, log'[s].busy PROVE \E g \in Handlers : Holds(g, s)'
  BY DEF BusyIsHeld
<1>2. CASE s = Target(h)
  <2>1. task'[h].pc = "call"
    BY <1>1, <1>2
  <2> QED BY <1>1, <1>2, <2>1 DEF Holds, Holding, Logs
<1>3. CASE s # Target(h)
  <2>1. log[s].busy
    BY <1>3 DEF Logs
  <2>2. PICK g \in Handlers : Holds(g, s)
    BY <2>1 DEF BusyIsHeld
  <2>3. g # h
    BY <1>1, <1>3, <2>2 DEF Holds
  <2>4. task'[g] = task[g]
    BY <1>1, <2>3 DEF Others
  <2> QED BY <2>2, <2>4 DEF Holds
<1> QED BY <1>2, <1>3

\* Every step keeps the logs held.
LEMMA BusyNext ==
    ASSUME ReprocessInv, BusyIsHeld, [Next]_vars
    PROVE  BusyIsHeld'
<1>1. ASSUME NEW h \in Handlers, Pass(h) PROVE BusyIsHeld'
  BY <1>1, PassKeeps, HeldByOthers DEF Pass
<1>2. ASSUME NEW h \in Handlers, Writes(h) PROVE BusyIsHeld'
  BY <1>2, WritesKeeps, HeldByOthers DEF Writes
<1>3. ASSUME NEW h \in Handlers, Reads(h) PROVE BusyIsHeld'
  <2>1. \A s \in Services : ~Holds(h, s)
    BY <1>3 DEF Reads, Holds
  <2> QED BY <1>3, <2>1, ReadsKeeps, HeldByOthers DEF Reads
<1>4. ASSUME NEW h \in Handlers, Logs(h) PROVE BusyIsHeld'
  BY <1>4, HeldByWriter
<1>5. ASSUME NEW h \in Retries, NEW s \in Services, BeginRetry(h, s) PROVE BusyIsHeld'
  <2>1. h \in Handlers
    BY DEF Handlers
  <2>2. Others(h) /\ task[h].pc = "begin" /\ UNCHANGED log
    BY <1>5, RetryBegins
  <2>3. \A r \in Services : ~Holds(h, r)
    BY <2>2 DEF Holds
  <2> QED BY <2>1, <2>2, <2>3, HeldByOthers
<1>6. CASE Start
  BY <1>3, <1>5, <1>6, StartReads
<1>7. CASE \E h \in Handlers : Step(h) \/ Crash(h)
  BY <1>1, <1>2, <1>3, <1>4, <1>7, StepKinds
<1>8. CASE UNCHANGED vars
  BY <1>8 DEF vars, BusyIsHeld, Holds
<1> QED BY <1>6, <1>7, <1>8 DEF Next

\* Every way out of a synchronous call releases the log it marked, for any number of
\* overlapping calls, unless a call died or could not write
\* (reprocess-failed-service.use-case.ts:141-203).
THEOREM BusyIsReleasedTheorem == Spec => []BusyIsReleased
<1> DEFINE IInv == ReprocessInv /\ BusyIsHeld
<1>1. Init => IInv
  BY ReprocessInit
<1>2. IInv /\ [Next]_vars => IInv'
  BY ReprocessNext, BusyNext
<1>3. IInv => BusyIsReleased
  <2> SUFFICES ASSUME IInv, AtRest, NEW s \in Services, log[s].busy
               PROVE  \E h \in Retries : task[h].data = {s} /\ task[h].broken
    BY DEF BusyIsReleased
  <2>1. PICK h \in Handlers : Holds(h, s)
    BY DEF BusyIsHeld
  <2>2. task[h].pc \notin Holding
    BY DEF AtRest, Holding
  <2> QED BY <2>1, <2>2 DEF Holds
<1> QED BY <1>1, <1>2, <1>3, PTL DEF Spec

\* Every step is of one of the kinds, and keeps every excuse.
LEMMA NextKinds ==
    ASSUME ReprocessInv, Next
    PROVE  \E h \in Handlers :
              /\ \A g \in Handlers : Excuses(g) => Excuses(g)'
              /\ \/ Pass(h) \/ Writes(h) \/ Reads(h) \/ Logs(h)
                 \/ h \in Retries /\ \E s \in Services : BeginRetry(h, s)
<1>1. ASSUME NEW h \in Handlers, Others(h), Excuses(h) => Excuses(h)', NEW g \in Handlers,
             Excuses(g)
      PROVE  Excuses(g)'
  <2>1. CASE g # h
    BY <1>1, <2>1 DEF Others, Excuses
  <2> QED BY <1>1, <2>1
<1>2. ASSUME NEW h \in Handlers, Pass(h) \/ Writes(h) \/ Reads(h) \/ Logs(h)
      PROVE  \A g \in Handlers : Excuses(g) => Excuses(g)'
  BY <1>1, <1>2, PassKeeps, WritesKeeps, ReadsKeeps, LogsKeeps
<1>3. ASSUME NEW h \in Retries, NEW s \in Services, BeginRetry(h, s)
      PROVE  h \in Handlers /\ \A g \in Handlers : Excuses(g) => Excuses(g)'
  BY <1>1, <1>3, RetryBegins DEF Handlers
<1>4. CASE Start
  BY <1>2, <1>3, <1>4, StartReads
<1>5. CASE \E h \in Handlers : Step(h) \/ Crash(h)
  BY <1>2, <1>5, StepKinds
<1> QED BY <1>4, <1>5 DEF Next

\* A write that is not late keeps the data of every service.
LEMMA ResultsStep ==
    ASSUME ReprocessInv, [Next]_vars
    PROVE  \/ doc.result \subseteq doc'.result
           \/ \E h \in Handlers : doc' # doc /\ task'[h].late /\ task'[h].pc # task[h].pc
<1>1. CASE Next
  <2>1. PICK h \in Handlers :
           \/ Pass(h) \/ Writes(h) \/ Reads(h) \/ Logs(h)
           \/ h \in Retries /\ \E s \in Services : BeginRetry(h, s)
    BY <1>1, NextKinds
  <2>2. CASE Writes(h)
    BY <2>2, WritesKeeps
  <2>3. CASE Pass(h) \/ Reads(h) \/ Logs(h) \/ \E s \in Services : BeginRetry(h, s)
    BY <2>3 DEF Pass, Reads, Logs, BeginRetry
  <2> QED BY <2>1, <2>2, <2>3
<1>2. CASE UNCHANGED vars
  BY <1>2 DEF vars
<1> QED BY <1>1, <1>2

\* The data of a service leaves the query only when a stale copy or an overtaken
\* answer is written (_updateQuery of response-reprocess-query-v2.use-case.ts, the
\* restored copy of reprocess-query.use-case.ts).
THEOREM ResultsAreKeptTheorem == Spec => ResultsAreKept
<1>1. Init => ReprocessInv
  BY ReprocessInit
<1>2. ReprocessInv /\ [Next]_vars => ReprocessInv'
  BY ReprocessNext
<1>3. ReprocessInv /\ [Next]_vars =>
         [doc.result \subseteq doc'.result
          \/ \E h \in Handlers : doc' # doc /\ task'[h].late /\ task'[h].pc # task[h].pc]_vars
  BY ResultsStep
<1> QED BY <1>1, <1>2, <1>3, PTL DEF Spec, ResultsAreKept

\* Every step keeps what a log calls a success in the query, or on its way there.
LEMMA StoredNext ==
    ASSUME ReprocessInv, StoredOrComing, [Next]_vars
    PROVE  StoredOrComing'
<1>1. CASE Next
  <2>1. PICK h \in Handlers :
           /\ \A g \in Handlers : Excuses(g) => Excuses(g)'
           /\ \/ Pass(h) \/ Writes(h) \/ Reads(h) \/ Logs(h)
              \/ h \in Retries /\ \E s \in Services : BeginRetry(h, s)
    BY <1>1, NextKinds
  <2>2. UNCHANGED version
    BY <1>1, RestTyped DEF ReprocessInv
  <2> SUFFICES ASSUME version = 1, NEW s \in Services, log'[s].ok,
                      \A g \in Handlers : ~Excuses(g)'
               PROVE  s \in doc'.result \/ \E g \in Handlers : Stores(g, s)'
    BY <2>2 DEF StoredOrComing
  <2>3. \A g \in Handlers : ~Excuses(g)
    BY <2>1
  <2>4. log[s].ok => s \in doc.result \/ \E g \in Handlers : Stores(g, s)
    BY <2>3 DEF StoredOrComing
  <2>5. ASSUME NEW g \in Handlers, g # h, Others(h), Stores(g, s) PROVE Stores(g, s)'
    BY <2>5 DEF Others, Stores
  <2>6. CASE Pass(h)
    <3>1. Others(h) /\ ~Stores(h, s) /\ UNCHANGED <<doc, log>>
      BY <2>6, PassKeeps DEF Pass
    <3> QED BY <2>4, <2>5, <3>1
  <2>7. CASE Writes(h)
    <3>1. /\ Others(h) /\ UNCHANGED log /\ (Stores(h, s) => s \in doc'.result)
          /\ task'[h].late \/ doc.result \subseteq doc'.result
      BY <2>7, WritesKeeps DEF Writes
    <3>2. doc.result \subseteq doc'.result
      BY <3>1 DEF Excuses
    <3> QED BY <2>4, <2>5, <3>1, <3>2
  <2>8. CASE Reads(h)
    <3>1. Others(h) /\ ~Stores(h, s) /\ UNCHANGED <<doc, log>>
      BY <2>8, ReadsKeeps DEF Reads, Stores
    <3> QED BY <2>4, <2>5, <3>1
  <2>9. CASE Logs(h)
    <3>1. /\ Others(h) /\ UNCHANGED doc /\ ~Stores(h, s) /\ h \in Retries
          /\ task'[h].data = {Target(h)}
          /\ log'[Target(h)].ok => log[Target(h)].ok \/ task'[h].pc = "saveQuery"
          /\ s # Target(h) => log'[s] = log[s]
      BY <2>9, LogsKeeps DEF Logs, Stores
    <3>2. log[s].ok \/ Stores(h, s)'
      BY <3>1 DEF Stores
    <3> QED BY <2>4, <2>5, <3>1, <3>2
  <2>10. CASE h \in Retries /\ \E r \in Services : BeginRetry(h, r)
    <3>1. Others(h) /\ ~Stores(h, s) /\ UNCHANGED <<doc, log>>
      BY <2>10, RetryBegins DEF Stores
    <3> QED BY <2>4, <2>5, <3>1
  <2> QED BY <2>1, <2>6, <2>7, <2>8, <2>9, <2>10
<1>2. CASE UNCHANGED vars
  BY <1>2 DEF vars, StoredOrComing, Stores, Excuses
<1> QED BY <1>1, <1>2

\* A service whose log says it succeeded is in the version 1 query at rest, unless a
\* stale query was written or a step between the two writes failed
\* (reprocess-failed-service.use-case.ts:141-203).
THEOREM SucceededIsStoredTheorem == Spec => []SucceededIsStored
<1> DEFINE IInv == ReprocessInv /\ StoredOrComing
<1>1. Init => IInv
  <2>1. ASSUME Init, NEW s \in Services, log[s].ok PROVE s \in doc.result
    <3>1. log[s].ok = (s \in doc.result)
      BY <2>1, Zenon DEF Init
    <3> QED BY <2>1, <3>1, Zenon
  <2> QED BY <2>1, ReprocessInit DEF StoredOrComing
<1>2. IInv /\ [Next]_vars => IInv'
  BY ReprocessNext, StoredNext
<1>3. IInv => SucceededIsStored
  BY DEF StoredOrComing, SucceededIsStored, AtRest, Stores
<1> QED BY <1>1, <1>2, <1>3, PTL DEF Spec

\* Every step keeps the end of a reprocessing coming.
LEMMA EndNext ==
    ASSUME ReprocessInv, EndIsComing, [Next]_vars
    PROVE  EndIsComing'
<1>1. CASE Next
  <2>1. PICK h \in Handlers :
           /\ \A g \in Handlers : Excuses(g) => Excuses(g)'
           /\ \/ Pass(h) \/ Writes(h) \/ Reads(h) \/ Logs(h)
              \/ h \in Retries /\ \E s \in Services : BeginRetry(h, s)
    BY <1>1, NextKinds
  <2> SUFFICES ASSUME doc'.shown = "reprocessing", owes' = {},
                      \A g \in Handlers : ~Excuses(g)'
               PROVE  \E g \in Handlers : Ends(g)'
    BY DEF EndIsComing
  <2>2. doc.shown = "reprocessing" => owes # {} \/ \E g \in Handlers : Ends(g)
    BY <2>1 DEF EndIsComing
  <2>3. ASSUME NEW g \in Handlers, g # h, Others(h), Ends(g) PROVE Ends(g)'
    BY <2>3 DEF Others, Ends
  <2>4. CASE Pass(h)
    <3>1. Others(h) /\ (Ends(h) \/ owes # {} => Ends(h)') /\ UNCHANGED doc
      BY <2>4, PassKeeps DEF Pass
    <3> QED BY <2>2, <2>3, <3>1
  <2>5. CASE Writes(h)
    <3>1. Others(h) /\ UNCHANGED owes /\ ~task'[h].late
      BY <2>5, WritesKeeps DEF Writes, Excuses
    <3>2. doc.shown = "reprocessing" /\ ~Ends(h)
      BY <2>5, <3>1, WritesKeeps
    <3> QED BY <2>2, <2>3, <3>1, <3>2
  <2>6. CASE Reads(h)
    <3>1. Others(h) /\ (Ends(h) \/ owes # {} => Ends(h)') /\ UNCHANGED doc
      BY <2>6, ReadsKeeps DEF Reads
    <3> QED BY <2>2, <2>3, <3>1
  <2>7. CASE Logs(h) \/ (h \in Retries /\ \E s \in Services : BeginRetry(h, s))
    <3>1. Others(h) /\ UNCHANGED <<doc, owes>> /\ h \in Retries
      BY <2>7, LogsKeeps, RetryBegins DEF Logs
    <3>2. ~Ends(h)
      BY <3>1, EndsWhere
    <3> QED BY <2>2, <2>3, <3>1, <3>2
  <2> QED BY <2>1, <2>4, <2>5, <2>6, <2>7
<1>2. CASE UNCHANGED vars
  BY <1>2 DEF vars, EndIsComing, Ends, Excuses
<1> QED BY <1>1, <1>2

\* No order of requests, cancellations and answers loses the end of a reprocessing: a
\* query left to show one was left so by a stale write, a failed step or a death
\* (reprocess-query.use-case.ts, replace-failed-services.use-case.ts,
\* request-auto-reprocess-query.use-case.ts, response-reprocess-query-v2.use-case.ts).
THEOREM ReprocessingIsExplainedTheorem == Spec => []ReprocessingIsExplained
<1> DEFINE IInv == ReprocessInv /\ EndIsComing
<1>1. Init => IInv
  <2>1. ASSUME Init PROVE doc.shown # "reprocessing"
    BY <2>1 DEF Init
  <2> QED BY <2>1, ReprocessInit DEF EndIsComing
<1>2. IInv /\ [Next]_vars => IInv'
  BY ReprocessNext, EndNext
<1>3. IInv => ReprocessingIsExplained
  BY DEF EndIsComing, ReprocessingIsExplained, AtRest, Ends
<1> QED BY <1>1, <1>2, <1>3, PTL DEF Spec
=============================================================================
