------------------------ MODULE CarSubscriptionProofs -----------------------
(***************************************************************************)
(* Machine-checked proofs about CarSubscription, for any calls: type       *)
(* correctness, that an excluded car is neither billed nor served again    *)
(* but by an overlap or a failure, that the free car is the first, that a  *)
(* billed subscription has its car, and that document and car follow the   *)
(* gateway.                                                                *)
(*                                                                         *)
(* The exclusion is proved from one fact that every write keeps: a car     *)
(* that is excluded and not excused has a subscription that is over, at    *)
(* the gateway for good and in its document.  The last two are proved from *)
(* a second invariant, FollowInv, which says of each of the three copies   *)
(* of a subscription that it agrees with the one before it or that a       *)
(* handler holding the newer state is on its way to write it.              *)
(***************************************************************************)
EXTENDS CarSubscription, TLAPS

-----------------------------------------------------------------------------
(* What a handler relies on at each of its steps.                          *)

\* The gateway never bills the subscription again.
Over(s) == ext[s] \in {"cancelled", "terminated"}

KnowsCar(h) == task[h].car \in Cars /\ car[task[h].car].status # "absent"

\* Cancellations, exclusions and webhooks.
Working(h) ==
    LET t == task[h] IN
    /\ t.pc \in {"begin", "readSub", "exclude", "fetch", "cancel", "syncSub", "findCar",
                 "syncCar", "done"}
    /\ t.pc \in {"readSub", "exclude"} => KnowsCar(h) /\ t.excludes = TRUE
    /\ t.pc = "exclude" => t.carCopy.of = None
    /\ t.pc \in {"fetch", "findCar"} => t.excludes = FALSE
    /\ t.pc \in {"fetch", "cancel", "syncSub", "findCar", "syncCar"} =>
          /\ t.sub \in Subs
          /\ t.excludes = FALSE => t.subCopy # "absent" /\ sub[t.sub] # "absent"
          /\ t.excludes = TRUE \/ t.pc = "syncCar" => KnowsCar(h) /\ t.carCopy.of = t.sub
    /\ t.pc = "syncSub" /\ t.excludes = TRUE => t.seen = "cancelled" /\ Over(t.sub)
    /\ t.pc = "syncCar" /\ t.excludes = TRUE => t.subCopy = "CANCELLING" /\ Over(t.sub)
    /\ t.pc = "begin" => t.excludes = FALSE

\* Purchases and upgrades.
Buying(h) ==
    LET t == task[h] IN
    /\ t.pc \in {"begin", "create", "insertSub", "insertCar", "link", "done"}
    /\ t.pc \in {"begin", "create"} => ext[h] = "none"
    /\ t.pc # "done" => t.sub = h
    /\ t.pc = "insertCar" => h \in Purchases
    /\ h \in Purchases /\ t.pc # "done" => car[h].status = "absent"
    /\ t.pc = "link" => h \in Upgrades
    /\ h \in Upgrades /\ t.pc \in {"create", "insertSub", "link"} =>
          KnowsCar(h) /\ t.carCopy.status = "active"

\* Registrations without a card.
Registering(r) ==
    /\ task[r].pc \in {"begin", "insertFree", "done"}
    /\ task[r].pc = "insertFree" => r \in spoilt \/ \A c \in Cars : car[c].status = "absent"

HandlersInv ==
    /\ \A h \in Calls : Working(h)
    /\ \A h \in Subs : Buying(h)
    /\ \A r \in Registers : Registering(r)

\* A car that is not there has no subscription.
CarInv == \A c \in Cars : car[c].status = "absent" => car[c].of = None

\* A document is only CANCELED when the gateway's subscription has terminated.
CanceledInv == \A s \in Subs : sub[s] = "CANCELED" => ext[s] = "terminated" \/ s \in spoilt

\* The subscription of an excluded car is over.
ExcludedInv ==
    \A c \in Cars : car[c].status = "excluded" /\ car[c].of # None /\ ~Excused(c) =>
       Over(car[c].of) /\ sub[car[c].of] \in {"CANCELLING", "CANCELED"}

DataInv == CarInv /\ CanceledInv /\ ExcludedInv

Inv == TypeOK /\ HandlersInv /\ DataInv

-----------------------------------------------------------------------------
(* Steps.                                                                  *)

\* One handler moves.
Moved(h) ==
    /\ task'[h] \in Task
    /\ task' = [task EXCEPT ![h] = task'[h]]

\* A move leaves the others where they are.
LEMMA MovedEffect ==
    ASSUME TypeOK, NEW h \in Handlers, Moved(h)
    PROVE  /\ task' \in [Handlers -> Task]
           /\ \A g \in Handlers \ {h} : task'[g] = task[g]
BY DEF TypeOK, Moved

\* It still knows what it knew.
Same(h) ==
    /\ task'[h].excludes = task[h].excludes /\ task'[h].sub = task[h].sub
    /\ task'[h].car = task[h].car           /\ task'[h].subCopy = task[h].subCopy
    /\ task'[h].carCopy = task[h].carCopy   /\ task'[h].seen = task[h].seen

\* What Goto does.
LEMMA GotoEffect ==
    ASSUME TypeOK, NEW h \in Handlers, NEW pc \in Pc, Goto(h, pc)
    PROVE  /\ Moved(h)
           /\ task'[h].pc = pc
           /\ pc # "done" => Same(h)
           /\ pc = "done" => task'[h].excludes = FALSE /\ task'[h].carCopy = NoCar
           /\ h \in Upgrades => task'[h].car = task[h].car
<1>1. task[h] \in Task /\ task \in [Handlers -> Task]
  BY DEF TypeOK
<1>2. Ended(h) \in Task
  BY <1>1 DEF Ended, Task, NoCar, Car, CarStatus, SubStatus, ExtStatus, Pc
<1>3. [task[h] EXCEPT !.pc = pc] \in Task
  BY <1>1 DEF Task
<1>4. Move(h, pc) \in Task
  BY <1>2, <1>3 DEF Move
<1>5. task'[h] = Move(h, pc)
  BY <1>1 DEF Goto
<1>6. pc = "done" => /\ task'[h].pc = "done" /\ task'[h].excludes = FALSE
                     /\ task'[h].carCopy = NoCar
                     /\ h \in Upgrades => task'[h].car = task[h].car
  BY <1>5 DEF Move, Ended
<1>7. pc # "done" => task'[h].pc = pc /\ Same(h)
  BY <1>1, <1>5 DEF Move, Task, Same
<1> QED BY <1>4, <1>5, <1>6, <1>7 DEF Goto, Moved, Same

\* What SpoilIf does.
LEMMA SpoilEffect ==
    ASSUME TypeOK, NEW h \in Handlers, NEW b \in BOOLEAN, SpoilIf(h, b)
    PROVE  /\ spoilt' \subseteq Cars \cup Subs /\ spoilt \subseteq spoilt'
           /\ b /\ task[h].sub # None => task[h].sub \in spoilt'
           /\ b /\ task[h].car # None => task[h].car \in spoilt'
BY DEF TypeOK, SpoilIf, Task

\* The statuses of LocalOf.
LEMMA LocalOfStatus ==
    ASSUME NEW e, NEW s \in SubStatus
    PROVE  /\ LocalOf(e, s) \in SubStatus
           /\ s # "absent" => LocalOf(e, s) # "absent"
           /\ e = "cancelled" => LocalOf(e, s) = "CANCELLING"
           /\ e = "terminated" => LocalOf(e, s) = "CANCELED"
           /\ LocalOf(e, s) = "CANCELED" => e = "terminated" \/ s = "CANCELED"
<1> USE DEF SubStatus
<1>1. CASE e = "active"
  BY <1>1 DEF LocalOf
<1>2. CASE e = "cancelled"
  BY <1>2 DEF LocalOf
<1>3. CASE e \in {"expired", "dued"}
  BY <1>3 DEF LocalOf
<1>4. CASE e = "terminated"
  BY <1>4 DEF LocalOf
<1>5. CASE e = "pending"
  BY <1>5 DEF LocalOf
<1>6. CASE e \notin {"active", "cancelled", "expired", "dued", "terminated", "pending"}
  BY <1>6 DEF LocalOf
<1> QED BY <1>1, <1>2, <1>3, <1>4, <1>5, <1>6

-----------------------------------------------------------------------------
(* What every step leaves, which is all that the other handlers rely on.   *)

\* The types of what the handlers share.
SharedOK ==
    /\ ext \in [Subs -> ExtStatus]
    /\ news \subseteq Subs
    /\ sub \in [Subs -> SubStatus]
    /\ car \in [Cars -> Car]
    /\ spoilt \subseteq Cars \cup Subs

\* A step of h, or of the gateway, takes nothing back.
Kept(h) ==
    /\ spoilt \subseteq spoilt'
    /\ \A c \in Cars : car[c].status # "absent" => car'[c].status # "absent"
    /\ \A c \in Cars \ {h} : car[c].status = "absent" => car'[c].status = "absent"
    /\ \A s \in Subs : Over(s) => Over(s)'
    /\ \A s \in Subs : sub[s] # "absent" => sub'[s] # "absent"
    /\ \A s \in Subs \ {h} : ext[s] = "none" => ext'[s] = "none"
    /\ \A r \in Registers \ {h} : task[r].pc = "insertFree" =>
          r \in spoilt' \/ \A c \in Cars : car'[c].status = car[c].status

Mine(h) ==
    /\ h \in Calls => Working(h)
    /\ h \in Subs => Buying(h)
    /\ h \in Registers => Registering(h)

\* The names of handlers, cars and subscriptions.
LEMMA HandlerFacts ==
    /\ \A r \in Registers : r \in Handlers /\ r \notin Subs /\ r \notin Calls /\ r \in Cars
    /\ \A h \in Subs : h \in Handlers /\ h \notin Registers /\ h \notin Calls
    /\ \A h \in Calls : h \in Handlers /\ h \notin Registers /\ h \notin Subs
    /\ \A h \in Purchases : h \in Cars /\ h \in Subs /\ h \notin Upgrades
    /\ \A h \in Upgrades : h \notin Cars /\ h \in Subs /\ h \notin Purchases
    /\ None \notin Cars /\ None \notin Subs
BY SubscriptionAssumption DEF Handlers, Subs, Cars

\* A handler that does not move can go on relying on what it relied on.
LEMMA OthersKeep ==
    ASSUME TypeOK, HandlersInv, NEW h, Kept(h), SharedOK',
           NEW g \in Handlers, g # h, task'[g] = task[g]
    PROVE  Mine(g)'
<1>1. task[g] \in Task
  BY DEF TypeOK
<1>2. KnowsCar(g) => KnowsCar(g)'
  BY DEF KnowsCar, Kept
<1>3. ASSUME g \in Calls PROVE Working(g)'
  <2>1. Working(g)
    BY <1>3 DEF HandlersInv
  <2>2. task[g].sub \in Subs =>
           /\ ext[task[g].sub] \in {"cancelled", "terminated"}
                 => ext'[task[g].sub] \in {"cancelled", "terminated"}
           /\ sub[task[g].sub] # "absent" => sub'[task[g].sub] # "absent"
    BY DEF Kept, Over
  <2> QED BY <1>2, <2>1, <2>2 DEF Working, Over
<1>4. ASSUME g \in Subs PROVE Buying(g)'
  <2>1. Buying(g) /\ (ext[g] = "none" => ext'[g] = "none")
    BY <1>4 DEF HandlersInv, Kept
  <2>2. g \in Purchases /\ car[g].status = "absent" => car'[g].status = "absent"
    BY HandlerFacts DEF Kept
  <2> QED BY <1>2, <2>1, <2>2 DEF Buying
<1>5. ASSUME g \in Registers PROVE Registering(g)'
  <2>1. Registering(g) /\ spoilt \subseteq spoilt'
        /\ (task[g].pc = "insertFree" =>
              g \in spoilt' \/ \A c \in Cars : car'[c].status = car[c].status)
    BY <1>5 DEF HandlersInv, Kept
  <2> QED BY <2>1 DEF Registering
<1> QED BY <1>3, <1>4, <1>5 DEF Mine

\* So a step only has to care for its own handler.
LEMMA HandlersKeep ==
    ASSUME TypeOK, HandlersInv, NEW h \in Handlers, Moved(h), Kept(h), SharedOK', Mine(h)'
    PROVE  TypeOK' /\ HandlersInv'
<1>1. TypeOK'
  BY MovedEffect DEF TypeOK, SharedOK
<1>2. ASSUME NEW g \in Handlers PROVE Mine(g)'
  <2>1. CASE g = h
    BY <2>1
  <2>2. CASE g # h
    BY <2>2, MovedEffect, OthersKeep
  <2> QED BY <2>1, <2>2
<1>3. ASSUME NEW g \in Calls PROVE Working(g)'
  BY <1>2, <1>3 DEF Mine, Handlers
<1>4. ASSUME NEW g \in Subs PROVE Buying(g)'
  BY <1>2, <1>4 DEF Mine, Handlers, Subs
<1>5. ASSUME NEW g \in Registers PROVE Registering(g)'
  BY <1>2, <1>5 DEF Mine, Handlers
<1> QED BY <1>1, <1>3, <1>4, <1>5 DEF HandlersInv

\* What is neither billed nor served may change its excuse, not more.
Quiet ==
    /\ UNCHANGED <<ext, sub, car>>
    /\ news' \subseteq Subs
    /\ spoilt' \subseteq Cars \cup Subs
    /\ spoilt \subseteq spoilt'

\* A quiet step leaves everything.
LEMMA QuietKeeps ==
    ASSUME SharedOK, Quiet, NEW h
    PROVE  SharedOK' /\ Kept(h) /\ (DataInv => DataInv')
<1>1. SharedOK'
  BY DEF SharedOK, Quiet
<1>2. Kept(h)
  BY DEF Quiet, Kept, Over
<1>3. CarInv => CarInv'
  BY DEF Quiet, CarInv
<1>4. CanceledInv => CanceledInv'
  BY DEF Quiet, CanceledInv
<1>5. ExcludedInv => ExcludedInv'
  BY DEF Quiet, ExcludedInv, Over, Excused
<1> QED BY <1>1, <1>2, <1>3, <1>4, <1>5 DEF DataInv

-----------------------------------------------------------------------------
(* Registrations without a card, and the first steps of the others.        *)

\* What an own step has to show.
Done(h) == Moved(h) /\ Kept(h) /\ SharedOK' /\ Mine(h)' /\ DataInv'

LEMMA CheckKeeps ==
    ASSUME Inv, NEW r \in Registers, CheckAvailability(r)
    PROVE  Done(r)
<1>1. SharedOK /\ Quiet /\ r \in Handlers /\ r \notin Subs /\ r \notin Calls
  BY HandlerFacts DEF Inv, TypeOK, SharedOK, Quiet, CheckAvailability
<1>2. Moved(r) /\ \/ /\ task'[r].pc = "insertFree"
                     /\ \A c \in Cars : car[c].status = "absent"
                  \/ task'[r].pc = "done"
  <2>1. TypeOK /\ task[r] \in Task
    BY <1>1 DEF Inv, TypeOK
  <2>2. ASSUME Goto(r, "insertFree") PROVE Moved(r) /\ task'[r].pc = "insertFree"
    BY <1>1, <2>1, <2>2, GotoEffect DEF Pc
  <2>3. ASSUME Goto(r, "done") PROVE Moved(r) /\ task'[r].pc = "done"
    BY <1>1, <2>1, <2>3, GotoEffect DEF Pc
  <2> QED BY <2>2, <2>3 DEF CheckAvailability
<1>3. Registering(r)'
  BY <1>1, <1>2 DEF Registering, Quiet
<1> QED BY <1>1, <1>2, <1>3, QuietKeeps DEF Done, Mine, Inv

LEMMA InsertFreeKeeps ==
    ASSUME Inv, NEW r \in Registers, InsertFree(r)
    PROVE  Done(r)
<1>1. TypeOK /\ r \in Handlers /\ r \notin Subs /\ r \notin Calls /\ r \in Cars
  BY HandlerFacts DEF Inv
<1>2. Moved(r) /\ task'[r].pc = "done"
  BY <1>1, GotoEffect DEF InsertFree, Pc
<1>3. /\ ext' = ext /\ news' = news /\ sub' = sub
      /\ spoilt' = spoilt \cup Overlapped(r)
      /\ \A c \in Cars : c # r => car'[c] = car[c]
      /\ car'[r] = [NoCar EXCEPT !.status = "active"]
      /\ car' \in [Cars -> Car]
  BY <1>1 DEF InsertFree, TypeOK, NoCar, Car, CarStatus
<1>4. car'[r].status = "active" /\ car'[r].of = None
  BY <1>3 DEF NoCar
<1>5. SharedOK'
  BY <1>1, <1>3, HandlerFacts DEF TypeOK, SharedOK, Overlapped
<1>6. Kept(r)
  BY <1>3, <1>4 DEF Kept, Over, Overlapped, At
<1>7. Mine(r)'
  BY <1>1, <1>2 DEF Mine, Registering
<1>8. CarInv' /\ CanceledInv'
  BY <1>3, <1>4 DEF Inv, DataInv, CarInv, CanceledInv
<1>9. ExcludedInv'
  BY <1>3, <1>4 DEF Inv, DataInv, ExcludedInv, Excused, Over
<1> QED BY <1>2, <1>5, <1>6, <1>7, <1>8, <1>9 DEF Done, DataInv

\* A handler that starts, or ends, having done nothing.
LEMMA FailsKeeps ==
    ASSUME Inv, NEW h \in Handlers \ Registers, Fails(h)
    PROVE  Done(h)
<1>1. TypeOK /\ SharedOK
  BY DEF Inv, TypeOK, SharedOK
<1> DEFINE late == task[h].pc \in {"insertSub", "insertCar", "link", "syncSub", "findCar",
                                   "syncCar"}
<1>2. Goto(h, "done") /\ SpoilIf(h, late) /\ UNCHANGED <<ext, news, sub, car>>
  BY DEF Fails, GotoLate
<1>3. late \in BOOLEAN
  OBVIOUS
<1> HIDE DEF late
<1>4. Moved(h) /\ task'[h].pc = "done" /\ task'[h].excludes = FALSE
  BY <1>1, <1>2, GotoEffect DEF Pc
<1>5. Quiet
  BY <1>1, <1>2, <1>3, SpoilEffect DEF Quiet, SharedOK
<1>6. Mine(h)'
  BY <1>4 DEF Mine, Working, Buying
<1> QED BY <1>1, <1>4, <1>5, <1>6, QuietKeeps DEF Done, Inv

-----------------------------------------------------------------------------
(* Purchases and upgrades.                                                 *)

LEMMA BeginPurchaseKeeps ==
    ASSUME Inv, NEW h \in Purchases, BeginPurchase(h)
    PROVE  Done(h)
<1>1. TypeOK /\ SharedOK /\ h \in Handlers /\ h \notin Registers /\ h \notin Calls /\ h \in Subs
      /\ h \notin Upgrades
  BY HandlerFacts DEF Inv, TypeOK, SharedOK
<1>2. Quiet /\ (Goto(h, "create") \/ Goto(h, "done")) /\ task[h].pc = "begin"
  BY <1>1 DEF BeginPurchase, At, Quiet, TypeOK
<1>3. Moved(h) /\ (task'[h].pc = "done" \/ (task'[h].pc = "create" /\ Same(h)))
  <2>1. ASSUME Goto(h, "create") PROVE Moved(h) /\ task'[h].pc = "create" /\ Same(h)
    BY <1>1, <2>1, GotoEffect DEF Pc
  <2>2. ASSUME Goto(h, "done") PROVE Moved(h) /\ task'[h].pc = "done"
    BY <1>1, <2>2, GotoEffect DEF Pc
  <2> QED BY <1>2, <2>1, <2>2
<1>4. Buying(h) /\ UNCHANGED <<ext, car>>
  BY <1>1, <1>2 DEF Inv, HandlersInv, Quiet
<1>5. Mine(h)'
  BY <1>1, <1>2, <1>3, <1>4 DEF Mine, Buying, Same
<1> QED BY <1>1, <1>2, <1>3, <1>5, QuietKeeps DEF Done, Inv

LEMMA BeginUpgradeKeeps ==
    ASSUME Inv, NEW h \in Upgrades, NEW c \in Cars, BeginUpgrade(h, c)
    PROVE  Done(h)
<1>1. TypeOK /\ SharedOK /\ h \in Handlers /\ h \notin Registers /\ h \notin Calls /\ h \in Subs
      /\ task[h] \in Task /\ car[c] \in Car
  BY HandlerFacts DEF Inv, TypeOK, SharedOK
<1> DEFINE x == [task[h] EXCEPT !.car = c, !.carCopy = car[c], !.pc = "create"]
<1>2. x \in Task /\ x.car = c /\ x.carCopy = car[c] /\ x.pc = "create" /\ x.sub = task[h].sub
  BY <1>1 DEF Task, Pc
<1>3. task' = [task EXCEPT ![h] = x]
  BY <1>1 DEF BeginUpgrade, TypeOK
<1> HIDE DEF x
<1>4. task'[h] = x /\ Moved(h)
  BY <1>1, <1>2, <1>3 DEF TypeOK, Moved
<1>5. Quiet /\ car[c].status = "active" /\ task[h].pc = "begin"
  BY <1>1 DEF BeginUpgrade, At, Quiet, TypeOK
<1>6. Buying(h) /\ UNCHANGED <<ext, car>>
  BY <1>1, <1>5 DEF Inv, HandlersInv, Quiet
<1>7. Buying(h)'
  BY <1>2, <1>4, <1>5, <1>6 DEF Buying, KnowsCar
<1> QED BY <1>1, <1>4, <1>5, <1>7, QuietKeeps DEF Done, Inv, Mine

LEMMA CreateFailsKeeps ==
    ASSUME Inv, NEW h \in Subs, CreateFails(h)
    PROVE  Done(h)
<1>1. TypeOK /\ SharedOK /\ h \in Handlers /\ h \notin Registers /\ h \notin Calls
  BY HandlerFacts DEF Inv, TypeOK, SharedOK
<1>2. Quiet /\ Goto(h, "done")
  BY <1>1 DEF CreateFails, Quiet, TypeOK
<1>3. Moved(h) /\ task'[h].pc = "done"
  BY <1>1, <1>2, GotoEffect DEF Pc
<1>4. Mine(h)'
  BY <1>1, <1>3 DEF Mine, Buying
<1> QED BY <1>1, <1>2, <1>3, <1>4, QuietKeeps DEF Done, Inv

\* The subscription is new at the gateway, so that no excluded car is its.
LEMMA CreateKeeps ==
    ASSUME Inv, NEW h \in Subs, CreateSubscription(h) \/ CreateAnswerLost(h)
    PROVE  Done(h)
<1>1. TypeOK /\ h \in Handlers /\ h \notin Registers /\ h \notin Calls
  BY HandlerFacts DEF Inv
<1>2. PICK e \in {"active", "pending"} :
         /\ ext' = [ext EXCEPT ![h] = e]
         /\ Goto(h, "insertSub") \/ Goto(h, "done")
         /\ spoilt' = spoilt \/ spoilt' = spoilt \cup {h}
         /\ UNCHANGED <<news, sub, car>>
  BY DEF CreateSubscription, CreateAnswerLost
<1>3. Buying(h) /\ task[h].pc = "create" /\ ext[h] = "none"
  BY DEF CreateSubscription, CreateAnswerLost, At, Inv, HandlersInv, Buying
<1>4. Moved(h) /\ (task'[h].pc = "done" \/ (task'[h].pc = "insertSub" /\ Same(h)))
  <2>1. ASSUME Goto(h, "insertSub") PROVE Moved(h) /\ task'[h].pc = "insertSub" /\ Same(h)
    BY <1>1, <2>1, GotoEffect DEF Pc
  <2>2. ASSUME Goto(h, "done") PROVE Moved(h) /\ task'[h].pc = "done"
    BY <1>1, <2>2, GotoEffect DEF Pc
  <2> QED BY <1>2, <2>1, <2>2
<1>5. /\ ext' \in [Subs -> ExtStatus] /\ ext'[h] = e
      /\ \A s \in Subs : s # h => ext'[s] = ext[s]
  BY <1>1, <1>2 DEF TypeOK, ExtStatus
<1>6. SharedOK'
  BY <1>1, <1>2, <1>5 DEF TypeOK, SharedOK
<1>7. Kept(h)
  BY <1>2, <1>3, <1>5 DEF Kept, Over
<1>8. Mine(h)'
  BY <1>1, <1>2, <1>3, <1>4 DEF Mine, Buying, Same, KnowsCar
<1>9. CarInv'
  BY <1>2 DEF Inv, DataInv, CarInv
<1>10. CanceledInv'
  <2>1. ASSUME NEW s \in Subs, sub'[s] = "CANCELED" PROVE ext'[s] = "terminated" \/ s \in spoilt'
    BY <1>2, <1>3, <1>5, <2>1 DEF Inv, DataInv, CanceledInv
  <2> QED BY <2>1 DEF CanceledInv
<1>11. ExcludedInv'
  <2>1. \A c \in Cars : car[c].of # None => car[c].of \in Subs
    BY <1>1 DEF TypeOK, Car
  <2> QED BY <1>2, <1>3, <1>5, <2>1 DEF Inv, DataInv, ExcludedInv, Excused, Over
<1> QED BY <1>4, <1>6, <1>7, <1>8, <1>9, <1>10, <1>11 DEF Done, DataInv

\* A document that comes after its subscription was cancelled excuses its car.
LEMMA InsertSubKeeps ==
    ASSUME Inv, NEW h \in Subs, InsertSub(h)
    PROVE  Done(h)
<1>1. TypeOK /\ h \in Handlers /\ h \notin Registers /\ h \notin Calls /\ h # None
      /\ h \in Purchases \cup Upgrades
  BY HandlerFacts DEF Inv, Subs
<1> DEFINE late == ext[h] # "active"
           next == IF h \in Purchases THEN "insertCar" ELSE "link"
<1>2. /\ UNCHANGED <<ext, news, car>> /\ sub' = [sub EXCEPT ![h] = "ACTIVE"]
      /\ Goto(h, next) /\ SpoilIf(h, late) /\ late \in BOOLEAN
  BY DEF InsertSub, GotoLate
<1>3. Buying(h) /\ task[h].pc = "insertSub" /\ task[h].sub = h
  BY DEF InsertSub, At, Inv, HandlersInv, Buying
<1>4. next \in Pc /\ next # "done" /\ (next = "link" => h \notin Purchases)
      /\ (next = "insertCar" => h \in Purchases)
      /\ next \in {"link", "insertCar"}
  BY DEF Pc
<1>5. late = FALSE => ext[h] = "active"
  OBVIOUS
<1> HIDE DEF late, next
<1>6. Moved(h) /\ task'[h].pc = next /\ Same(h)
  BY <1>1, <1>2, <1>4, GotoEffect
<1>7. /\ spoilt' \subseteq Cars \cup Subs /\ spoilt \subseteq spoilt'
      /\ h \in spoilt' \/ ext[h] = "active"
  BY <1>1, <1>2, <1>3, <1>5, SpoilEffect
<1>8. /\ sub' \in [Subs -> SubStatus] /\ sub'[h] = "ACTIVE"
      /\ \A s \in Subs : s # h => sub'[s] = sub[s]
  BY <1>1, <1>2 DEF TypeOK, SubStatus
<1>9. SharedOK'
  BY <1>1, <1>2, <1>7, <1>8 DEF TypeOK, SharedOK
<1>10. Kept(h)
  BY <1>2, <1>7, <1>8 DEF Kept, Over
<1>11. Mine(h)'
  BY <1>1, <1>2, <1>3, <1>4, <1>6 DEF Mine, Buying, Same, KnowsCar
<1>12. CarInv' /\ CanceledInv'
  BY <1>2, <1>7, <1>8 DEF Inv, DataInv, CarInv, CanceledInv
<1>13. ExcludedInv'
  <2>1. \A c \in Cars : car[c].of # None => car[c].of \in Subs
    BY <1>1 DEF TypeOK, Car
  <2> QED BY <1>2, <1>7, <1>8, <2>1 DEF Inv, DataInv, ExcludedInv, Excused, Over
<1> QED BY <1>6, <1>9, <1>10, <1>11, <1>12, <1>13 DEF Done, DataInv

LEMMA InsertCarKeeps ==
    ASSUME Inv, NEW h \in Subs, InsertCar(h)
    PROVE  Done(h)
<1>1. Buying(h) /\ task[h].pc = "insertCar"
  BY DEF InsertCar, At, Inv, HandlersInv
<1>2. /\ TypeOK /\ h \in Handlers /\ h \notin Registers /\ h \notin Calls /\ h # None
      /\ h \in Cars
  BY <1>1, HandlerFacts DEF Inv, Buying
<1>3. Moved(h) /\ task'[h].pc = "done"
  BY <1>2, GotoEffect DEF InsertCar, Pc
<1>4. /\ UNCHANGED <<ext, news, sub>>
      /\ spoilt \cup Overlapped(h) \subseteq spoilt'
      /\ spoilt' \subseteq spoilt \cup Overlapped(h) \cup {h}
      /\ car' \in [Cars -> Car]
      /\ car'[h] = [status |-> "active", of |-> h]
      /\ \A c \in Cars : c # h => car'[c] = car[c]
  BY <1>2 DEF InsertCar, TypeOK, Car, CarStatus
<1>5. car'[h].status = "active" /\ car'[h].of = h
  BY <1>4
<1>6. SharedOK'
  BY <1>2, <1>4, HandlerFacts DEF TypeOK, SharedOK, Overlapped
<1>7. Kept(h)
  BY <1>2, <1>4, <1>5 DEF Kept, Over, Overlapped, At
<1>8. Mine(h)'
  BY <1>2, <1>3 DEF Mine, Buying
<1>9. CarInv' /\ CanceledInv'
  BY <1>4, <1>5 DEF Inv, DataInv, CarInv, CanceledInv
<1>10. ExcludedInv'
  BY <1>4, <1>5 DEF Inv, DataInv, ExcludedInv, Excused, Over
<1> QED BY <1>3, <1>6, <1>7, <1>8, <1>9, <1>10 DEF Done, DataInv

LEMMA LinkKeeps ==
    ASSUME Inv, NEW h \in Subs, Link(h)
    PROVE  Done(h)
<1> DEFINE c == task[h].car
           late == car[c] # task[h].carCopy \/ sub[h] # "ACTIVE"
<1>1. Buying(h) /\ task[h].pc = "link"
  BY DEF Link, At, Inv, HandlersInv
<1>2. TypeOK /\ h \in Handlers /\ h \notin Registers /\ h \notin Calls /\ h # None
  BY HandlerFacts DEF Inv
<1>3. c \in Cars /\ car[c].status # "absent" /\ car[c] \in Car
  BY <1>1, <1>2 DEF Buying, KnowsCar, TypeOK
<1>4. /\ UNCHANGED <<ext, news, sub>> /\ Goto(h, "done") /\ SpoilIf(h, late)
      /\ car' = [car EXCEPT ![c].status = "active", ![c].of = h] /\ late \in BOOLEAN
  BY DEF Link, GotoLate
<1> HIDE DEF late, c
<1>5. /\ car' \in [Cars -> Car] /\ car'[c].status = "active" /\ car'[c].of = h
      /\ \A d \in Cars : d # c => car'[d] = car[d]
  <2> DEFINE x == [[car[c] EXCEPT !.status = "active"] EXCEPT !.of = h]
  <2>1. car' = [car EXCEPT ![c] = x]
    BY <1>2, <1>3, <1>4 DEF TypeOK
  <2>2. x \in Car /\ x.status = "active" /\ x.of = h
    BY <1>3 DEF Car, CarStatus
  <2> QED BY <1>2, <1>3, <2>1, <2>2 DEF TypeOK
<1>6. Moved(h) /\ task'[h].pc = "done"
  BY <1>2, <1>4, GotoEffect DEF Pc
<1>7. spoilt' \subseteq Cars \cup Subs /\ spoilt \subseteq spoilt'
  BY <1>2, <1>4, SpoilEffect
<1>8. SharedOK'
  BY <1>2, <1>4, <1>5, <1>7 DEF TypeOK, SharedOK
<1>9. Kept(h)
  <2>1. ASSUME NEW r \in Registers, task[r].pc = "insertFree" PROVE r \in spoilt'
    BY <1>3, <1>7, <2>1 DEF Inv, HandlersInv, Registering
  <2> QED BY <1>3, <1>4, <1>5, <1>7, <2>1 DEF Kept, Over
<1>10. Mine(h)'
  BY <1>2, <1>6 DEF Mine, Buying
<1>11. CarInv' /\ CanceledInv'
  BY <1>4, <1>5, <1>7 DEF Inv, DataInv, CarInv, CanceledInv
<1>12. ExcludedInv'
  BY <1>4, <1>5, <1>7 DEF Inv, DataInv, ExcludedInv, Excused, Over
<1> QED BY <1>6, <1>8, <1>9, <1>10, <1>11, <1>12 DEF Done, DataInv

-----------------------------------------------------------------------------
(* Cancellations, exclusions and webhooks: what only reads.                *)

\* A handler that takes record x.
LEMMA Takes ==
    ASSUME TypeOK, NEW h \in Handlers, NEW x \in Task, task' = [task EXCEPT ![h] = x]
    PROVE  Moved(h) /\ task'[h] = x
BY DEF TypeOK, Moved

LEMMA BeginCancelKeeps ==
    ASSUME Inv, NEW h \in Calls, NEW s \in Subs, BeginCancel(h, s)
    PROVE  Done(h)
<1>1. TypeOK /\ SharedOK /\ h \in Handlers /\ h \notin Registers /\ h \notin Subs
      /\ task[h] \in Task /\ sub[s] \in SubStatus
  BY HandlerFacts DEF Inv, TypeOK, SharedOK
<1> DEFINE x == [task[h] EXCEPT !.sub = s, !.subCopy = sub[s], !.pc = "cancel"]
<1>2. /\ x \in Task /\ x.sub = s /\ x.subCopy = sub[s] /\ x.pc = "cancel"
      /\ x.excludes = task[h].excludes
  BY <1>1 DEF Task, Pc
<1>3. task' = [task EXCEPT ![h] = x]
  BY <1>1 DEF BeginCancel, TypeOK
<1> HIDE DEF x
<1>4. Moved(h) /\ task'[h] = x
  BY <1>1, <1>2, <1>3, Takes
<1>5. Quiet /\ sub[s] = "ACTIVE" /\ task[h].pc = "begin"
  BY <1>1 DEF BeginCancel, At, Quiet, TypeOK
<1>6. task[h].excludes = FALSE
  BY <1>5 DEF Inv, HandlersInv, Working
<1>7. Working(h)'
  BY <1>2, <1>4, <1>5, <1>6 DEF Working, Quiet
<1> QED BY <1>1, <1>4, <1>5, <1>7, QuietKeeps DEF Done, Inv, Mine

LEMMA BeginExcludeKeeps ==
    ASSUME Inv, NEW h \in Calls, NEW c \in Cars, BeginExclude(h, c)
    PROVE  Done(h)
<1>1. TypeOK /\ SharedOK /\ h \in Handlers /\ h \notin Registers /\ h \notin Subs
      /\ task[h] \in Task /\ car[c] \in Car
  BY HandlerFacts DEF Inv, TypeOK, SharedOK
<1> DEFINE x == [task[h] EXCEPT !.excludes = TRUE, !.car = c, !.carCopy = car[c],
                                !.pc = "readSub"]
<1>2. x \in Task /\ x.car = c /\ x.carCopy = car[c] /\ x.pc = "readSub" /\ x.excludes = TRUE
  BY <1>1 DEF Task, Pc
<1>3. task' = [task EXCEPT ![h] = x]
  BY <1>1 DEF BeginExclude, TypeOK
<1> HIDE DEF x
<1>4. Moved(h) /\ task'[h] = x
  BY <1>1, <1>2, <1>3, Takes
<1>5. Quiet /\ car[c].status # "absent"
  BY <1>1 DEF BeginExclude, Quiet, TypeOK
<1>6. Working(h)'
  BY <1>2, <1>4, <1>5 DEF Working, KnowsCar, Quiet
<1> QED BY <1>1, <1>4, <1>5, <1>6, QuietKeeps DEF Done, Inv, Mine

LEMMA ReadSubKeeps ==
    ASSUME Inv, NEW h \in Calls, ReadSub(h)
    PROVE  Done(h)
<1>1. TypeOK /\ SharedOK /\ h \in Handlers /\ h \notin Registers /\ h \notin Subs
      /\ task[h] \in Task
  BY HandlerFacts DEF Inv, TypeOK, SharedOK
<1>2. Quiet /\ task[h].pc = "readSub" /\ Working(h)
  BY <1>1 DEF ReadSub, At, Quiet, TypeOK, Inv, HandlersInv
<1> DEFINE s == task[h].carCopy.of
<1>3. ASSUME s = None PROVE Moved(h) /\ Working(h)'
  <2>1. Goto(h, "exclude")
    BY <1>3 DEF ReadSub
  <2>2. Moved(h) /\ task'[h].pc = "exclude" /\ Same(h)
    BY <1>1, <2>1, GotoEffect DEF Pc
  <2> QED BY <1>2, <1>3, <2>2 DEF Working, KnowsCar, Same, Quiet
<1>4. ASSUME s # None PROVE Moved(h) /\ Working(h)'
  <2>1. s \in Subs /\ sub[s] \in SubStatus
    BY <1>1, <1>4 DEF TypeOK, Task, Car
  <2> DEFINE x == [task[h] EXCEPT !.sub = s, !.subCopy = sub[s], !.pc = "cancel"]
  <2>2. /\ x \in Task /\ x.sub = s /\ x.pc = "cancel" /\ x.car = task[h].car
        /\ x.excludes = task[h].excludes /\ x.carCopy = task[h].carCopy
    BY <1>1, <2>1 DEF Task, Pc
  <2>3. task' = [task EXCEPT ![h] = x]
    BY <1>1, <1>4 DEF ReadSub, TypeOK
  <2> HIDE DEF x
  <2>4. Moved(h) /\ task'[h] = x
    BY <1>1, <2>2, <2>3, Takes
  <2> QED BY <1>2, <2>1, <2>2, <2>4 DEF Working, KnowsCar, Quiet
<1> QED BY <1>1, <1>2, <1>3, <1>4, QuietKeeps DEF Done, Inv, Mine

LEMMA BeginWebhookKeeps ==
    ASSUME Inv, NEW h \in Calls, NEW s \in Subs, BeginWebhook(h, s)
    PROVE  Done(h)
<1>1. TypeOK /\ SharedOK /\ h \in Handlers /\ h \notin Registers /\ h \notin Subs
      /\ task[h] \in Task /\ sub[s] \in SubStatus
  BY HandlerFacts DEF Inv, TypeOK, SharedOK
<1> DEFINE pc == IF sub[s] = "absent" THEN "done" ELSE "fetch"
           x == [task[h] EXCEPT !.sub = s, !.subCopy = sub[s], !.pc = pc]
<1>2. /\ x \in Task /\ x.sub = s /\ x.subCopy = sub[s] /\ x.excludes = task[h].excludes
      /\ x.pc = "done" \/ (x.pc = "fetch" /\ sub[s] # "absent")
  BY <1>1 DEF Task, Pc
<1>3. task' = [task EXCEPT ![h] = x]
  BY <1>1 DEF BeginWebhook, TypeOK
<1> HIDE DEF x, pc
<1>4. Moved(h) /\ task'[h] = x
  BY <1>1, <1>2, <1>3, Takes
<1>5. Quiet /\ task[h].pc = "begin"
  BY <1>1 DEF BeginWebhook, At, Quiet, TypeOK
<1>6. task[h].excludes = FALSE
  BY <1>5 DEF Inv, HandlersInv, Working
<1>7. Working(h)'
  BY <1>2, <1>4, <1>5, <1>6 DEF Working, Quiet
<1> QED BY <1>1, <1>4, <1>5, <1>7, QuietKeeps DEF Done, Inv, Mine

LEMMA FetchKeeps ==
    ASSUME Inv, NEW h \in Calls, FetchSubscription(h)
    PROVE  Done(h)
<1>1. TypeOK /\ SharedOK /\ h \in Handlers /\ h \notin Registers /\ h \notin Subs
      /\ task[h] \in Task
  BY HandlerFacts DEF Inv, TypeOK, SharedOK
<1>2. Quiet /\ task[h].pc = "fetch" /\ Working(h)
  BY <1>1 DEF FetchSubscription, At, Quiet, TypeOK, Inv, HandlersInv
<1>3. task[h].sub \in Subs /\ ext[task[h].sub] \in ExtStatus
  BY <1>1, <1>2 DEF Working, TypeOK
<1> DEFINE x == [task[h] EXCEPT !.seen = ext[task[h].sub], !.pc = "syncSub"]
<1>4. /\ x \in Task /\ x.sub = task[h].sub /\ x.subCopy = task[h].subCopy
      /\ x.excludes = task[h].excludes /\ x.pc = "syncSub"
  BY <1>1, <1>3 DEF Task, Pc
<1>5. task' = [task EXCEPT ![h] = x]
  BY <1>1 DEF FetchSubscription, TypeOK
<1> HIDE DEF x
<1>6. Moved(h) /\ task'[h] = x
  BY <1>1, <1>4, <1>5, Takes
<1>7. Working(h)'
  BY <1>2, <1>3, <1>4, <1>6 DEF Working, Quiet
<1> QED BY <1>1, <1>2, <1>6, <1>7, QuietKeeps DEF Done, Inv, Mine

\* getBySubscriptionId finds a car that is there.
LEMMA FindCarKeeps ==
    ASSUME Inv, NEW h \in Calls, FindCar(h)
    PROVE  Done(h)
<1>1. TypeOK /\ SharedOK /\ h \in Handlers /\ h \notin Registers /\ h \notin Subs
      /\ task[h] \in Task
  BY HandlerFacts DEF Inv, TypeOK, SharedOK
<1>2. Quiet /\ task[h].pc = "findCar" /\ Working(h)
  BY <1>1 DEF FindCar, At, Quiet, TypeOK, Inv, HandlersInv
<1>3. ASSUME Goto(h, "done") PROVE Moved(h) /\ Working(h)'
  <2>1. Moved(h) /\ task'[h].pc = "done"
    BY <1>1, <1>3, GotoEffect DEF Pc
  <2> QED BY <2>1 DEF Working
<1>4. ASSUME NEW c \in Cars, car[c].of = task[h].sub,
             task' = [task EXCEPT ![h].car = c, ![h].carCopy = car[c], ![h].pc = "syncCar"]
      PROVE  Moved(h) /\ Working(h)'
  <2>1. car[c] \in Car /\ task[h].sub \in Subs
    BY <1>1, <1>2 DEF Working, TypeOK
  <2>2. car[c].status # "absent"
    BY <1>4, <2>1, HandlerFacts DEF Inv, DataInv, CarInv
  <2> DEFINE x == [task[h] EXCEPT !.car = c, !.carCopy = car[c], !.pc = "syncCar"]
  <2>3. /\ x \in Task /\ x.sub = task[h].sub /\ x.subCopy = task[h].subCopy
        /\ x.excludes = task[h].excludes /\ x.pc = "syncCar"
        /\ x.car = c /\ x.carCopy = car[c]
    BY <1>1, <2>1 DEF Task, Pc
  <2>4. task' = [task EXCEPT ![h] = x]
    BY <1>1, <1>4 DEF TypeOK
  <2> HIDE DEF x
  <2>5. Moved(h) /\ task'[h] = x
    BY <1>1, <2>3, <2>4, Takes
  <2> QED BY <1>2, <1>4, <2>2, <2>3, <2>5 DEF Working, KnowsCar, Quiet
<1>5. Moved(h) /\ Working(h)'
  BY <1>3, <1>4 DEF FindCar
<1> QED BY <1>1, <1>2, <1>5, QuietKeeps DEF Done, Inv, Mine

-----------------------------------------------------------------------------
(* What writes: the gateway's answers, the documents and the cars.         *)

\* A cancellation, or the gateway itself, moves subscription s to e.
ExtMoves(s, e) ==
    /\ ext' = [ext EXCEPT ![s] = e]
    /\ news' \subseteq Subs
    /\ UNCHANGED <<sub, car, spoilt>>
    /\ ext[s] # "none" /\ ext[s] # "terminated"
    /\ Over(s) => e \in {"cancelled", "terminated"}

LEMMA ExtMovesKeeps ==
    ASSUME Inv, NEW s \in Subs, NEW e \in ExtStatus, ExtMoves(s, e), NEW h
    PROVE  SharedOK' /\ Kept(h) /\ DataInv' /\ ext'[s] = e
<1>1. /\ ext' \in [Subs -> ExtStatus] /\ ext'[s] = e
      /\ \A q \in Subs : q # s => ext'[q] = ext[q]
  BY DEF Inv, TypeOK, ExtMoves
<1>2. SharedOK'
  BY <1>1 DEF Inv, TypeOK, SharedOK, ExtMoves
<1>3. Kept(h)
  BY <1>1 DEF Kept, Over, ExtMoves
<1>4. CarInv' /\ CanceledInv'
  BY <1>1 DEF Inv, DataInv, CarInv, CanceledInv, ExtMoves
<1>5. ExcludedInv'
  <2>1. \A c \in Cars : car[c].of # None => car[c].of \in Subs
    BY DEF Inv, TypeOK, Car
  <2>2. \A q \in Subs : Over(q) => ext'[q] \in {"cancelled", "terminated"}
    BY <1>1 DEF ExtMoves, Over
  <2> QED BY <2>1, <2>2 DEF Inv, DataInv, ExcludedInv, Excused, Over, ExtMoves
<1> QED BY <1>1, <1>2, <1>3, <1>4, <1>5 DEF DataInv

LEMMA CancelKeeps ==
    ASSUME Inv, NEW h \in Calls, CancelSubscription(h)
    PROVE  Done(h)
<1> DEFINE s == task[h].sub
<1>1. TypeOK /\ h \in Handlers /\ h \notin Registers /\ h \notin Subs /\ task[h] \in Task
  BY HandlerFacts DEF Inv, TypeOK
<1>2. task[h].pc = "cancel" /\ Working(h)
  BY DEF CancelSubscription, At, Inv, HandlersInv
<1>3. s \in Subs
  BY <1>2 DEF Working
<1>4. ExtMoves(s, "cancelled")
  BY <1>1, <1>3 DEF CancelSubscription, ExtMoves, TypeOK
<1>5. SharedOK' /\ Kept(h) /\ DataInv' /\ ext'[s] = "cancelled"
  BY <1>3, <1>4, ExtMovesKeeps DEF ExtStatus
<1> DEFINE x == [task[h] EXCEPT !.seen = "cancelled", !.pc = "syncSub"]
<1>6. /\ x \in Task /\ x.sub = s /\ x.subCopy = task[h].subCopy /\ x.car = task[h].car
      /\ x.excludes = task[h].excludes /\ x.carCopy = task[h].carCopy
      /\ x.pc = "syncSub" /\ x.seen = "cancelled"
  BY <1>1 DEF Task, Pc, ExtStatus
<1>7. task' = [task EXCEPT ![h] = x]
  BY <1>1 DEF CancelSubscription, TypeOK
<1> HIDE DEF x
<1>8. Moved(h) /\ task'[h] = x
  BY <1>1, <1>6, <1>7, Takes
<1>9. Working(h)'
  BY <1>2, <1>3, <1>4, <1>5, <1>6, <1>8 DEF Working, KnowsCar, Over, ExtMoves
<1> QED BY <1>1, <1>5, <1>8, <1>9 DEF Done, Mine

LEMMA CancelLostKeeps ==
    ASSUME Inv, NEW h \in Calls, CancelAnswerLost(h)
    PROVE  Done(h)
<1> DEFINE s == task[h].sub
<1>1. TypeOK /\ h \in Handlers /\ h \notin Registers /\ h \notin Subs
  BY HandlerFacts DEF Inv
<1>2. task[h].pc = "cancel" /\ Working(h)
  BY DEF CancelAnswerLost, At, Inv, HandlersInv
<1>3. s \in Subs
  BY <1>2 DEF Working
<1>4. ExtMoves(s, "cancelled")
  BY <1>1, <1>3 DEF CancelAnswerLost, ExtMoves, TypeOK
<1>5. SharedOK' /\ Kept(h) /\ DataInv'
  BY <1>3, <1>4, ExtMovesKeeps DEF ExtStatus
<1>6. Moved(h) /\ task'[h].pc = "done"
  BY <1>1, GotoEffect DEF CancelAnswerLost, Pc
<1> QED BY <1>1, <1>5, <1>6 DEF Done, Mine, Working

LEMMA GatewayKeeps ==
    ASSUME Inv, NEW s \in Subs, GatewayMoves(s)
    PROVE  Inv'
<1>1. PICK e \in ExtStatus : <<ext[s], e>> \in Moves /\ ext' = [ext EXCEPT ![s] = e]
  BY DEF GatewayMoves
<1>2. ext[s] # "none" /\ ext[s] # "terminated" /\ (ext[s] = "cancelled" => e = "terminated")
  BY <1>1 DEF Moves
<1>3. ExtMoves(s, e)
  BY <1>1, <1>2 DEF GatewayMoves, ExtMoves, Over, Inv, TypeOK
<1>4. ASSUME NEW g \in Handlers PROVE Mine(g)' /\ SharedOK' /\ DataInv'
  <2>1. \E h : h # g
    BY <1>3, HandlerFacts
  <2>2. PICK h : h # g
    BY <2>1
  <2> QED BY <1>3, <2>2, ExtMovesKeeps, OthersKeep DEF Inv, GatewayMoves
<1>5. SharedOK' /\ DataInv'
  BY <1>3, ExtMovesKeeps
<1>6. HandlersInv'
  BY <1>4, HandlerFacts DEF HandlersInv, Mine
<1> QED BY <1>5, <1>6 DEF Inv, TypeOK, SharedOK, GatewayMoves

LEMMA SyncSubKeeps ==
    ASSUME Inv, NEW h \in Calls, SyncSub(h)
    PROVE  Done(h)
<1> DEFINE s == task[h].sub
           synced == LocalOf(task[h].seen, sub[s])
           late == task[h].seen # ext[s]
           pc == SyncedPc(h)
           x == [task[h] EXCEPT !.subCopy = synced, !.seen = "none", !.pc = pc]
<1>1. TypeOK /\ h \in Handlers /\ h \notin Registers /\ h \notin Subs /\ task[h] \in Task
  BY HandlerFacts DEF Inv, TypeOK
<1>2. task[h].pc = "syncSub" /\ Working(h)
  BY DEF SyncSub, At, Inv, HandlersInv
<1>3. s \in Subs /\ s # None /\ sub[s] \in SubStatus
  BY <1>1, <1>2, HandlerFacts DEF Working, TypeOK
<1>4. /\ synced \in SubStatus
      /\ sub[s] # "absent" => synced # "absent"
      /\ task[h].seen = "cancelled" => synced = "CANCELLING"
      /\ task[h].seen = "terminated" => synced = "CANCELED"
      /\ synced = "CANCELED" => task[h].seen = "terminated" \/ sub[s] = "CANCELED"
  BY <1>3, LocalOfStatus
<1>5. /\ pc \in {"syncCar", "findCar"}
      /\ task[h].excludes = TRUE => pc = "syncCar"
      /\ task[h].excludes = FALSE => pc = "findCar"
  BY DEF SyncedPc
<1>6. /\ UNCHANGED <<ext, news, car>> /\ sub' = [sub EXCEPT ![s] = synced]
      /\ SpoilIf(h, late) /\ task' = [task EXCEPT ![h] = x]
  BY <1>1 DEF SyncSub, TypeOK
<1>7. late \in BOOLEAN /\ (late = FALSE => task[h].seen = ext[s])
  OBVIOUS
<1> HIDE DEF synced, late, pc
<1>8. /\ x \in Task /\ x.sub = s /\ x.subCopy = synced /\ x.car = task[h].car
      /\ x.excludes = task[h].excludes /\ x.carCopy = task[h].carCopy /\ x.pc = pc
  BY <1>1, <1>4, <1>5 DEF Task, Pc, ExtStatus
<1> HIDE DEF x
<1>9. Moved(h) /\ task'[h] = x
  BY <1>1, <1>6, <1>8, Takes
<1>10. /\ spoilt' \subseteq Cars \cup Subs /\ spoilt \subseteq spoilt'
       /\ s \in spoilt' \/ task[h].seen = ext[s]
  BY <1>1, <1>3, <1>6, <1>7, SpoilEffect
<1>11. /\ sub' \in [Subs -> SubStatus] /\ sub'[s] = synced
       /\ \A q \in Subs : q # s => sub'[q] = sub[q]
  BY <1>1, <1>3, <1>4, <1>6 DEF TypeOK
<1>12. SharedOK'
  BY <1>1, <1>6, <1>10, <1>11 DEF TypeOK, SharedOK
<1>13. Kept(h)
  BY <1>4, <1>6, <1>10, <1>11 DEF Kept, Over
<1>14. Working(h)'
  <2>1. task[h].excludes \in BOOLEAN
    BY <1>1 DEF Task
  <2> QED BY <1>2, <1>3, <1>4, <1>5, <1>6, <1>8, <1>9, <1>11, <2>1
          DEF Working, KnowsCar, Over
<1>15. CarInv'
  BY <1>6 DEF Inv, DataInv, CarInv
<1>16. CanceledInv'
  BY <1>4, <1>6, <1>10, <1>11 DEF Inv, DataInv, CanceledInv
<1>17. ExcludedInv'
  <2>1. \A c \in Cars : car[c].of # None => car[c].of \in Subs
    BY <1>1 DEF TypeOK, Car
  <2> QED BY <1>4, <1>6, <1>10, <1>11, <2>1 DEF Inv, DataInv, ExcludedInv, Excused, Over
<1> QED BY <1>1, <1>9, <1>12, <1>13, <1>14, <1>15, <1>16, <1>17 DEF Done, DataInv, Mine

LEMMA SkipSubKeeps ==
    ASSUME Inv, NEW h \in Calls, SkipSub(h)
    PROVE  Done(h)
<1> DEFINE s == task[h].sub
           late == task[h].subCopy # sub[s]
           pc == SyncedPc(h)
           x == [task[h] EXCEPT !.seen = "none", !.pc = pc]
<1>1. TypeOK /\ SharedOK /\ h \in Handlers /\ h \notin Registers /\ h \notin Subs
      /\ task[h] \in Task
  BY HandlerFacts DEF Inv, TypeOK, SharedOK
<1>2. task[h].pc = "syncSub" /\ Working(h)
  BY DEF SkipSub, At, Inv, HandlersInv
<1>3. task[h].seen = "cancelled" => task[h].subCopy = "CANCELLING"
  <2>1. task[h].subCopy \in SubStatus
    BY <1>1 DEF Task
  <2> QED BY <2>1, LocalOfStatus DEF SkipSub, SameAsCopy
<1>4. /\ pc \in {"syncCar", "findCar"}
      /\ task[h].excludes = TRUE => pc = "syncCar"
      /\ task[h].excludes = FALSE => pc = "findCar"
  BY DEF SyncedPc
<1>5. /\ UNCHANGED <<ext, news, sub, car>> /\ SpoilIf(h, late) /\ task' = [task EXCEPT ![h] = x]
      /\ late \in BOOLEAN
  BY <1>1 DEF SkipSub, TypeOK
<1> HIDE DEF late, pc
<1>6. /\ x \in Task /\ x.sub = s /\ x.subCopy = task[h].subCopy /\ x.car = task[h].car
      /\ x.excludes = task[h].excludes /\ x.carCopy = task[h].carCopy /\ x.pc = pc
  BY <1>1, <1>4 DEF Task, Pc, ExtStatus
<1> HIDE DEF x
<1>7. Moved(h) /\ task'[h] = x
  BY <1>1, <1>5, <1>6, Takes
<1>8. Quiet
  BY <1>1, <1>5, SpoilEffect DEF Quiet, SharedOK
<1>9. Working(h)'
  <2>1. task[h].excludes \in BOOLEAN
    BY <1>1 DEF Task
  <2> QED BY <1>2, <1>3, <1>4, <1>5, <1>6, <1>7, <2>1 DEF Working, KnowsCar, Over
<1> QED BY <1>1, <1>7, <1>8, <1>9, QuietKeeps DEF Done, Inv, Mine

\* Car c, which is there, gets another status; a late write excuses it.
CarMoves(h, c, status) ==
    /\ car' = [car EXCEPT ![c].status = status]
    /\ UNCHANGED <<ext, news, sub>>
    /\ spoilt' \subseteq Cars \cup Subs
    /\ spoilt \subseteq spoilt'
    /\ car[c].status # "absent"
    /\ status # "absent"
    /\ \/ status # "excluded"
       \/ car[c].of = None
       \/ c \in spoilt'
       \/ car[c].of \in spoilt'
       \/ Over(car[c].of) /\ sub[car[c].of] \in {"CANCELLING", "CANCELED"}

LEMMA CarMovesKeeps ==
    ASSUME Inv, NEW c \in Cars, NEW status \in CarStatus, NEW h, CarMoves(h, c, status)
    PROVE  SharedOK' /\ Kept(h) /\ DataInv' /\ car'[c].status = status
<1>1. TypeOK /\ car[c] \in Car
  BY DEF Inv, TypeOK
<1>2. /\ car' \in [Cars -> Car] /\ car'[c].status = status /\ car'[c].of = car[c].of
      /\ \A d \in Cars : d # c => car'[d] = car[d]
  <2> DEFINE x == [car[c] EXCEPT !.status = status]
  <2>1. car' = [car EXCEPT ![c] = x]
    BY <1>1 DEF CarMoves, TypeOK
  <2>2. x \in Car /\ x.status = status /\ x.of = car[c].of
    BY <1>1 DEF Car
  <2> HIDE DEF x
  <2> QED BY <1>1, <2>1, <2>2 DEF TypeOK
<1>3. SharedOK'
  BY <1>1, <1>2 DEF SharedOK, TypeOK, CarMoves
<1>4. Kept(h)
  <2>1. ASSUME NEW r \in Registers, task[r].pc = "insertFree" PROVE r \in spoilt'
    BY <2>1 DEF Inv, HandlersInv, Registering, CarMoves
  <2> QED BY <1>2, <2>1 DEF Kept, Over, CarMoves
<1>5. CarInv' /\ CanceledInv'
  BY <1>2 DEF Inv, DataInv, CarInv, CanceledInv, CarMoves
<1>6. ExcludedInv'
  BY <1>2 DEF Inv, DataInv, ExcludedInv, Excused, Over, CarMoves
<1> QED BY <1>2, <1>3, <1>4, <1>5, <1>6 DEF DataInv

LEMMA ExcludeKeeps ==
    ASSUME Inv, NEW h \in Calls, Exclude(h)
    PROVE  Done(h) /\ car'[task[h].car].status = "excluded"
<1> DEFINE c == task[h].car
           late == car[c] # task[h].carCopy
<1>1. TypeOK /\ h \in Handlers /\ h \notin Registers /\ h \notin Subs
  BY HandlerFacts DEF Inv
<1>2. task[h].pc = "exclude" /\ Working(h)
  BY DEF Exclude, At, Inv, HandlersInv
<1>3. c \in Cars /\ c # None /\ car[c].status # "absent" /\ task[h].carCopy.of = None
  BY <1>2, HandlerFacts DEF Working, KnowsCar
<1>4. /\ UNCHANGED <<ext, news, sub>> /\ car' = [car EXCEPT ![c].status = "excluded"]
      /\ Goto(h, "done") /\ SpoilIf(h, late) /\ late \in BOOLEAN
      /\ late = FALSE => car[c] = task[h].carCopy
  BY DEF Exclude, GotoLate
<1> HIDE DEF late
<1>5. /\ spoilt' \subseteq Cars \cup Subs /\ spoilt \subseteq spoilt'
      /\ c \in spoilt' \/ car[c].of = None
  BY <1>1, <1>3, <1>4, SpoilEffect
<1>6. CarMoves(h, c, "excluded")
  BY <1>3, <1>4, <1>5 DEF CarMoves
<1>7. SharedOK' /\ Kept(h) /\ DataInv' /\ car'[c].status = "excluded"
  BY <1>3, <1>6, CarMovesKeeps DEF CarStatus
<1>8. Moved(h) /\ task'[h].pc = "done"
  BY <1>1, <1>4, GotoEffect DEF Pc
<1> QED BY <1>1, <1>7, <1>8 DEF Done, Mine, Working

\* The status of a car is that of its subscription, or the exclusion's.
LEMMA NextStatusIs ==
    ASSUME NEW h, task[h].subCopy \in SubStatus \ {"absent", "PENDING"} \/ task[h].excludes = TRUE
    PROVE  /\ NextStatus(h) \in {"active", "deactive", "excluding", "excluded"}
           /\ task[h].excludes = TRUE => NextStatus(h) = "excluded"
           /\ task[h].excludes # TRUE /\ NextStatus(h) = "excluded" => task[h].subCopy = "CANCELED"
           /\ task[h].subCopy \in {"CANCELLING", "CANCELED"} =>
                 NextStatus(h) \in {"excluding", "excluded"}
<1> DEFINE copy == task[h].subCopy
<1>1. CASE task[h].excludes = TRUE
  BY <1>1 DEF NextStatus
<1>2. CASE task[h].excludes # TRUE
  <2>1. copy \in {"ACTIVE", "INACTIVE", "CANCELLING", "CANCELED"}
    BY <1>2 DEF SubStatus
  <2>2. /\ CarStatusOf(copy) \in {"active", "deactive", "excluding", "excluded"}
        /\ CarStatusOf(copy) = "excluded" => copy = "CANCELED"
        /\ copy \in {"CANCELLING", "CANCELED"} => CarStatusOf(copy) \in {"excluding", "excluded"}
    BY <2>1 DEF CarStatusOf
  <2> QED BY <1>2, <2>2 DEF NextStatus
<1> QED BY <1>1, <1>2

LEMMA SyncCarKeeps ==
    ASSUME Inv, NEW h \in Calls, SyncCar(h)
    PROVE  /\ Done(h)
           /\ \/ car'[task[h].car].status \in {"excluding", "excluded"}
              \/ car[task[h].car].status # "excluded"
              \/ task[h].car \in spoilt'
              \/ car[task[h].car].of \in spoilt'
<1> DEFINE c == task[h].car
           s == task[h].sub
           status == NextStatus(h)
           late == task[h].subCopy # sub[s] \/ task[h].carCopy # car[c]
<1>1. TypeOK /\ h \in Handlers /\ h \notin Registers /\ h \notin Subs /\ task[h] \in Task
  BY HandlerFacts DEF Inv, TypeOK
<1>2. task[h].pc = "syncCar" /\ Working(h)
  BY DEF SyncCar, At, Inv, HandlersInv
<1>3. /\ c \in Cars /\ c # None /\ car[c].status # "absent"
      /\ s \in Subs /\ s # None /\ task[h].carCopy.of = s
  BY <1>2, HandlerFacts DEF Working, KnowsCar
<1>4. /\ task[h].excludes \in BOOLEAN /\ task[h].subCopy \in SubStatus
      /\ task[h].subCopy # "PENDING"
      /\ task[h].excludes = FALSE => task[h].subCopy # "absent"
      /\ task[h].excludes = TRUE => task[h].subCopy = "CANCELLING" /\ Over(s)
  BY <1>1, <1>2 DEF Task, Working, SyncCar
<1>5. /\ status \in {"active", "deactive", "excluding", "excluded"}
      /\ task[h].excludes = FALSE /\ status = "excluded" => task[h].subCopy = "CANCELED"
      /\ task[h].subCopy \in {"CANCELLING", "CANCELED"} => status \in {"excluding", "excluded"}
  <2>1. task[h].excludes = TRUE \/ task[h].excludes = FALSE
    BY <1>4
  <2> QED BY <1>4, <2>1, NextStatusIs
<1>6. /\ UNCHANGED <<ext, news, sub>> /\ car' = [car EXCEPT ![c].status = status]
      /\ Goto(h, "done") /\ SpoilIf(h, late) /\ late \in BOOLEAN
      /\ late = FALSE => task[h].subCopy = sub[s] /\ car[c] = task[h].carCopy
  BY DEF SyncCar, GotoLate
<1> HIDE DEF late, status
<1>7. /\ spoilt' \subseteq Cars \cup Subs /\ spoilt \subseteq spoilt'
      /\ \/ c \in spoilt' /\ s \in spoilt'
         \/ task[h].subCopy = sub[s] /\ car[c] = task[h].carCopy
  BY <1>1, <1>3, <1>6, SpoilEffect
<1>8. \/ c \in spoilt'
      \/ status # "excluded"
      \/ s \in spoilt'
      \/ Over(s) /\ sub[s] \in {"CANCELLING", "CANCELED"}
  BY <1>3, <1>4, <1>5, <1>7 DEF Inv, DataInv, CanceledInv, Over
<1>9. CarMoves(h, c, status)
  BY <1>3, <1>5, <1>6, <1>7, <1>8 DEF CarMoves
<1>10. SharedOK' /\ Kept(h) /\ DataInv' /\ car'[c].status = status
  BY <1>3, <1>5, <1>9, CarMovesKeeps DEF CarStatus
<1>11. Moved(h) /\ task'[h].pc = "done"
  BY <1>1, <1>6, GotoEffect DEF Pc
<1>12. \/ status \in {"excluding", "excluded"}
       \/ car[c].status # "excluded"
       \/ c \in spoilt'
       \/ car[c].of \in spoilt'
  <2>1. CASE c \in spoilt'
    BY <2>1
  <2>2. CASE task[h].subCopy = sub[s] /\ car[c] = task[h].carCopy
    <3>1. ExcludedInv /\ car[c].of = s
      BY <1>3, <2>2 DEF Inv, DataInv
    <3>2. ASSUME car[c].status = "excluded", c \notin spoilt', s \notin spoilt'
          PROVE  sub[s] \in {"CANCELLING", "CANCELED"}
      BY <1>3, <1>7, <3>1, <3>2 DEF ExcludedInv, Excused
    <3> QED BY <1>5, <2>2, <3>1, <3>2
  <2> QED BY <1>7, <2>1, <2>2
<1> QED BY <1>1, <1>10, <1>11, <1>12 DEF Done, Mine, Working

-----------------------------------------------------------------------------
(* The invariant.                                                          *)

LEMMA InitHolds == Init => Inv
<1> SUFFICES ASSUME Init PROVE Inv
  OBVIOUS
<1>1. TypeOK
  <2>1. \A h \in Handlers : (h \in Subs => h \in Subs \cup {None})
                            /\ (h \in Registers => h \in Cars \cup {None})
    BY DEF Subs, Cars
  <2>2. NoCar \in Car
    BY DEF NoCar, Car, CarStatus
  <2>3. task \in [Handlers -> Task]
    BY <2>1, <2>2 DEF Init, Task, SubStatus, ExtStatus, Pc
  <2> QED BY <2>2, <2>3 DEF Init, TypeOK, ExtStatus, SubStatus
<1>2. /\ \A h \in Handlers : task[h].pc = "begin" /\ task[h].excludes = FALSE
      /\ \A h \in Subs : task[h].sub = h
  BY HandlerFacts DEF Init
<1>3. /\ \A c \in Cars : car[c].status = "absent" /\ car[c].of = None
      /\ \A s \in Subs : ext[s] = "none" /\ sub[s] = "absent"
  BY DEF Init, NoCar
<1>4. HandlersInv
  BY <1>2, <1>3, HandlerFacts DEF HandlersInv, Working, Buying, Registering
<1>5. DataInv
  BY <1>3 DEF DataInv, CarInv, CanceledInv, ExcludedInv
<1> QED BY <1>1, <1>4, <1>5 DEF Inv

\* A handler's step is done.
Acts(h) ==
    \/ h \in Registers /\ (CheckAvailability(h) \/ InsertFree(h))
    \/ h \in Purchases /\ BeginPurchase(h)
    \/ h \in Upgrades /\ \E c \in Cars : BeginUpgrade(h, c)
    \/ h \in Calls /\ \E s \in Subs : BeginCancel(h, s) \/ BeginWebhook(h, s)
    \/ h \in Calls /\ \E c \in Cars : BeginExclude(h, c)
    \/ h \in Subs /\ CreateStep(h)
    \/ h \in Calls /\ SyncStep(h)
    \/ h \notin Registers /\ Fails(h)

LEMMA ActsKeeps ==
    ASSUME Inv, NEW h \in Handlers, Acts(h)
    PROVE  Done(h)
<1>1. CASE h \in Registers /\ (CheckAvailability(h) \/ InsertFree(h))
  BY <1>1, CheckKeeps, InsertFreeKeeps
<1>2. CASE h \in Purchases /\ BeginPurchase(h)
  BY <1>2, BeginPurchaseKeeps
<1>3. CASE h \in Upgrades /\ \E c \in Cars : BeginUpgrade(h, c)
  BY <1>3, BeginUpgradeKeeps
<1>4. CASE h \in Calls /\ \E s \in Subs : BeginCancel(h, s) \/ BeginWebhook(h, s)
  BY <1>4, BeginCancelKeeps, BeginWebhookKeeps
<1>5. CASE h \in Calls /\ \E c \in Cars : BeginExclude(h, c)
  BY <1>5, BeginExcludeKeeps
<1>6. CASE h \in Subs /\ CreateStep(h)
  BY <1>6, CreateKeeps, CreateFailsKeeps, InsertSubKeeps, InsertCarKeeps, LinkKeeps
     DEF CreateStep
<1>7. CASE h \in Calls /\ SyncStep(h)
  BY <1>7, ReadSubKeeps, ExcludeKeeps, FetchKeeps, CancelKeeps, CancelLostKeeps, SyncSubKeeps,
     SkipSubKeeps, FindCarKeeps, SyncCarKeeps DEF SyncStep
<1>8. CASE h \notin Registers /\ Fails(h)
  BY <1>8, FailsKeeps
<1> QED BY <1>1, <1>2, <1>3, <1>4, <1>5, <1>6, <1>7, <1>8 DEF Acts

LEMMA NextActs ==
    ASSUME Next
    PROVE  (\E h \in Handlers : Acts(h)) \/ (\E s \in Subs : GatewayMoves(s))
BY HandlerFacts DEF Next, Acts

LEMMA NextHolds == Inv /\ [Next]_vars => Inv'
<1> SUFFICES ASSUME Inv, [Next]_vars PROVE Inv'
  OBVIOUS
<1>1. ASSUME NEW h \in Handlers, Acts(h) PROVE Inv'
  BY <1>1, ActsKeeps, HandlersKeep DEF Done, Inv
<1>2. ASSUME NEW s \in Subs, GatewayMoves(s) PROVE Inv'
  BY <1>2, GatewayKeeps
<1>3. CASE UNCHANGED vars
  BY <1>3 DEF vars, Inv, TypeOK, HandlersInv, Working, Buying, Registering, KnowsCar, Over,
              DataInv, CarInv, CanceledInv, ExcludedInv, Excused
<1> QED BY <1>1, <1>2, <1>3, NextActs

LEMMA Invariant == Spec => []Inv
BY InitHolds, NextHolds, PTL DEF Spec

-----------------------------------------------------------------------------
(* The theorems.                                                           *)

(***************************************************************************)
(* Documents, the gateway's subscriptions and handlers have their forms;   *)
(* no handler comes to a car or a subscription that is not there.          *)
(***************************************************************************)
THEOREM SubscriptionTypeOK == Spec => []TypeOK
<1>1. Inv => TypeOK
  BY DEF Inv
<1> QED BY <1>1, Invariant, PTL

(***************************************************************************)
(* However many calls and webhooks run, the gateway does not bill the      *)
(* subscription of an excluded car unless handlers overlapped or failed.   *)
(***************************************************************************)
THEOREM ExcludedIsNotBilledTheorem == Spec => []ExcludedIsNotBilled
<1>1. Inv => ExcludedIsNotBilled
  BY DEF Inv, DataInv, ExcludedInv, ExcludedIsNotBilled, Over
<1> QED BY <1>1, Invariant, PTL

\* Who brings a car, or brings one back.
LEMMA WhoChangesCars ==
    ASSUME Inv, NEW h \in Handlers, Acts(h), NEW c \in Cars, car'[c] # car[c]
    PROVE  \/ h \in Registers /\ InsertFree(h)
           \/ h \in Purchases /\ InsertCar(h) /\ task[h].pc = "insertCar"
           \/ h \in Upgrades /\ Link(h) /\ task[h].pc = "link"
           \/ h \in Calls /\ (Exclude(h) \/ SyncCar(h))
<1>1. \/ UNCHANGED car
      \/ h \in Registers /\ InsertFree(h)
      \/ h \in Subs /\ (InsertCar(h) \/ Link(h))
      \/ h \in Calls /\ (Exclude(h) \/ SyncCar(h))
  BY DEF Acts, CheckAvailability, BeginPurchase, BeginUpgrade, BeginCancel, BeginWebhook,
         BeginExclude, CreateStep, CreateSubscription, CreateFails, CreateAnswerLost, InsertSub,
         SyncStep, ReadSub, FetchSubscription, CancelSubscription, CancelAnswerLost, SyncSub,
         SkipSub, FindCar, Fails
<1>2. h \in Subs /\ InsertCar(h) => h \in Purchases /\ task[h].pc = "insertCar"
  BY DEF InsertCar, At, Inv, HandlersInv, Buying
<1>3. h \in Subs /\ Link(h) => h \in Upgrades /\ task[h].pc = "link"
  BY DEF Link, At, Inv, HandlersInv, Buying
<1> QED BY <1>1, <1>2, <1>3

\* An upgrade or a purchase excuses an excluded car that it brings back.
LEMMA BuyingServes ==
    ASSUME Inv, NEW h \in Subs, InsertCar(h) \/ Link(h), NEW c \in Cars,
           car[c].status = "excluded", car'[c] # car[c]
    PROVE  Excused(c)'
<1>1. TypeOK /\ h \in Handlers /\ Buying(h)
  BY HandlerFacts DEF Inv, HandlersInv
<1>2. CASE InsertCar(h)
  <2>1. h \in Purchases /\ h \in Cars /\ car[h].status = "absent"
    BY <1>1, <1>2, HandlerFacts DEF InsertCar, At, Buying
  <2> QED BY <1>1, <1>2, <2>1 DEF InsertCar, TypeOK
<1>3. CASE Link(h)
  <2> DEFINE d == task[h].car
             late == car[d] # task[h].carCopy \/ sub[h] # "ACTIVE"
  <2>1. d \in Cars /\ d # None /\ task[h].carCopy.status = "active"
    BY <1>1, <1>3, HandlerFacts DEF Link, At, Buying, KnowsCar
  <2>2. c = d
    BY <1>1, <1>3, <2>1 DEF Link, TypeOK
  <2>3. late = TRUE /\ SpoilIf(h, late)
    BY <1>3, <2>1, <2>2 DEF Link, GotoLate
  <2> HIDE DEF late
  <2>4. d \in spoilt'
    BY <1>1, <2>1, <2>3, SpoilEffect
  <2> QED BY <2>2, <2>4 DEF Excused
<1> QED BY <1>2, <1>3

\* The car of a synchronisation or an exclusion is the only one it changes.
LEMMA CallServes ==
    ASSUME Inv, NEW h \in Calls, Exclude(h) \/ SyncCar(h), NEW c \in Cars,
           car[c].status = "excluded", car'[c].status \in {"active", "deactive"}
    PROVE  Excused(c)'
<1>1. TypeOK /\ car[c] \in Car
  BY DEF Inv, TypeOK
<1>2. c = task[h].car
  BY <1>1 DEF Exclude, SyncCar, TypeOK
<1>3. CASE Exclude(h)
  BY <1>2, <1>3, ExcludeKeeps
<1>4. CASE SyncCar(h)
  <2>1. c \in spoilt' \/ car[c].of \in spoilt'
    BY <1>2, <1>4, SyncCarKeeps
  <2>2. car'[c].of = car[c].of
    BY <1>1, <1>2, <1>4 DEF SyncCar, TypeOK, Car
  <2> QED BY <2>1, <2>2 DEF Excused
<1> QED BY <1>3, <1>4

(***************************************************************************)
(* Nor is an excluded car served again unless handlers overlapped or       *)
(* failed: a synchronisation that read its subscription before, or an      *)
(* upgrade that read the car before, is such an overlap.                   *)
(***************************************************************************)
THEOREM ExcludedIsNotServedTheorem == Spec => ExcludedIsNotServed
<1> DEFINE Served(c) == car[c].status = "excluded" /\ car'[c].status \in {"active", "deactive"}
           Step == \A c \in Cars : Served(c) => Excused(c)'
<1>1. Inv /\ [Next]_vars => [Step]_vars
  <2> SUFFICES ASSUME Inv, Next, NEW c \in Cars, Served(c) PROVE Excused(c)'
    OBVIOUS
  <2>1. ASSUME NEW h \in Handlers, Acts(h) PROVE Excused(c)'
    <3>1. CASE h \in Registers /\ InsertFree(h)
      <4>1. TypeOK /\ h \in Cars
        BY <3>1, HandlerFacts DEF Inv
      <4>2. h = c
        BY <3>1, <4>1 DEF InsertFree, TypeOK
      <4>3. c \in spoilt /\ spoilt \subseteq spoilt'
        BY <3>1, <4>2 DEF Inv, HandlersInv, Registering, InsertFree, At
      <4> QED BY <4>3 DEF Excused
    <3>2. CASE h \in Subs /\ (InsertCar(h) \/ Link(h))
      BY <3>2, BuyingServes
    <3>3. CASE h \in Calls /\ (Exclude(h) \/ SyncCar(h))
      BY <3>3, CallServes
    <3> QED BY <2>1, <3>1, <3>2, <3>3, WhoChangesCars DEF Subs
  <2>2. ASSUME NEW s \in Subs, GatewayMoves(s) PROVE Excused(c)'
    BY <2>2 DEF GatewayMoves
  <2> QED BY <2>1, <2>2, NextActs
<1> QED BY <1>1, Invariant, PTL DEF Spec, ExcludedIsNotServed

(***************************************************************************)
(* And a user's free car is the first, for any number of registrations,    *)
(* unless they overlapped.                                                 *)
(***************************************************************************)
THEOREM FreeCarTheorem == Spec => FreeCarIsFirst
<1> DEFINE Comes(r) == car[r].status = "absent" /\ car'[r].status # "absent"
           Step == \A r \in Registers :
                      Comes(r) => r \in spoilt \/ \A c \in Cars : car[c].status = "absent"
<1>1. Inv /\ [Next]_vars => [Step]_vars
  <2> SUFFICES ASSUME Inv, Next, NEW r \in Registers, Comes(r)
               PROVE  r \in spoilt \/ \A c \in Cars : car[c].status = "absent"
    OBVIOUS
  <2>1. ASSUME NEW h \in Handlers, Acts(h), h # r PROVE car'[r].status = "absent"
    BY <2>1, ActsKeeps, HandlerFacts DEF Done, Kept
  <2>2. ASSUME Acts(r) PROVE Registering(r) /\ task[r].pc = "insertFree"
    <3>1. InsertFree(r)
      BY <2>2, WhoChangesCars, HandlerFacts
    <3> QED BY <3>1 DEF InsertFree, At, Inv, HandlersInv
  <2>3. ASSUME NEW s \in Subs, GatewayMoves(s) PROVE FALSE
    BY <2>3 DEF GatewayMoves
  <2> QED BY <2>1, <2>2, <2>3, NextActs DEF Registering
<1> QED BY <1>1, Invariant, PTL DEF Spec, FreeCarIsFirst

-----------------------------------------------------------------------------
(* What follows what: the document follows the gateway and the car follows *)
(* the document, or a handler is on its way to make them.                  *)

\* The car a subscription was bought for.
CarOf(s) == IF s \in Upgrades THEN task[s].car ELSE s

\* Subscription s has been bought, for car c.
Bought(s, c) == CarOf(s) = c /\ At(s, "done") /\ ext[s] # "none"

OwnerInv ==
    /\ \A c \in Cars : car[c].of # None => Bought(car[c].of, c)
    /\ \A h \in Calls : task[h].carCopy.of # None => Bought(task[h].carCopy.of, task[h].car)
    /\ \A r \in Registers : task[r].pc # "done" => car[r].status = "absent"
    /\ \A u \in Upgrades : /\ At(u, "begin") => task[u].car = None
                           /\ ~At(u, "begin") => task[u].car \in Cars
    /\ \A s \in Subs : task[s].pc \in {"insertSub", "insertCar", "link"} => ext[s] # "none"

\* The gateway's subscription has its car, or will have it, or had it.
Linked(s) ==
    ext[s] # "none" =>
       \/ \E c \in Cars : car[c].of = s
       \/ s \in spoilt
       \/ task[s].pc \in {"insertSub", "insertCar", "link"}
       \/ \E u \in Upgrades \ {s} : task[u].car = CarOf(s)

\* A handler has fetched what the gateway says now.
Brings(h, s) == At(h, "syncSub") /\ task[h].sub = s /\ task[h].seen = ext[s]

FollowsGateway(s) ==
    \/ s \in news \cup spoilt
    \/ LocalOf(ext[s], sub[s]) = sub[s]
    \/ At(s, "insertSub")
    \/ \E h \in Calls : Brings(h, s)

\* The car's status is that of its document.
Agrees(status, st) ==
    \/ st = "ACTIVE" /\ status = "active"
    \/ st = "INACTIVE" /\ status = "deactive"
    \/ st = "CANCELLING" /\ status \in {"excluding", "excluded"}
    \/ st = "CANCELED" /\ status = "excluded"

\* A handler is on its way to the car with what the document says now.
Passes(h, s) ==
    task[h].pc \in {"findCar", "syncCar"} /\ task[h].sub = s /\ task[h].subCopy = sub[s]

FollowsSub(c) ==
    \/ car[c].of = None
    \/ Excused(c)
    \/ Agrees(car[c].status, sub[car[c].of])
    \/ \E h \in Calls : Passes(h, car[c].of)

-----------------------------------------------------------------------------
(* Who changes what.                                                       *)

\* A handler that has ended does nothing more.
LEMMA NotDone ==
    ASSUME NEW h \in Handlers, Acts(h)
    PROVE  task[h].pc # "done"
BY DEF Acts, At, CheckAvailability, InsertFree, BeginPurchase, BeginUpgrade, BeginCancel,
       BeginWebhook, BeginExclude, CreateStep, CreateSubscription, CreateFails,
       CreateAnswerLost, InsertSub, InsertCar, Link, SyncStep, ReadSub, Exclude,
       FetchSubscription, CancelSubscription, CancelAnswerLost, SyncSub, SkipSub, FindCar,
       SyncCar, Fails

\* Who changes the gateway's subscriptions, the documents and the news.
LEMMA WhoChangesSubs ==
    ASSUME NEW h \in Handlers, Acts(h)
    PROVE  /\ \/ UNCHANGED ext
              \/ h \in Subs /\ (CreateSubscription(h) \/ CreateAnswerLost(h))
              \/ h \in Calls /\ (CancelSubscription(h) \/ CancelAnswerLost(h))
           /\ \/ UNCHANGED sub
              \/ h \in Subs /\ InsertSub(h)
              \/ h \in Calls /\ SyncSub(h)
           /\ \/ UNCHANGED news
              \/ h \in Calls /\ (\/ FetchSubscription(h) \/ CancelSubscription(h)
                                 \/ CancelAnswerLost(h))
BY DEF Acts, CheckAvailability, InsertFree, BeginPurchase, BeginUpgrade, BeginCancel,
       BeginWebhook, BeginExclude, CreateStep, CreateSubscription, CreateFails,
       CreateAnswerLost, InsertSub, InsertCar, Link, SyncStep, ReadSub, Exclude,
       FetchSubscription, CancelSubscription, CancelAnswerLost, SyncSub, SkipSub, FindCar,
       SyncCar, Fails

\* What the gateway has, it keeps.
LEMMA ExtRemains ==
    ASSUME Inv, NEW h \in Handlers, Acts(h), NEW s \in Subs, ext[s] # "none"
    PROVE  ext'[s] # "none"
<1>1. ext \in [Subs -> ExtStatus]
  BY DEF Inv, TypeOK
<1>2. CASE UNCHANGED ext
  BY <1>2
<1>3. CASE CreateSubscription(h) \/ CreateAnswerLost(h)
  BY <1>1, <1>3 DEF CreateSubscription, CreateAnswerLost
<1>4. CASE CancelSubscription(h) \/ CancelAnswerLost(h)
  BY <1>1, <1>4 DEF CancelSubscription, CancelAnswerLost
<1> QED BY <1>2, <1>3, <1>4, WhoChangesSubs

\* How a purchase or an upgrade moves.
LEMMA BuyerMoves ==
    ASSUME Inv, NEW h \in Subs, Acts(h)
    PROVE  /\ task'[h].pc # "begin"
           /\ h \in Upgrades => \/ task[h].pc # "begin" /\ task'[h].car = task[h].car
                                \/ task[h].pc = "begin" /\ task'[h].car \in Cars
<1>1. TypeOK /\ h \in Handlers /\ h \notin Registers /\ h \notin Calls
  BY HandlerFacts DEF Inv
<1>2. ASSUME NEW pc \in Pc, Goto(h, pc)
      PROVE  task'[h].pc = pc /\ (h \in Upgrades => task'[h].car = task[h].car)
  BY <1>1, <1>2, GotoEffect
<1>3. CASE h \in Upgrades /\ \E c \in Cars : BeginUpgrade(h, c)
  <2>1. PICK c \in Cars : BeginUpgrade(h, c)
    BY <1>3
  <2>2. task[h] \in Task /\ task[h].pc = "begin"
    BY <1>1, <2>1 DEF TypeOK, BeginUpgrade, At
  <2>3. task'[h] = [task[h] EXCEPT !.car = c, !.carCopy = car[c], !.pc = "create"]
    BY <1>1, <2>1 DEF TypeOK, BeginUpgrade
  <2>4. task'[h].pc = "create" /\ task'[h].car = c
    BY <2>2, <2>3 DEF Task
  <2> QED BY <2>2, <2>4
<1>4. CASE h \in Purchases /\ BeginPurchase(h)
  <2>1. \E pc \in {"create", "done"} : Goto(h, pc)
    BY <1>4 DEF BeginPurchase
  <2> QED BY <1>2, <1>4, <2>1, HandlerFacts DEF Pc
<1>5. CASE CreateStep(h) \/ Fails(h)
  <2>1. \E pc \in {"insertSub", "insertCar", "link", "done"} : Goto(h, pc)
    BY <1>5 DEF CreateStep, CreateSubscription, CreateFails, CreateAnswerLost, InsertSub,
                InsertCar, Link, Fails, GotoLate
  <2>2. task[h].pc # "begin"
    BY <1>5 DEF CreateStep, CreateSubscription, CreateFails, CreateAnswerLost, InsertSub,
                InsertCar, Link, Fails, At
  <2> QED BY <1>2, <2>1, <2>2 DEF Pc
<1> QED BY <1>1, <1>3, <1>4, <1>5 DEF Acts

\* Where a call has its copy of a car from.
LEMMA CopyFrom ==
    ASSUME Inv, NEW h \in Calls, Acts(h)
    PROVE  \/ task'[h].carCopy.of = None
           \/ task'[h].carCopy = task[h].carCopy /\ task'[h].car = task[h].car
           \/ task'[h].car \in Cars /\ task'[h].carCopy = car[task'[h].car]
<1>1. /\ TypeOK /\ h \in Handlers /\ h \notin Registers /\ h \notin Subs /\ task[h] \in Task
      /\ h \notin Purchases /\ h \notin Upgrades
  BY HandlerFacts DEF Inv, TypeOK
<1>2. ASSUME NEW pc \in Pc, Goto(h, pc)
      PROVE  \/ task'[h].carCopy.of = None
             \/ task'[h].carCopy = task[h].carCopy /\ task'[h].car = task[h].car
  <2>1. CASE pc = "done"
    <3>1. task'[h].carCopy = NoCar
      BY <1>1, <1>2, <2>1, GotoEffect
    <3> QED BY <3>1 DEF NoCar
  <2>2. CASE pc # "done"
    BY <1>1, <1>2, <2>2, GotoEffect DEF Same
  <2> QED BY <2>1, <2>2
<1>3. CASE Exclude(h) \/ SyncCar(h) \/ CancelAnswerLost(h) \/ Fails(h)
  <2>1. Goto(h, "done")
    BY <1>3 DEF Exclude, SyncCar, CancelAnswerLost, Fails, GotoLate
  <2> QED BY <1>2, <2>1 DEF Pc
<1>4. CASE \E s \in Subs : BeginCancel(h, s) \/ BeginWebhook(h, s)
  BY <1>1, <1>4 DEF BeginCancel, BeginWebhook, TypeOK, Task
<1>5. CASE FetchSubscription(h) \/ CancelSubscription(h) \/ SyncSub(h) \/ SkipSub(h)
  BY <1>1, <1>5 DEF FetchSubscription, CancelSubscription, SyncSub, SkipSub, TypeOK, Task
<1>6. CASE ReadSub(h)
  <2>1. CASE task[h].carCopy.of = None
    BY <1>2, <1>6, <2>1 DEF ReadSub, Pc
  <2>2. CASE task[h].carCopy.of # None
    BY <1>1, <1>6, <2>2 DEF ReadSub, TypeOK, Task
  <2> QED BY <2>1, <2>2
<1>7. CASE \E c \in Cars : BeginExclude(h, c)
  BY <1>1, <1>7 DEF BeginExclude, TypeOK, Task
<1>8. CASE FindCar(h)
  <2>1. CASE Goto(h, "done")
    BY <1>2, <2>1 DEF Pc
  <2>2. CASE \E c \in Cars : task' = [task EXCEPT ![h].car = c, ![h].carCopy = car[c],
                                                  ![h].pc = "syncCar"]
    BY <1>1, <2>2 DEF TypeOK, Task
  <2> QED BY <1>8, <2>1, <2>2 DEF FindCar
<1> QED BY <1>1, <1>3, <1>4, <1>5, <1>6, <1>7, <1>8 DEF Acts, SyncStep

\* The car a step writes, and its subscription then.
LEMMA OfChanges ==
    ASSUME Inv, OwnerInv, NEW h \in Handlers, Acts(h), NEW c \in Cars, car'[c].of # car[c].of
    PROVE  /\ h \in Subs /\ task[h].pc \in {"insertCar", "link"} /\ task'[h].pc = "done"
           /\ c = CarOf(h) /\ c = CarOf(h)' /\ car'[c].of = h /\ car'[c].status = "active"
           /\ h \in Purchases => InsertCar(h) /\ car[c].of = None
           /\ h \in Upgrades => Link(h)
<1>1. TypeOK /\ CarInv /\ car[c] \in Car /\ car'[c] # car[c]
  BY DEF Inv, DataInv, TypeOK
<1>2. CASE h \in Registers /\ InsertFree(h)
  <2>1. h = c
    BY <1>1, <1>2 DEF InsertFree, TypeOK
  <2>2. car[c].of = None
    BY <1>1, <1>2, <2>1 DEF InsertFree, At, OwnerInv, CarInv
  <2>3. car'[c] = [NoCar EXCEPT !.status = "active"]
    BY <1>1, <1>2, <2>1 DEF InsertFree, TypeOK
  <2> QED BY <2>2, <2>3 DEF NoCar
<1>3. CASE h \in Purchases /\ InsertCar(h) /\ task[h].pc = "insertCar"
  <2>1. h \in Subs /\ h \notin Upgrades /\ h \in Cars
    BY <1>3, HandlerFacts
  <2>2. h = c /\ car'[c] = [status |-> "active", of |-> h]
    BY <1>1, <1>3, <2>1 DEF InsertCar, TypeOK
  <2>3. car[c].of = None
    BY <1>1, <1>3, <2>1, <2>2 DEF Inv, HandlersInv, Buying, CarInv
  <2>4. task'[h].pc = "done"
    BY <1>1, <1>3, GotoEffect DEF InsertCar, Pc
  <2> QED BY <1>3, <2>1, <2>2, <2>3, <2>4 DEF CarOf
<1>4. CASE h \in Upgrades /\ Link(h) /\ task[h].pc = "link"
  <2>1. h \in Subs /\ h \notin Purchases /\ task[h].car \in Cars
    BY <1>4, HandlerFacts DEF OwnerInv, At
  <2>2. c = task[h].car
    BY <1>1, <1>4, <2>1 DEF Link, TypeOK
  <2>3. car'[c].of = h /\ car'[c].status = "active"
    <3>1. car'[c] = [[car[c] EXCEPT !.status = "active"] EXCEPT !.of = h]
      BY <1>1, <1>4, <2>2 DEF Link, TypeOK
    <3> QED BY <1>1, <3>1 DEF Car
  <2>4. task'[h].pc = "done" /\ task'[h].car = task[h].car
    BY <1>1, <1>4, GotoEffect DEF Link, GotoLate, Pc
  <2> QED BY <1>4, <2>1, <2>2, <2>3, <2>4 DEF CarOf
<1>5. CASE h \in Calls /\ (Exclude(h) \/ SyncCar(h))
  <2>1. \E d, status : car' = [car EXCEPT ![d].status = status]
    BY <1>5 DEF Exclude, SyncCar
  <2>2. PICK d, status : car' = [car EXCEPT ![d].status = status]
    BY <2>1
  <2>3. car'[c] = [car[c] EXCEPT !.status = status]
    BY <1>1, <2>2 DEF TypeOK
  <2> QED BY <1>1, <2>3 DEF Car
<1> QED BY <1>1, <1>2, <1>3, <1>4, <1>5, WhoChangesCars

-----------------------------------------------------------------------------
(* Owners.                                                                 *)

\* What has been bought stays so.
LEMMA BoughtStays ==
    ASSUME Inv, NEW h \in Handlers, Acts(h), NEW s \in Subs, NEW c, Bought(s, c)
    PROVE  Bought(s, c)'
<1>1. s # h
  BY NotDone DEF Bought, At
<1>2. task'[s] = task[s]
  BY <1>1, ActsKeeps, MovedEffect, HandlerFacts DEF Done, Inv
<1>3. ext'[s] # "none"
  BY ExtRemains DEF Bought
<1> QED BY <1>2, <1>3 DEF Bought, CarOf, At

LEMMA OwnerNext ==
    ASSUME Inv, OwnerInv, NEW h \in Handlers, Acts(h)
    PROVE  OwnerInv'
<1>1. TypeOK /\ Done(h) /\ Moved(h) /\ Kept(h)
  BY ActsKeeps DEF Inv, Done
<1>2. \A g \in Handlers \ {h} : task'[g] = task[g]
  BY <1>1, MovedEffect
<1>3. /\ \A c \in Cars : car[c].of \in Subs \cup {None}
      /\ \A g \in Handlers : task[g].carCopy.of \in Subs \cup {None}
  BY <1>1 DEF TypeOK, Task, Car
<1>4. ASSUME NEW c \in Cars, NEW s \in Subs, car'[c].of = s PROVE Bought(s, c)'
  <2>1. s # None
    BY HandlerFacts
  <2>2. CASE car[c].of = s
    <3>1. Bought(s, c)
      BY <2>1, <2>2 DEF OwnerInv
    <3> QED BY <3>1, BoughtStays
  <2>3. CASE car[c].of # s
    <3>1. /\ s = h /\ task[s].pc \in {"insertCar", "link"} /\ task'[s].pc = "done"
          /\ c = CarOf(s)'
      BY <1>4, <2>3, OfChanges
    <3>2. ext'[s] # "none"
      BY <3>1, ExtRemains DEF OwnerInv
    <3> QED BY <3>1, <3>2 DEF Bought, At
  <2> QED BY <2>2, <2>3
<1>5. ASSUME NEW g \in Calls, NEW s \in Subs, task'[g].carCopy.of = s, NEW c, task'[g].car = c
      PROVE  Bought(s, c)'
  <2>1. g \in Handlers /\ s # None
    BY HandlerFacts
  <2>2. CASE task'[g].carCopy = task[g].carCopy /\ task'[g].car = task[g].car
    <3>1. Bought(s, c)
      BY <1>5, <2>1, <2>2 DEF OwnerInv
    <3> QED BY <3>1, BoughtStays
  <2>3. CASE c \in Cars /\ task'[g].carCopy = car[c]
    <3>1. Bought(s, c)
      BY <1>5, <2>1, <2>3 DEF OwnerInv
    <3> QED BY <3>1, BoughtStays
  <2> QED BY <1>2, <1>5, <2>1, <2>2, <2>3, CopyFrom
<1>6. ASSUME NEW r \in Registers, task'[r].pc # "done" PROVE car'[r].status = "absent"
  <2>1. r \in Handlers /\ r \in Cars
    BY HandlerFacts
  <2>2. CASE r # h
    BY <1>1, <1>2, <1>6, <2>1, <2>2 DEF Kept, OwnerInv
  <2>3. CASE r = h
    <3>1. ~InsertFree(r)
      BY <1>1, <1>6, <2>1, GotoEffect DEF InsertFree, Pc
    <3>2. task[r].pc # "done"
      BY <2>3, NotDone
    <3>3. car'[r] = car[r]
      BY <2>1, <2>3, <3>1, WhoChangesCars, HandlerFacts
    <3> QED BY <3>2, <3>3 DEF OwnerInv
  <2> QED BY <2>2, <2>3
<1>7. ASSUME NEW u \in Upgrades
      PROVE  /\ At(u, "begin")' => task'[u].car = None
             /\ ~At(u, "begin")' => task'[u].car \in Cars
  <2>1. u \in Handlers /\ u \in Subs
    BY HandlerFacts
  <2>2. CASE u # h
    BY <1>2, <2>1, <2>2 DEF OwnerInv, At
  <2>3. CASE u = h
    BY <2>1, <2>3, BuyerMoves DEF OwnerInv, At
  <2> QED BY <2>2, <2>3
<1>8. ASSUME NEW s \in Subs, task'[s].pc \in {"insertSub", "insertCar", "link"}
      PROVE  ext'[s] # "none"
  <2>1. s \in Handlers
    BY HandlerFacts
  <2>2. CASE s # h
    BY <1>2, <1>8, <2>1, <2>2, ExtRemains DEF OwnerInv
  <2>3. CASE s = h
    <3>1. TypeOK' /\ HandlersInv'
      BY <1>1, HandlersKeep DEF Done, Inv
    <3>2. CASE CreateSubscription(h)
      BY <1>1, <2>3, <3>2 DEF CreateSubscription, TypeOK
    <3>3. CASE InsertSub(h)
      BY <2>3, <3>3, ExtRemains DEF InsertSub, At, OwnerInv
    <3>4. CASE ~CreateSubscription(h) /\ ~InsertSub(h)
      <4>1. \/ Goto(h, "done") \/ Goto(h, "create")
            \/ h \in Upgrades /\ \E c \in Cars : BeginUpgrade(h, c)
        BY <2>3, <3>4, HandlerFacts DEF Acts, CreateStep, CreateFails, CreateAnswerLost,
           InsertCar, Link, Fails, GotoLate, BeginPurchase
      <4>2. ASSUME NEW c \in Cars, BeginUpgrade(h, c) PROVE task'[h].pc = "create"
        BY <1>1, <4>2 DEF BeginUpgrade, TypeOK, Task
      <4>3. task'[h].pc \in {"done", "create"}
        BY <1>1, <4>1, <4>2, GotoEffect DEF Pc
      <4> QED BY <1>8, <2>3, <4>3
    <3> QED BY <3>2, <3>3, <3>4
  <2> QED BY <2>2, <2>3
<1>9. TypeOK'
  BY <1>1, HandlersKeep DEF Done, Inv
<1>10. ASSUME NEW c \in Cars, car'[c].of # None PROVE Bought(car[c].of, c)'
  <2>1. PICK s \in Subs : car'[c].of = s
    BY <1>9, <1>10 DEF TypeOK, Car
  <2>2. Bought(s, c)'
    BY <1>4, <2>1
  <2> QED BY <2>1, <2>2 DEF Bought, CarOf, At
<1>11. ASSUME NEW g \in Calls, task'[g].carCopy.of # None
       PROVE  Bought(task[g].carCopy.of, task[g].car)'
  <2>1. PICK s \in Subs : task'[g].carCopy.of = s
    BY <1>9, <1>11, HandlerFacts DEF TypeOK, Task, Car
  <2>2. PICK c : task'[g].car = c
    OBVIOUS
  <2>3. Bought(s, c)'
    BY <1>5, <2>1, <2>2
  <2> QED BY <2>1, <2>2, <2>3 DEF Bought, CarOf, At
<1> QED BY <1>6, <1>7, <1>8, <1>10, <1>11 DEF OwnerInv

-----------------------------------------------------------------------------
(* Every billed subscription has its car.                                  *)

\* The first step of a subscription at the gateway.
LEMMA Creates ==
    ASSUME Inv, NEW h \in Handlers, Acts(h), NEW s \in Subs, ext[s] = "none", ext'[s] # "none"
    PROVE  s = h /\ (s \in spoilt' \/ task'[s].pc = "insertSub")
<1>1. TypeOK
  BY DEF Inv
<1>2. CASE h \in Calls /\ (CancelSubscription(h) \/ CancelAnswerLost(h))
  <2>1. /\ ext' = [ext EXCEPT ![task[h].sub] = "cancelled"]
        /\ ext[task[h].sub] # "none"
    BY <1>2 DEF CancelSubscription, CancelAnswerLost
  <2> QED BY <1>1, <2>1 DEF TypeOK
<1>3. CASE h \in Subs /\ CreateAnswerLost(h)
  BY <1>1, <1>3 DEF CreateAnswerLost, TypeOK
<1>4. CASE h \in Subs /\ CreateSubscription(h)
  <2>1. PICK e \in {"active", "pending"} :
           /\ ext' = [ext EXCEPT ![h] = e]
           /\ Goto(h, IF e = "active" THEN "insertSub" ELSE "done")
           /\ spoilt' = IF e = "active" THEN spoilt ELSE spoilt \cup {h}
    BY <1>4 DEF CreateSubscription
  <2>2. s = h
    BY <1>1, <2>1 DEF TypeOK
  <2>3. CASE e = "active"
    BY <1>1, <2>1, <2>2, <2>3, GotoEffect DEF Pc
  <2>4. CASE e # "active"
    BY <2>1, <2>2, <2>4
  <2> QED BY <2>2, <2>3, <2>4
<1> QED BY <1>2, <1>3, <1>4, WhoChangesSubs

\* A purchase or an upgrade that the gateway bills goes on to the car, or is spoilt.
LEMMA Proceeds ==
    ASSUME Inv, NEW h \in Subs, Acts(h), task[h].pc \in {"insertSub", "insertCar", "link"}
    PROVE  \/ h \in spoilt'
           \/ InsertSub(h) /\ task'[h].pc \in {"insertCar", "link"}
           \/ \E c \in Cars : car'[c].of = h /\ (InsertCar(h) \/ Link(h))
<1>1. /\ TypeOK /\ Buying(h) /\ h \in Handlers /\ h \notin Registers /\ h \notin Calls
      /\ h # None /\ task[h].sub = h
  BY HandlerFacts DEF Inv, HandlersInv, Buying
<1>2. CASE InsertSub(h)
  <2>1. \E pc \in {"insertCar", "link"} : Goto(h, pc)
    BY <1>2 DEF InsertSub, GotoLate
  <2> QED BY <1>1, <1>2, <2>1, GotoEffect DEF Pc
<1>3. CASE InsertCar(h)
  <2>1. h \in Purchases /\ h \in Cars
    BY <1>1, <1>3, HandlerFacts DEF InsertCar, At, Buying
  <2> QED BY <1>1, <1>3, <2>1 DEF InsertCar, TypeOK
<1>4. CASE Link(h)
  <2>1. task[h].car \in Cars
    BY <1>1, <1>4 DEF Link, At, Buying, KnowsCar
  <2>2. car'[task[h].car] = [[car[task[h].car] EXCEPT !.status = "active"] EXCEPT !.of = h]
    BY <1>1, <1>4, <2>1 DEF Link, TypeOK
  <2>3. car'[task[h].car].of = h
    BY <1>1, <2>1, <2>2 DEF TypeOK, Car
  <2> QED BY <1>4, <2>1, <2>3
<1>5. CASE Fails(h)
  <2> DEFINE late == task[h].pc \in {"insertSub", "insertCar", "link", "syncSub", "findCar",
                                     "syncCar"}
  <2>1. late = TRUE /\ SpoilIf(h, late)
    BY <1>5 DEF Fails, GotoLate
  <2> HIDE DEF late
  <2>2. h \in spoilt'
    BY <1>1, <2>1, SpoilEffect
  <2> QED BY <2>2
<1>6. CASE CreateSubscription(h) \/ CreateFails(h) \/ CreateAnswerLost(h)
           \/ BeginPurchase(h) \/ \E c \in Cars : BeginUpgrade(h, c)
  BY <1>6 DEF CreateSubscription, CreateFails, CreateAnswerLost, BeginPurchase, BeginUpgrade,
              At
<1> QED BY <1>1, <1>2, <1>3, <1>4, <1>5, <1>6 DEF Acts, CreateStep

LEMMA LinkedNext ==
    ASSUME Inv, OwnerInv, NEW h \in Handlers, Acts(h), NEW s \in Subs, Linked(s)
    PROVE  Linked(s)'
<1>1. TypeOK /\ Moved(h) /\ spoilt \subseteq spoilt'
  BY ActsKeeps DEF Inv, Done, Kept
<1>2. /\ \A g \in Handlers \ {h} : task'[g] = task[g]
      /\ s \in Handlers /\ s # None
  BY <1>1, MovedEffect, HandlerFacts
<1> SUFFICES ASSUME ext'[s] # "none", s \notin spoilt',
                    task'[s].pc \notin {"insertSub", "insertCar", "link"}
             PROVE  \/ \E c \in Cars : car'[c].of = s
                    \/ \E u \in Upgrades \ {s} : task'[u].car = CarOf(s)'
  BY DEF Linked
<1>3. ext[s] # "none"
  BY Creates
<1>4. CarOf(s) \in Cars /\ CarOf(s)' = CarOf(s)
  <2>1. task[s].pc # "begin"
    BY <1>3 DEF Inv, HandlersInv, Buying
  <2>2. s \in Upgrades => task[s].car \in Cars /\ task'[s].car = task[s].car
    BY <1>2, <2>1, BuyerMoves DEF OwnerInv, At
  <2> QED BY <2>2, HandlerFacts DEF CarOf, Subs
<1>5. CASE \E c \in Cars : car[c].of = s
  <2>1. PICK c \in Cars : car[c].of = s
    BY <1>5
  <2>2. CASE car'[c].of = s
    BY <2>2
  <2>3. CASE car'[c].of # s
    <3>1. /\ h \in Subs /\ c = CarOf(h)'
          /\ h \in Purchases => car[c].of = None
      BY <2>1, <2>3, OfChanges
    <3>2. Bought(s, c)
      BY <1>2, <2>1 DEF OwnerInv
    <3>3. h # s /\ c = CarOf(s)
      BY <3>2, NotDone DEF Bought, At
    <3>4. h \in Upgrades /\ task'[h].car = c
      BY <1>2, <2>1, <3>1 DEF Subs, CarOf
    <3> QED BY <1>4, <3>3, <3>4
  <2> QED BY <2>2, <2>3
<1>6. CASE task[s].pc \in {"insertSub", "insertCar", "link"}
  <2>1. s = h
    BY <1>2, <1>6
  <2> QED BY <1>6, <2>1, Proceeds
<1>7. CASE \E u \in Upgrades \ {s} : task[u].car = CarOf(s)
  <2>1. PICK u \in Upgrades \ {s} : task[u].car = CarOf(s)
    BY <1>7
  <2>2. u \in Handlers /\ u \in Subs /\ None \notin Cars
    BY HandlerFacts
  <2>3. task'[u].car = task[u].car
    <3>1. ~At(u, "begin")
      BY <1>4, <2>1, <2>2 DEF OwnerInv
    <3> QED BY <1>2, <2>2, <3>1, BuyerMoves DEF At
  <2> QED BY <1>4, <2>1, <2>3
<1> QED BY <1>1, <1>3, <1>5, <1>6, <1>7 DEF Linked

-----------------------------------------------------------------------------
(* Documents follow the gateway.                                           *)

\* The status of a document, written again, is the same.
LEMMA LocalOfLocal ==
    ASSUME NEW e, NEW s
    PROVE  /\ LocalOf(e, LocalOf(e, s)) = LocalOf(e, s)
           /\ LocalOf("active", s) = "ACTIVE"
           /\ e \in ExtStatus \ {"none", "closed", "active"} => LocalOf(e, s) # "ACTIVE"
<1>1. CASE e = "active"
  BY <1>1 DEF LocalOf
<1>2. CASE e = "cancelled"
  BY <1>2 DEF LocalOf
<1>3. CASE e \in {"expired", "dued"}
  BY <1>3 DEF LocalOf
<1>4. CASE e = "terminated"
  BY <1>4 DEF LocalOf
<1>5. CASE e = "pending"
  BY <1>5 DEF LocalOf
<1>6. CASE e \notin {"active", "cancelled", "expired", "dued", "terminated", "pending"}
  BY <1>6 DEF LocalOf, ExtStatus
<1> QED BY <1>1, <1>2, <1>3, <1>4, <1>5, <1>6

\* What a step that writes neither does to a handler that has fetched.
LEMMA BringerMoves ==
    ASSUME Inv, NEW h \in Calls, Acts(h), NEW s \in Subs, Brings(h, s), ~SyncSub(h)
    PROVE  s \in spoilt' \/ LocalOf(ext[s], sub[s]) = sub[s]
<1>1. TypeOK /\ h \in Handlers /\ s # None /\ task[h].pc = "syncSub" /\ task[h].sub = s
      /\ h \notin Subs /\ h \notin Registers /\ h \notin Purchases /\ h \notin Upgrades
  BY HandlerFacts DEF Inv, Brings, At
<1>2. CASE Fails(h)
  <2> DEFINE late == task[h].pc \in {"insertSub", "insertCar", "link", "syncSub", "findCar",
                                     "syncCar"}
  <2>1. late = TRUE /\ SpoilIf(h, late)
    BY <1>1, <1>2 DEF Fails, GotoLate
  <2> HIDE DEF late
  <2> QED BY <1>1, <2>1, SpoilEffect
<1>3. CASE SkipSub(h)
  <2> DEFINE late == task[h].subCopy # sub[s]
  <2>1. SpoilIf(h, late) /\ late \in BOOLEAN /\ (late = FALSE => task[h].subCopy = sub[s])
    BY <1>1, <1>3 DEF SkipSub
  <2> HIDE DEF late
  <2>2. s \in spoilt' \/ task[h].subCopy = sub[s]
    BY <1>1, <2>1, SpoilEffect
  <2>3. LocalOf(ext[s], task[h].subCopy) = task[h].subCopy
    BY <1>3 DEF SkipSub, SameAsCopy, Brings
  <2> QED BY <2>2, <2>3
<1> QED BY <1>1, <1>2, <1>3 DEF Acts, SyncStep, At, BeginCancel, BeginWebhook, BeginExclude,
       ReadSub, Exclude, FetchSubscription, CancelSubscription, CancelAnswerLost, FindCar,
       SyncCar

LEMMA FollowsGatewayNext ==
    ASSUME Inv, NEW h \in Handlers, Acts(h), NEW s \in Subs, FollowsGateway(s)
    PROVE  FollowsGateway(s)'
<1>1. TypeOK /\ Moved(h) /\ spoilt \subseteq spoilt' /\ task[h] \in Task
  BY ActsKeeps DEF Inv, Done, Kept, TypeOK
<1>2. /\ \A g \in Handlers \ {h} : task'[g] = task[g]
      /\ s \in Handlers /\ s # None /\ \A g \in Calls : g \in Handlers
  BY <1>1, MovedEffect, HandlerFacts
<1> SUFFICES ASSUME s \notin news', s \notin spoilt', LocalOf(ext'[s], sub'[s]) # sub'[s],
                    task'[s].pc # "insertSub"
             PROVE  \E g \in Calls : Brings(g, s)'
  BY DEF FollowsGateway, At
<1>3. CASE h \in Subs /\ (CreateSubscription(h) \/ CreateAnswerLost(h)) /\ h = s
  <2>1. ext[s] = "none" /\ ext'[s] # "none"
    BY <1>1, <1>3 DEF CreateSubscription, CreateAnswerLost, At, Inv, HandlersInv, Buying, TypeOK
  <2> QED BY <2>1, Creates
<1>4. CASE h \in Subs /\ InsertSub(h) /\ h = s
  <2> DEFINE late == ext[h] # "active"
  <2>1. /\ SpoilIf(h, late) /\ late \in BOOLEAN /\ (late = FALSE => ext[s] = "active")
        /\ sub'[s] = "ACTIVE" /\ ext' = ext
    BY <1>1, <1>4 DEF InsertSub, GotoLate, TypeOK
  <2>2. task[h].sub = h
    BY <1>4 DEF InsertSub, At, Inv, HandlersInv, Buying
  <2> HIDE DEF late
  <2>3. ext[s] = "active"
    BY <1>1, <1>2, <1>4, <2>1, <2>2, SpoilEffect
  <2> QED BY <2>1, <2>3, LocalOfLocal
<1>5. CASE h \in Calls /\ SyncSub(h) /\ task[h].sub = s
  <2> DEFINE late == task[h].seen # ext[s]
  <2>1. /\ SpoilIf(h, late) /\ late \in BOOLEAN /\ (late = FALSE => task[h].seen = ext[s])
        /\ sub'[s] = LocalOf(task[h].seen, sub[s]) /\ ext' = ext
    BY <1>1, <1>5 DEF SyncSub, TypeOK
  <2> HIDE DEF late
  <2>2. task[h].seen = ext[s]
    BY <1>1, <1>2, <1>5, <2>1, SpoilEffect
  <2> QED BY <2>1, <2>2, LocalOfLocal
<1>6. CASE h \in Calls /\ CancelSubscription(h) /\ task[h].sub = s
  <2>1. /\ ext'[s] = "cancelled"
        /\ task'[h] = [task[h] EXCEPT !.seen = "cancelled", !.pc = "syncSub"]
    BY <1>1, <1>6 DEF CancelSubscription, TypeOK
  <2>2. task'[h].seen = "cancelled" /\ task'[h].pc = "syncSub" /\ task'[h].sub = s
    BY <1>1, <1>6, <2>1 DEF Task
  <2> QED BY <1>6, <2>1, <2>2 DEF Brings, At
<1>7. CASE h \in Calls /\ CancelAnswerLost(h) /\ task[h].sub = s
  BY <1>7 DEF CancelAnswerLost
<1>8. CASE h \in Calls /\ FetchSubscription(h) /\ task[h].sub = s
  <2>1. ext' = ext /\ task'[h] = [task[h] EXCEPT !.seen = ext[s], !.pc = "syncSub"]
    BY <1>1, <1>8 DEF FetchSubscription, TypeOK
  <2>2. task'[h].seen = ext[s] /\ task'[h].pc = "syncSub" /\ task'[h].sub = s
    BY <1>1, <1>8, <2>1 DEF Task
  <2> QED BY <1>8, <2>1, <2>2 DEF Brings, At
<1>9. CASE /\ ~(h \in Subs /\ h = s /\ (\/ CreateSubscription(h) \/ CreateAnswerLost(h)
                                        \/ InsertSub(h)))
           /\ ~(h \in Calls /\ task[h].sub = s
                  /\ (\/ SyncSub(h) \/ CancelSubscription(h) \/ CancelAnswerLost(h)
                      \/ FetchSubscription(h)))
  <2>1. ext'[s] = ext[s]
    <3>1. CASE h \in Subs /\ (CreateSubscription(h) \/ CreateAnswerLost(h))
      BY <1>1, <1>9, <3>1 DEF CreateSubscription, CreateAnswerLost, TypeOK
    <3>2. CASE h \in Calls /\ (CancelSubscription(h) \/ CancelAnswerLost(h))
      BY <1>1, <1>9, <3>2 DEF CancelSubscription, CancelAnswerLost, TypeOK
    <3> QED BY <3>1, <3>2, WhoChangesSubs
  <2>2. sub'[s] = sub[s]
    <3>1. CASE h \in Subs /\ InsertSub(h)
      BY <1>1, <1>9, <3>1 DEF InsertSub, TypeOK
    <3>2. CASE h \in Calls /\ SyncSub(h)
      BY <1>1, <1>9, <3>2 DEF SyncSub, TypeOK
    <3> QED BY <3>1, <3>2, WhoChangesSubs
  <2>3. s \notin news
    <3>1. CASE h \in Calls /\ (\/ FetchSubscription(h) \/ CancelSubscription(h)
                               \/ CancelAnswerLost(h))
      BY <1>9, <3>1 DEF FetchSubscription, CancelSubscription, CancelAnswerLost
    <3> QED BY <3>1, WhoChangesSubs
  <2>4. LocalOf(ext[s], sub[s]) # sub[s]
    BY <2>1, <2>2
  <2>5. ~At(s, "insertSub")
    <3>1. ASSUME task[s].pc = "insertSub" PROVE s = h /\ ~InsertSub(h) /\ h \in Subs
      BY <1>2, <1>9, <3>1
    <3>2. ASSUME task[s].pc = "insertSub" PROVE FALSE
      BY <3>1, <3>2, Proceeds DEF InsertCar, Link, At
    <3> QED BY <3>2 DEF At
  <2>6. PICK g \in Calls : Brings(g, s)
    BY <1>1, <2>3, <2>4, <2>5 DEF FollowsGateway
  <2>7. g # h
    <3>1. g = h => ~SyncSub(h)
      BY <1>9, <2>6 DEF Brings
    <3> QED BY <2>4, <2>6, <3>1, BringerMoves
  <2> QED BY <1>2, <2>1, <2>6, <2>7 DEF Brings, At
<1> QED BY <1>3, <1>4, <1>5, <1>6, <1>7, <1>8, <1>9

-----------------------------------------------------------------------------
(* Cars follow documents.                                                  *)

\* A synchronisation that is not late leaves the car as its document says.
LEMMA SyncCarAgrees ==
    ASSUME Inv, NEW h \in Calls, SyncCar(h), NEW c \in Cars, c = task[h].car
    PROVE  c \in spoilt' \/ Agrees(car'[c].status, sub[car[c].of])
<1>1. /\ TypeOK /\ h \in Handlers /\ task[h] \in Task /\ Working(h)
      /\ task[h].pc = "syncCar" /\ c # None /\ car[c] \in Car
  BY HandlerFacts DEF Inv, TypeOK, HandlersInv, SyncCar, At
<1> DEFINE s == task[h].sub
           late == task[h].subCopy # sub[s] \/ task[h].carCopy # car[c]
<1>2. /\ SpoilIf(h, late) /\ late \in BOOLEAN
      /\ late = FALSE => task[h].subCopy = sub[s] /\ task[h].carCopy = car[c]
      /\ car'[c] = [car[c] EXCEPT !.status = NextStatus(h)]
      /\ task[h].subCopy # "PENDING"
  BY <1>1 DEF SyncCar, GotoLate, TypeOK
<1> HIDE DEF late
<1>3. c \in spoilt' \/ (task[h].subCopy = sub[s] /\ task[h].carCopy = car[c])
  BY <1>1, <1>2, SpoilEffect
<1>4. car'[c].status = NextStatus(h) /\ task[h].carCopy.of = s
  BY <1>1, <1>2 DEF Car, Working
<1>5. Agrees(NextStatus(h), task[h].subCopy)
  <2>1. CASE task[h].excludes = TRUE
    BY <1>1, <2>1 DEF Working, NextStatus, Agrees
  <2>2. CASE task[h].excludes = FALSE
    <3>1. task[h].subCopy \in {"ACTIVE", "INACTIVE", "CANCELLING", "CANCELED"}
      BY <1>1, <1>2, <2>2 DEF Working, Task, SubStatus
    <3> QED BY <2>2, <3>1 DEF NextStatus, CarStatusOf, Agrees
  <2>3. task[h].excludes \in BOOLEAN
    BY <1>1 DEF Task
  <2> QED BY <2>1, <2>2, <2>3
<1> QED BY <1>3, <1>4, <1>5

\* What a step that does not write the car does to a handler on its way to it.
LEMMA PasserMoves ==
    ASSUME Inv, NEW h \in Calls, Acts(h), NEW s \in Subs, Passes(h, s), ~SyncCar(h),
           NEW c \in Cars, car[c].of = s
    PROVE  /\ UNCHANGED sub
           /\ s \in spoilt' \/ Passes(h, s)'
<1>1. TypeOK /\ h \in Handlers /\ s # None /\ task[h].pc \in {"findCar", "syncCar"}
      /\ task[h].sub = s /\ task[h] \in Task /\ task[h].subCopy = sub[s]
      /\ h \notin Subs /\ h \notin Registers /\ h \notin Purchases /\ h \notin Upgrades
  BY HandlerFacts DEF Inv, Passes, TypeOK
<1>2. CASE Fails(h)
  <2> DEFINE late == task[h].pc \in {"insertSub", "insertCar", "link", "syncSub", "findCar",
                                     "syncCar"}
  <2>1. late = TRUE /\ SpoilIf(h, late) /\ UNCHANGED sub
    BY <1>1, <1>2 DEF Fails, GotoLate
  <2> HIDE DEF late
  <2> QED BY <1>1, <2>1, SpoilEffect
<1>3. CASE FindCar(h)
  <2>1. PICK d \in Cars : task' = [task EXCEPT ![h].car = d, ![h].carCopy = car[d],
                                               ![h].pc = "syncCar"]
    BY <1>1, <1>3 DEF FindCar
  <2>2. task'[h] = [task[h] EXCEPT !.car = d, !.carCopy = car[d], !.pc = "syncCar"]
    BY <1>1, <2>1 DEF TypeOK
  <2>3. task'[h].pc = "syncCar" /\ task'[h].sub = s /\ task'[h].subCopy = sub[s]
    BY <1>1, <2>2 DEF Task
  <2> QED BY <1>3, <2>3 DEF FindCar, Passes
<1> QED BY <1>1, <1>2, <1>3 DEF Acts, SyncStep, At, BeginCancel, BeginWebhook, BeginExclude,
       ReadSub, Exclude, FetchSubscription, CancelSubscription, CancelAnswerLost, SyncSub,
       SkipSub

\* A car that comes, or is linked, is served as its new document says.
LEMMA BoughtAgrees ==
    ASSUME Inv, OwnerInv, NEW h \in Handlers, Acts(h), NEW c \in Cars, car'[c].of # car[c].of
    PROVE  h \in spoilt' \/ Agrees(car'[c].status, sub'[h])
<1>1. /\ h \in Subs /\ car'[c].status = "active" /\ task[h].pc \in {"insertCar", "link"}
      /\ h \in Purchases => InsertCar(h)
      /\ h \in Upgrades => Link(h)
  BY OfChanges
<1>2. TypeOK /\ h # None /\ task[h].sub = h
  BY <1>1, HandlerFacts DEF Inv, HandlersInv, Buying
<1>3. CASE InsertCar(h)
  BY <1>1, <1>3 DEF InsertCar, Agrees
<1>4. CASE Link(h)
  <2> DEFINE late == car[task[h].car] # task[h].carCopy \/ sub[h] # "ACTIVE"
  <2>1. SpoilIf(h, late) /\ late \in BOOLEAN /\ (late = FALSE => sub[h] = "ACTIVE") /\ sub' = sub
    BY <1>4 DEF Link, GotoLate
  <2> HIDE DEF late
  <2>2. h \in spoilt' \/ sub[h] = "ACTIVE"
    BY <1>2, <2>1, SpoilEffect
  <2> QED BY <1>1, <2>1, <2>2 DEF Agrees
<1> QED BY <1>1, <1>3, <1>4 DEF Subs

LEMMA FollowsSubNext ==
    ASSUME Inv, OwnerInv, NEW h \in Handlers, Acts(h), NEW c \in Cars, FollowsSub(c)
    PROVE  FollowsSub(c)'
<1>1. TypeOK /\ Moved(h) /\ spoilt \subseteq spoilt' /\ task[h] \in Task /\ car[c] \in Car
  BY ActsKeeps DEF Inv, Done, Kept, TypeOK
<1>2. /\ \A g \in Handlers \ {h} : task'[g] = task[g]
      /\ \A g \in Calls : g \in Handlers
  BY <1>1, MovedEffect, HandlerFacts
<1>3. CASE car'[c].of # car[c].of
  <2>1. car'[c].of = h
    BY <1>3, OfChanges
  <2> QED BY <1>3, <2>1, BoughtAgrees DEF FollowsSub, Excused
<1>4. CASE car'[c].of = car[c].of /\ car[c].of # None
  <2>1. PICK s \in Subs : car[c].of = s /\ s # None
    BY <1>1, <1>4 DEF Car
  <2>2. Bought(s, c)
    BY <2>1 DEF OwnerInv
  <2>3. s # h
    BY <2>2, NotDone DEF Bought, At
  <2> SUFFICES ASSUME c \notin spoilt', s \notin spoilt', ~Agrees(car'[c].status, sub'[s])
               PROVE  \E g \in Calls : Passes(g, s)'
    BY <1>4, <2>1 DEF FollowsSub, Excused, Passes
  <2>4. ~(h \in Calls /\ Exclude(h) /\ task[h].car = c)
    <3> SUFFICES ASSUME h \in Calls, Exclude(h), task[h].car = c PROVE FALSE
      OBVIOUS
    <3>1. task[h].carCopy.of = None /\ c # None
      BY HandlerFacts DEF Exclude, At, Inv, HandlersInv, Working
    <3> DEFINE late == car[c] # task[h].carCopy
    <3>2. SpoilIf(h, late) /\ late = TRUE
      BY <2>1, <3>1 DEF Exclude, GotoLate
    <3> HIDE DEF late
    <3> QED BY <1>1, <3>1, <3>2, SpoilEffect
  <2>5. ~(h \in Calls /\ SyncCar(h) /\ task[h].car = c)
    <3> SUFFICES ASSUME h \in Calls, SyncCar(h), task[h].car = c PROVE FALSE
      OBVIOUS
    <3>1. Agrees(car'[c].status, sub[s])
      BY <2>1, SyncCarAgrees
    <3> QED BY <3>1 DEF SyncCar
  <2>6. car'[c] = car[c]
    <3>1. ~(h \in Registers /\ InsertFree(h) /\ h = c)
      BY <1>1, <2>1, HandlerFacts DEF InsertFree, At, OwnerInv, Inv, DataInv, CarInv
    <3>2. ~(h \in Subs /\ InsertCar(h) /\ h = c)
      BY <1>1, <1>4, <2>1, <2>3 DEF InsertCar, TypeOK
    <3>3. ~(h \in Subs /\ Link(h) /\ task[h].car = c)
      <4> SUFFICES ASSUME h \in Subs, Link(h), task[h].car = c PROVE FALSE
        OBVIOUS
      <4>1. car'[c] = [[car[c] EXCEPT !.status = "active"] EXCEPT !.of = h]
        BY <1>1 DEF Link, TypeOK
      <4> QED BY <1>1, <1>4, <2>1, <2>3, <4>1 DEF Car
    <3>4. CASE h \in Registers /\ InsertFree(h)
      BY <1>1, <3>1, <3>4 DEF InsertFree, TypeOK
    <3>5. CASE h \in Subs /\ (InsertCar(h) \/ Link(h))
      BY <1>1, <3>2, <3>3, <3>5 DEF InsertCar, Link, TypeOK
    <3>6. CASE h \in Calls /\ (Exclude(h) \/ SyncCar(h))
      BY <1>1, <2>4, <2>5, <3>6 DEF Exclude, SyncCar, TypeOK
    <3> QED BY <3>4, <3>5, <3>6, WhoChangesCars DEF Subs
  <2>7. CASE h \in Calls /\ SyncSub(h) /\ task[h].sub = s
    <3> DEFINE synced == LocalOf(task[h].seen, sub[s])
               pc == SyncedPc(h)
    <3>1. pc \in {"findCar", "syncCar"}
      BY DEF SyncedPc
    <3>2. /\ sub'[s] = synced
          /\ task'[h] = [task[h] EXCEPT !.subCopy = synced, !.seen = "none", !.pc = pc]
      BY <1>1, <2>7 DEF SyncSub, TypeOK
    <3> HIDE DEF synced, pc
    <3>3. task'[h].pc = pc /\ task'[h].sub = s /\ task'[h].subCopy = synced
      BY <1>1, <2>7, <3>2 DEF Task
    <3> QED BY <2>7, <3>1, <3>2, <3>3 DEF Passes
  <2>8. CASE ~(h \in Calls /\ SyncSub(h) /\ task[h].sub = s)
    <3>1. sub'[s] = sub[s]
      <4>1. CASE h \in Subs /\ InsertSub(h)
        BY <1>1, <2>3, <4>1 DEF InsertSub, TypeOK
      <4>2. CASE h \in Calls /\ SyncSub(h)
        BY <1>1, <2>8, <4>2 DEF SyncSub, TypeOK
      <4> QED BY <4>1, <4>2, WhoChangesSubs
    <3>2. PICK g \in Calls : Passes(g, s)
      BY <1>1, <2>1, <2>6, <3>1 DEF FollowsSub, Excused
    <3>3. CASE g # h
      BY <1>2, <3>1, <3>2, <3>3 DEF Passes
    <3>4. CASE g = h
      <4>1. ~SyncCar(h)
        <5> SUFFICES ASSUME SyncCar(h) PROVE FALSE
          OBVIOUS
        <5>1. task[h].carCopy.of = s
          BY <3>2, <3>4 DEF SyncCar, At, Inv, HandlersInv, Working, Passes
        <5>2. task[h].car = c
          BY <2>1, <2>2, <3>2, <3>4, <5>1 DEF OwnerInv, Bought
        <5> QED BY <2>5, <3>2, <3>4, <5>2
      <4> QED BY <2>1, <3>2, <3>4, <4>1, PasserMoves
    <3> QED BY <3>3, <3>4
  <2> QED BY <2>7, <2>8
<1>5. CASE car'[c].of = None
  BY <1>5 DEF FollowsSub
<1> QED BY <1>3, <1>4, <1>5

-----------------------------------------------------------------------------
(* The whole.                                                              *)

FollowInv ==
    /\ Inv
    /\ OwnerInv
    /\ \A s \in Subs : Linked(s) /\ FollowsGateway(s)
    /\ \A c \in Cars : FollowsSub(c)

LEMMA FollowInit == Init => FollowInv
<1> SUFFICES ASSUME Init PROVE FollowInv
  OBVIOUS
<1>1. Inv
  BY InitHolds
<1>2. /\ \A h \in Handlers : task[h].pc = "begin" /\ task[h].carCopy.of = None
      /\ \A u \in Upgrades : task[u].car = None
  BY HandlerFacts DEF Init, NoCar
<1>3. /\ \A c \in Cars : car[c].status = "absent" /\ car[c].of = None
      /\ \A s \in Subs : ext[s] = "none" /\ sub[s] = "absent"
  BY DEF Init, NoCar
<1>4. OwnerInv
  BY <1>2, <1>3, HandlerFacts DEF OwnerInv, At
<1>5. \A s \in Subs : Linked(s) /\ FollowsGateway(s)
  BY <1>3 DEF Linked, FollowsGateway, LocalOf
<1>6. \A c \in Cars : FollowsSub(c)
  BY <1>3 DEF FollowsSub
<1> QED BY <1>1, <1>4, <1>5, <1>6 DEF FollowInv

\* The gateway's moves are news.
LEMMA FollowGateway ==
    ASSUME FollowInv, NEW q \in Subs, GatewayMoves(q)
    PROVE  FollowInv'
<1>1. PICK e \in ExtStatus : <<ext[q], e>> \in Moves /\ ext' = [ext EXCEPT ![q] = e]
  BY DEF GatewayMoves
<1>2. ext[q] # "none" /\ e # "none"
  BY <1>1 DEF Moves
<1>3. /\ \A s \in Subs : s # q => ext'[s] = ext[s]
      /\ \A s \in Subs : ext'[s] = "none" <=> ext[s] = "none"
      /\ news' = news \cup {q} /\ UNCHANGED <<sub, car, spoilt, task>>
  BY <1>1, <1>2 DEF GatewayMoves, FollowInv, Inv, TypeOK
<1>4. Inv'
  BY GatewayKeeps DEF FollowInv
<1>5. ASSUME NEW s \in Subs, NEW c, Bought(s, c) PROVE Bought(s, c)'
  BY <1>3, <1>5 DEF Bought, CarOf, At
<1>6. OwnerInv'
  <2>1. ASSUME NEW c \in Cars, car'[c].of # None PROVE Bought(car[c].of, c)'
    <3>1. PICK s \in Subs : car[c].of = s /\ s # None
      BY <1>3, <2>1 DEF FollowInv, Inv, TypeOK, Car
    <3>2. Bought(s, c)'
      BY <1>5, <3>1 DEF FollowInv, OwnerInv
    <3> QED BY <1>3, <3>1, <3>2 DEF Bought, CarOf, At
  <2>2. ASSUME NEW g \in Calls, task'[g].carCopy.of # None
        PROVE  Bought(task[g].carCopy.of, task[g].car)'
    <3>1. PICK s \in Subs : task[g].carCopy.of = s /\ s # None
      BY <1>3, <2>2, HandlerFacts DEF FollowInv, Inv, TypeOK, Task, Car
    <3>2. PICK c : task[g].car = c
      OBVIOUS
    <3>3. Bought(s, c)'
      BY <1>5, <3>1, <3>2 DEF FollowInv, OwnerInv
    <3> QED BY <1>3, <3>1, <3>2, <3>3 DEF Bought, CarOf, At
  <2> QED BY <1>3, <2>1, <2>2 DEF FollowInv, OwnerInv, At
<1>7. ASSUME NEW s \in Subs PROVE Linked(s)'
  BY <1>3 DEF FollowInv, Linked, CarOf
<1>8. ASSUME NEW s \in Subs PROVE FollowsGateway(s)'
  BY <1>3 DEF FollowInv, FollowsGateway, At, Brings
<1>9. ASSUME NEW c \in Cars PROVE FollowsSub(c)'
  BY <1>3 DEF FollowInv, FollowsSub, Excused, Passes
<1> QED BY <1>4, <1>6, <1>7, <1>8, <1>9 DEF FollowInv

LEMMA FollowNext == FollowInv /\ [Next]_vars => FollowInv'
<1> SUFFICES ASSUME FollowInv, [Next]_vars PROVE FollowInv'
  OBVIOUS
<1>1. Inv'
  BY NextHolds DEF FollowInv
<1>2. ASSUME NEW h \in Handlers, Acts(h) PROVE FollowInv'
  <2>1. OwnerInv'
    BY <1>2, OwnerNext DEF FollowInv
  <2>2. ASSUME NEW s \in Subs PROVE Linked(s)' /\ FollowsGateway(s)'
    BY <1>2, LinkedNext, FollowsGatewayNext DEF FollowInv
  <2>3. ASSUME NEW c \in Cars PROVE FollowsSub(c)'
    BY <1>2, FollowsSubNext DEF FollowInv
  <2> QED BY <1>1, <2>1, <2>2, <2>3 DEF FollowInv
<1>3. CASE UNCHANGED vars
  BY <1>1, <1>3 DEF vars, FollowInv, OwnerInv, Bought, CarOf, At, Linked, FollowsGateway,
                    Brings, FollowsSub, Excused, Passes
<1> QED BY <1>2, <1>3, FollowGateway, NextActs

LEMMA Following == Spec => []FollowInv
BY FollowInit, FollowNext, PTL DEF Spec

(***************************************************************************)
(* A subscription the gateway bills has its car, for any number of         *)
(* purchases, upgrades and calls, unless its creation failed half way or   *)
(* another upgrade of the car took its place.                              *)
(***************************************************************************)
THEOREM BilledIsLinkedTheorem == Spec => []BilledIsLinked
<1>1. FollowInv => BilledIsLinked
  <2> SUFFICES ASSUME FollowInv, AtRest, NEW s \in Subs, ext[s] = "active"
               PROVE  \/ \E c \in Cars : car[c].of = s
                      \/ s \in spoilt
                      \/ \E u \in Upgrades \ {s} : task[u].car = CarOf(s)
    BY DEF BilledIsLinked, CarOf
  <2>1. Linked(s) /\ task[s].pc \in {"begin", "done"}
    BY HandlerFacts DEF FollowInv, AtRest
  <2> QED BY <2>1 DEF Linked
<1> QED BY <1>1, Following, PTL

(***************************************************************************)
(* At rest, document and car say what the gateway does, for any number of  *)
(* overlapping calls and webhooks, once the gateway's last change has been *)
(* fetched: only a late write or a failure half way keeps them apart.      *)
(***************************************************************************)
THEOREM PremiumFollowsGatewayTheorem == Spec => []PremiumFollowsGateway
<1>1. FollowInv => PremiumFollowsGateway
  <2> SUFFICES ASSUME FollowInv, AtRest, NEW c \in Cars, NEW s, s = car[c].of,
                      s # None, s \notin news, ext[s] # "closed", ~Excused(c)
               PROVE  IF ext[s] = "active"
                      THEN sub[s] = "ACTIVE" /\ car[c].status \in {"active", "excluded"}
                      ELSE sub[s] # "ACTIVE" /\ car[c].status # "active"
    BY DEF PremiumFollowsGateway
  <2>1. /\ s \in Subs /\ Bought(s, c) /\ ext[s] \in ExtStatus /\ sub[s] \in SubStatus
        /\ FollowsGateway(s) /\ FollowsSub(c)
    BY DEF FollowInv, OwnerInv, Inv, TypeOK, Car
  <2>2. \A h \in Handlers : task[h].pc \in {"begin", "done"}
    BY DEF AtRest
  <2>3. LocalOf(ext[s], sub[s]) = sub[s]
    BY <2>1, <2>2, HandlerFacts DEF FollowsGateway, Excused, At, Brings
  <2>4. Agrees(car[c].status, sub[s])
    BY <2>1, <2>2, HandlerFacts DEF FollowsSub, Passes
  <2>5. CASE ext[s] = "active"
    <3>1. sub[s] = "ACTIVE"
      BY <2>3, <2>5, LocalOfLocal
    <3> QED BY <2>4, <2>5, <3>1 DEF Agrees
  <2>6. CASE ext[s] # "active"
    <3>1. ext[s] # "none"
      BY <2>1 DEF Bought
    <3>2. sub[s] # "ACTIVE"
      BY <2>1, <2>3, <2>6, <3>1, LocalOfLocal
    <3> QED BY <2>4, <2>6, <3>2 DEF Agrees
  <2> QED BY <2>5, <2>6
<1> QED BY <1>1, Following, PTL
=============================================================================
