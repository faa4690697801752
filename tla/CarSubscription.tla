--------------------------- MODULE CarSubscription ---------------------------
(***************************************************************************)
(* The cars of one user (My cars) and the subscriptions that pay for the   *)
(* premium ones.  A subscription lives three times: at the payment         *)
(* gateway, which bills it, in the subscription document, and in the       *)
(* status of the car that refers to it.  Registrations, upgrades,          *)
(* cancellations, exclusions and the gateway's webhook each read some of   *)
(* the three, wait, and write others; no transaction and no lock ties      *)
(* their steps, and nothing resumes one that fails half way.               *)
(*                                                                         *)
(* A car and a subscription have the name of the call that creates them.   *)
(***************************************************************************)
EXTENDS Naturals, FiniteSets

CONSTANTS
    Registers,     \* registerPlate without a credit card
    Purchases,     \* registerPlate with a credit card
    Upgrades,      \* calls of UpgradeMyCarProductToPremiumUseCase
    Calls,         \* calls of CancelUserSubscriptionUseCase and ExcludeBoughtProductUseCase
                   \* and subscription_updated events of the gateway
    None           \* no car, no subscription

ASSUME SubscriptionAssumption ==
    /\ Registers # {} /\ None \notin Registers \cup Purchases \cup Upgrades
    /\ Registers \cap (Purchases \cup Upgrades \cup Calls) = {}
    /\ Purchases \cap (Upgrades \cup Calls) = {}
    /\ Upgrades \cap Calls = {}

VARIABLES
    ext,           \* the status of each subscription at the gateway
    news,          \* the subscriptions whose last change there nobody has fetched
    sub,           \* the status of each subscription document
    car,           \* the MyCarProduct documents
    spoilt,        \* for the properties: the cars and subscriptions of a handler that
                   \* wrote what was no longer true, failed half way or died
    task           \* the handlers

vars == <<ext, news, sub, car, spoilt, task>>

Handlers == Registers \cup Purchases \cup Upgrades \cup Calls
Subs == Purchases \cup Upgrades
Cars == Registers \cup Purchases

ExtStatus == {"none", "pending", "active", "dued", "expired", "cancelled", "closed", "terminated"}
SubStatus == {"absent", "PENDING", "ACTIVE", "INACTIVE", "CANCELLING", "CANCELED"}
CarStatus == {"absent", "active", "deactive", "excluding", "excluded"}

\* A car is of type PREMIUM when it is of a subscription.
Car == [status : CarStatus, of : Subs \cup {None}]

Pc == {"begin", "insertFree", "create", "insertSub", "insertCar", "link",
       "readSub", "exclude", "fetch", "cancel", "syncSub", "findCar", "syncCar", "done"}

\* What a handler is about, the documents it read and the gateway's answer.
Task == [excludes : BOOLEAN, sub : Subs \cup {None}, car : Cars \cup {None},
         subCopy : SubStatus, carCopy : Car, seen : ExtStatus, pc : Pc]

TypeOK ==
    /\ ext \in [Subs -> ExtStatus]
    /\ news \subseteq Subs
    /\ sub \in [Subs -> SubStatus]
    /\ car \in [Cars -> Car]
    /\ spoilt \subseteq Cars \cup Subs
    /\ task \in [Handlers -> Task]

NoCar == [status |-> "absent", of |-> None]

At(h, pc) == task[h].pc = pc

\* What a handler knew is gone when it has ended, but for the car of an upgrade,
\* which the properties name.
Ended(h) == [excludes |-> FALSE, sub |-> None,
             car |-> IF h \in Upgrades THEN task[h].car ELSE None,
             subCopy |-> "absent", carCopy |-> NoCar, seen |-> "none", pc |-> "done"]

Move(h, pc) == IF pc = "done" THEN Ended(h) ELSE [task[h] EXCEPT !.pc = pc]

Goto(h, pc) == task' = [task EXCEPT ![h] = Move(h, pc)]

SpoilIf(h, b) ==
    spoilt' = IF b THEN spoilt \cup ({task[h].sub, task[h].car} \ {None}) ELSE spoilt

GotoLate(h, pc, isLate) == Goto(h, pc) /\ SpoilIf(h, isLate)

-----------------------------------------------------------------------------
(* RegisterMyCarUseCase without a card.  hasActiveProduct gets the plate   *)
(* and the fipeId in each other's place and never finds a car.             *)

\* Mutant: only the cars that are served count.
CountActiveOnly(r) ==
    /\ At(r, "begin")
    /\ \/ (\A c \in Cars : car[c].status # "active") /\ Goto(r, "insertFree")
       \/ Goto(r, "done")
    /\ UNCHANGED <<ext, news, sub, car, spoilt>>

\* getUserFreemiumAvailability counts every car of the user; the provider is then
\* asked for the car's keys, for up to 90 seconds, and may not have them.
CheckAvailability(r) ==
    /\ At(r, "begin")
    /\ \/ (\A c \in Cars : car[c].status = "absent") /\ Goto(r, "insertFree")
       \/ Goto(r, "done")
    /\ UNCHANGED <<ext, news, sub, car, spoilt>>

\* The free registrations that counted the cars before car c was there.
Overlapped(c) == {r \in Registers \ {c} : At(r, "insertFree")}

InsertFree(r) ==
    /\ At(r, "insertFree")
    /\ car' = [car EXCEPT ![r] = [NoCar EXCEPT !.status = "active"]]
    /\ Goto(r, "done")
    /\ spoilt' = spoilt \cup Overlapped(r)
    /\ UNCHANGED <<ext, news, sub>>

-----------------------------------------------------------------------------
(* The creation of a subscription, by a registration with a card (the      *)
(* provider has given the car's keys) or by an upgrade.                    *)

BeginPurchase(h) ==
    /\ At(h, "begin")
    /\ Goto(h, "create") \/ Goto(h, "done")
    /\ UNCHANGED <<ext, news, sub, car, spoilt>>

\* The car must be active; whether it is premium already is not asked.
BeginUpgrade(h, c) ==
    /\ At(h, "begin")
    /\ car[c].status = "active"
    /\ task' = [task EXCEPT ![h].car = c, ![h].carCopy = car[c], ![h].pc = "create"]
    /\ UNCHANGED <<ext, news, sub, car, spoilt>>

\* The gateway creates the subscription; any status but active ends the handler.
CreateSubscription(h) ==
    /\ At(h, "create")
    /\ \E s \in {"active", "pending"} :
          /\ ext' = [ext EXCEPT ![h] = s]
          /\ Goto(h, IF s = "active" THEN "insertSub" ELSE "done")
          /\ spoilt' = IF s = "active" THEN spoilt ELSE spoilt \cup {h}
    /\ UNCHANGED <<news, sub, car>>

CreateFails(h) ==
    /\ At(h, "create")
    /\ Goto(h, "done")
    /\ UNCHANGED <<ext, news, sub, car, spoilt>>

\* The subscription is created and its answer is lost or not understood.
CreateAnswerLost(h) ==
    /\ At(h, "create")
    /\ ext' = [ext EXCEPT ![h] = "active"]
    /\ Goto(h, "done")
    /\ spoilt' = spoilt \cup {h}
    /\ UNCHANGED <<news, sub, car>>

InsertSub(h) ==
    /\ At(h, "insertSub")
    /\ sub' = [sub EXCEPT ![h] = "ACTIVE"]
    /\ GotoLate(h, IF h \in Purchases THEN "insertCar" ELSE "link", ext[h] # "active")
    /\ UNCHANGED <<ext, news, car>>

InsertCar(h) ==
    /\ At(h, "insertCar")
    /\ car' = [car EXCEPT ![h] = [status |-> "active", of |-> h]]
    /\ Goto(h, "done")
    /\ spoilt' = spoilt \cup Overlapped(h) \cup (IF sub[h] # "ACTIVE" THEN {h} ELSE {})
    /\ UNCHANGED <<ext, news, sub>>

\* Mutant: the car does not learn its subscription.
LinkNothing(h) ==
    /\ At(h, "link")
    /\ LET c == task[h].car IN
          /\ car' = [car EXCEPT ![c].status = "active"]
          /\ GotoLate(h, "done", car[c] # task[h].carCopy \/ sub[h] # "ACTIVE")
    /\ UNCHANGED <<ext, news, sub>>

Link(h) ==
    /\ At(h, "link")
    /\ LET c == task[h].car IN
          /\ car' = [car EXCEPT ![c].status = "active", ![c].of = h]
          /\ GotoLate(h, "done", car[c] # task[h].carCopy \/ sub[h] # "ACTIVE")
    /\ UNCHANGED <<ext, news, sub>>

-----------------------------------------------------------------------------
(* The three ways to SyncWithExternalSubscriptionHelper.                   *)

BeginCancel(h, s) ==
    /\ At(h, "begin")
    /\ sub[s] = "ACTIVE"
    /\ task' = [task EXCEPT ![h].sub = s, ![h].subCopy = sub[s], ![h].pc = "cancel"]
    /\ UNCHANGED <<ext, news, sub, car, spoilt>>

BeginExclude(h, c) ==
    /\ At(h, "begin")
    /\ car[c].status \in {"active", "deactive", "excluding"}
    /\ task' = [task EXCEPT ![h].excludes = TRUE, ![h].car = c, ![h].carCopy = car[c],
                            ![h].pc = "readSub"]
    /\ UNCHANGED <<ext, news, sub, car, spoilt>>

\* Mutant: the subscription is not looked for.
ExcludePlainly(h) ==
    /\ At(h, "readSub")
    /\ Goto(h, "exclude")
    /\ UNCHANGED <<ext, news, sub, car, spoilt>>

ReadSub(h) ==
    /\ At(h, "readSub")
    /\ LET s == task[h].carCopy.of IN
          IF s = None THEN Goto(h, "exclude")
          ELSE task' = [task EXCEPT ![h].sub = s, ![h].subCopy = sub[s], ![h].pc = "cancel"]
    /\ UNCHANGED <<ext, news, sub, car, spoilt>>

\* A car without a subscription: _updateMyCarStatus.
Exclude(h) ==
    /\ At(h, "exclude")
    /\ LET c == task[h].car IN
          /\ car' = [car EXCEPT ![c].status = "excluded"]
          /\ GotoLate(h, "done", car[c] # task[h].carCopy)
    /\ UNCHANGED <<ext, news, sub>>

\* The webhook of a subscription that is not inserted yet ends with an error.
BeginWebhook(h, s) ==
    /\ At(h, "begin")
    /\ ext[s] # "none"
    /\ task' = [task EXCEPT ![h].sub = s, ![h].subCopy = sub[s],
                            ![h].pc = IF sub[s] = "absent" THEN "done" ELSE "fetch"]
    /\ UNCHANGED <<ext, news, sub, car, spoilt>>

FetchSubscription(h) ==
    /\ At(h, "fetch")
    /\ news' = news \ {task[h].sub}
    /\ task' = [task EXCEPT ![h].seen = ext[task[h].sub], ![h].pc = "syncSub"]
    /\ UNCHANGED <<ext, sub, car, spoilt>>

\* The gateway refuses to cancel what has ended.
CancelSubscription(h) ==
    /\ At(h, "cancel")
    /\ LET s == task[h].sub IN
          /\ ext[s] \in {"pending", "active", "dued", "cancelled"}
          /\ ext' = [ext EXCEPT ![s] = "cancelled"]
          /\ news' = news \ {s}
          /\ task' = [task EXCEPT ![h].seen = "cancelled", ![h].pc = "syncSub"]
    /\ UNCHANGED <<sub, car, spoilt>>

\* Its answer is lost or not understood.
CancelAnswerLost(h) ==
    /\ At(h, "cancel")
    /\ LET s == task[h].sub IN
          /\ ext[s] \in {"pending", "active", "dued"}
          /\ ext' = [ext EXCEPT ![s] = "cancelled"]
          /\ news' = news \cup {s}
    /\ Goto(h, "done")
    /\ UNCHANGED <<sub, car, spoilt>>

-----------------------------------------------------------------------------
(* SyncWithExternalSubscriptionHelper.                                     *)

\* Mutant: the gateway's status is stored as it is.
LocalVerbatim(e, s) == e

\* Mutant: an expired subscription is left as it is.
LocalOfUnexpired(e, s) ==
    CASE e = "active"     -> "ACTIVE"
      [] e = "cancelled"  -> "CANCELLING"
      [] e = "dued"       -> "INACTIVE"
      [] e = "terminated" -> "CANCELED"
      [] e = "pending"    -> "PENDING"
      [] OTHER            -> s

\* syncSubscriptionBasedOnExternal: a closed subscription keeps its status.
LocalOf(e, s) ==
    CASE e = "active"              -> "ACTIVE"
      [] e = "cancelled"           -> "CANCELLING"
      [] e \in {"expired", "dued"} -> "INACTIVE"
      [] e = "terminated"          -> "CANCELED"
      [] e = "pending"             -> "PENDING"
      [] OTHER                     -> s

\* Nothing of the copy would change, if its dates are those of the gateway too; a
\* dued or terminated subscription always gets a new deactivatedAt.
SameAsCopy(h) ==
    /\ task[h].seen \notin {"dued", "terminated"}
    /\ LocalOf(task[h].seen, task[h].subCopy) = task[h].subCopy

SyncedPc(h) == IF task[h].excludes THEN "syncCar" ELSE "findCar"

SyncSub(h) ==
    /\ At(h, "syncSub")
    /\ LET s == task[h].sub
           synced == LocalOf(task[h].seen, sub[s])
       IN
       /\ sub' = [sub EXCEPT ![s] = synced]
       /\ task' = [task EXCEPT ![h].subCopy = synced, ![h].seen = "none", ![h].pc = SyncedPc(h)]
       /\ SpoilIf(h, task[h].seen # ext[s])
    /\ UNCHANGED <<ext, news, car>>

\* The document is not written, whatever it is by now.
SkipSub(h) ==
    /\ At(h, "syncSub")
    /\ SameAsCopy(h)
    /\ task' = [task EXCEPT ![h].seen = "none", ![h].pc = SyncedPc(h)]
    /\ SpoilIf(h, task[h].subCopy # sub[task[h].sub])
    /\ UNCHANGED <<ext, news, sub, car>>

\* getBySubscriptionId
FindCar(h) ==
    /\ At(h, "findCar")
    /\ \/ /\ \A c \in Cars : car[c].of # task[h].sub
          /\ Goto(h, "done")
       \/ \E c \in Cars :
             /\ car[c].of = task[h].sub
             /\ task' = [task EXCEPT ![h].car = c, ![h].carCopy = car[c], ![h].pc = "syncCar"]
    /\ UNCHANGED <<ext, news, sub, car, spoilt>>

\* Mutant: the car of a cancelled subscription is served to its end.
ServedToTheEnd(status) ==
    CASE status \in {"ACTIVE", "CANCELLING"} -> "active"
      [] status = "CANCELED"   -> "excluded"
      [] status = "INACTIVE"   -> "deactive"

CarStatusOf(status) ==
    CASE status = "ACTIVE"     -> "active"
      [] status = "CANCELED"   -> "excluded"
      [] status = "CANCELLING" -> "excluding"
      [] status = "INACTIVE"   -> "deactive"

\* syncMyCarBasedOnSubscription, with the remapping of an exclusion.
NextStatus(h) == IF task[h].excludes THEN "excluded" ELSE CarStatusOf(task[h].subCopy)

SyncCar(h) ==
    /\ At(h, "syncCar")
    /\ task[h].subCopy # "PENDING"
    /\ car' = [car EXCEPT ![task[h].car].status = NextStatus(h)]
    /\ GotoLate(h, "done", \/ task[h].subCopy # sub[task[h].sub]
                           \/ task[h].carCopy # car[task[h].car])
    /\ UNCHANGED <<ext, news, sub>>

\* Any await of a handler that has started may fail, its process may die, and a
\* pending subscription has no status for the car: nothing is undone, and the
\* handler was half way once the gateway had answered it.
Fails(h) ==
    /\ task[h].pc \notin {"begin", "done"}
    /\ GotoLate(h, "done",
                task[h].pc \in {"insertSub", "insertCar", "link", "syncSub", "findCar", "syncCar"})
    /\ UNCHANGED <<ext, news, sub, car>>

-----------------------------------------------------------------------------
(* The gateway: external.                                                  *)

Moves == {<<"pending", "active">>, <<"pending", "expired">>, <<"active", "dued">>,
          <<"dued", "active">>, <<"dued", "expired">>, <<"expired", "closed">>,
          <<"cancelled", "terminated">>}

GatewayMoves(s) ==
    /\ \E e \in ExtStatus :
          /\ <<ext[s], e>> \in Moves
          /\ ext' = [ext EXCEPT ![s] = e]
    /\ news' = news \cup {s}
    /\ UNCHANGED <<sub, car, spoilt, task>>

-----------------------------------------------------------------------------

Init ==
    /\ ext = [s \in Subs |-> "none"]
    /\ news = {}
    /\ sub = [s \in Subs |-> "absent"]
    /\ car = [c \in Cars |-> NoCar]
    /\ spoilt = {}
    /\ task = [h \in Handlers |->
                  [excludes |-> FALSE, sub |-> IF h \in Subs THEN h ELSE None,
                   car |-> IF h \in Registers THEN h ELSE None,
                   subCopy |-> "absent", carCopy |-> NoCar, seen |-> "none", pc |-> "begin"]]

CreateStep(h) ==
    \/ CreateSubscription(h) \/ CreateFails(h) \/ CreateAnswerLost(h)
    \/ InsertSub(h) \/ InsertCar(h) \/ Link(h)

SyncStep(h) ==
    \/ ReadSub(h) \/ Exclude(h) \/ FetchSubscription(h)
    \/ CancelSubscription(h) \/ CancelAnswerLost(h)
    \/ SyncSub(h) \/ SkipSub(h) \/ FindCar(h) \/ SyncCar(h)

Next ==
    \/ \E r \in Registers : CheckAvailability(r) \/ InsertFree(r)
    \/ \E h \in Purchases : BeginPurchase(h)
    \/ \E h \in Upgrades, c \in Cars : BeginUpgrade(h, c)
    \/ \E h \in Calls, s \in Subs : BeginCancel(h, s) \/ BeginWebhook(h, s)
    \/ \E h \in Calls, c \in Cars : BeginExclude(h, c)
    \/ \E h \in Subs : CreateStep(h)
    \/ \E h \in Calls : SyncStep(h)
    \/ \E h \in Handlers \ Registers : Fails(h)
    \/ \E s \in Subs : GatewayMoves(s)

Spec == Init /\ [][Next]_vars

-----------------------------------------------------------------------------
(* Properties.                                                             *)

AtRest == \A h \in Handlers : task[h].pc \in {"begin", "done"}

\* Why what should have been done for car c may be missing, or undone.
Excused(c) == c \in spoilt \/ car[c].of \in spoilt

(***************************************************************************)
(* At rest a subscription is active and its car is served exactly when the *)
(* gateway bills it, once somebody has fetched the gateway's last change,  *)
(* unless a handler wrote what had changed meanwhile or failed half way.   *)
(* An excluded car may stay excluded, and a closed subscription, which the *)
(* code has no case for, is left out.                                      *)
(***************************************************************************)
PremiumFollowsGateway ==
    AtRest => \A c \in Cars : LET s == car[c].of IN
       s # None /\ s \notin news /\ ext[s] # "closed" /\ ~Excused(c) =>
          IF ext[s] = "active"
          THEN sub[s] = "ACTIVE" /\ car[c].status \in {"active", "excluded"}
          ELSE sub[s] # "ACTIVE" /\ car[c].status # "active"

(***************************************************************************)
(* A subscription the gateway bills has its car, unless its creation       *)
(* failed half way or was answered with another status first, or another   *)
(* upgrade of the same car took its place: an upgrade does not ask whether *)
(* the car is premium already.                                             *)
(***************************************************************************)
BilledIsLinked ==
    AtRest => \A s \in Subs : ext[s] = "active" =>
       \/ \E c \in Cars : car[c].of = s
       \/ s \in spoilt
       \/ \E u \in Upgrades \ {s} : task[u].car = (IF s \in Upgrades THEN task[s].car ELSE s)

(***************************************************************************)
(* A car the user has excluded is not billed any more, unless handlers     *)
(* overlapped or failed: the exclusion cancels the subscription first.     *)
(***************************************************************************)
ExcludedIsNotBilled ==
    AtRest => \A c \in Cars : car[c].status = "excluded" /\ car[c].of # None =>
       ext[car[c].of] \notin {"active", "dued"} \/ Excused(c)

(***************************************************************************)
(* An excluded car is served again only when a handler overlapped its      *)
(* exclusion or failed: what the webhook brings back otherwise, the car of *)
(* a cancelled subscription, it only brings back as excluding.             *)
(***************************************************************************)
ExcludedIsNotServed ==
    [][\A c \in Cars : car[c].status = "excluded" /\ car'[c].status \in {"active", "deactive"} =>
          Excused(c)']_vars

(***************************************************************************)
(* A user's free car is the user's first car, whatever became of earlier   *)
(* ones, unless another registration overlapped this one while it waited   *)
(* for the provider.                                                       *)
(***************************************************************************)
FreeCarIsFirst ==
    [][\A r \in Registers : car[r].status = "absent" /\ car'[r].status # "absent" =>
          r \in spoilt \/ \A c \in Cars : car[c].status = "absent"]_vars

=============================================================================
