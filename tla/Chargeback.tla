----------------------------- MODULE Chargeback -----------------------------
(***************************************************************************)
(* What the chargeback of a charge promises to whoever asks for one, in    *)
(* this system the FAILED answer, the failing request and the              *)
(* administrator: an execution gives a charge back at most once and only   *)
(* if it found it standing; it strikes the charge only after that, and     *)
(* removes its statement only then; a struck charge never stands again.    *)
(* It does not promise that a charge is given back once: executions that   *)
(* all found it before one of them struck it give it back each.            *)
(* Modules CreditLedger and QueryRequest implement it.                     *)
(***************************************************************************)

CONSTANTS
    Returners      \* the executions that may give a charge back

VARIABLES
    standing,      \* the charges that stand
    struck,        \* the charges that do not any more
    recorded,      \* the charges with all the statements they were made with
    holding,       \* <<h, c>>: h found c standing and has not ended
    returned       \* <<h, c>>: h gave c back

vars == <<standing, struck, recorded, holding, returned>>

Init ==
    /\ standing = {} /\ struck = {} /\ recorded = {}
    /\ holding = {} /\ returned = {}

\* New charges stand, with their statements.
Make ==
    /\ standing \subseteq standing'
    /\ standing' \cap struck = {}
    /\ recorded' = recorded \cup (standing' \ standing)
    /\ UNCHANGED <<struck, holding, returned>>

\* An execution is for one charge.
Find(h) ==
    /\ \A x \in holding \cup returned : x[1] # h
    /\ \E c \in standing : holding' = holding \cup {<<h, c>>}
    /\ UNCHANGED <<standing, struck, recorded, returned>>

GiveBack(h) ==
    /\ \E x \in holding \ returned : x[1] = h /\ returned' = returned \cup {x}
    /\ UNCHANGED <<standing, struck, recorded, holding>>

\* Somebody else may have struck it before.
Strike(h) ==
    /\ \E x \in holding \cap returned :
          /\ x[1] = h
          /\ standing' = standing \ {x[2]}
          /\ struck' = struck \cup {x[2]}
    /\ UNCHANGED <<recorded, holding, returned>>

\* The charge's statement is removed, if it was made with one.
Erase(h) ==
    /\ \E x \in holding \cap returned :
          /\ x[1] = h /\ x[2] \in struck
          /\ recorded' \in {recorded, recorded \ {x[2]}}
          /\ holding' = holding \ {x}
    /\ UNCHANGED <<standing, struck, returned>>

\* The execution fails or dies, wherever it is.
GiveUp(h) ==
    /\ \E x \in holding : x[1] = h /\ holding' = holding \ {x}
    /\ UNCHANGED <<standing, struck, recorded, returned>>

Next ==
    \/ Make
    \/ \E h \in Returners : Find(h) \/ GiveBack(h) \/ Strike(h) \/ Erase(h) \/ GiveUp(h)

Spec == Init /\ [][Next]_vars
=============================================================================
