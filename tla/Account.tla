------------------------------ MODULE Account -------------------------------
(***************************************************************************)
(* What the credit ledger promises of accountFunds, without its rows, its  *)
(* statements and its transactions: a movement is asked for with one user  *)
(* and one value, takes effect whole and at most once or is refused, and a *)
(* debit takes effect only if its user had enough when it was asked for.   *)
(* Module CreditLedger implements it, each use case being one movement.    *)
(***************************************************************************)
EXTENDS Integers

CONSTANTS
    Users,
    Movements      \* the executions of use cases that may move funds

VARIABLES
    funds,         \* accountFunds of each user
    movement       \* the movements

vars == <<funds, movement>>

\* A covered movement is a debit that its user must have the funds for.
Movement == [phase : {"new", "asked", "applied", "refused"},
             user : Users, value : Int, covered : BOOLEAN]

Init ==
    /\ funds = [u \in Users |-> 0]
    /\ movement \in [Movements -> Movement]
    /\ \A m \in Movements : movement[m].phase = "new"

\* Movement m, and no other, becomes another one.
Becomes(m, phase) ==
    /\ movement' = [movement EXCEPT ![m] = movement'[m]]
    /\ movement'[m] \in Movement
    /\ movement'[m].phase = phase

\* A payment, a gift and the return of a row's value (of either sign) are not
\* covered; a debit is, by the funds of the moment it is asked for.
Ask(m) ==
    /\ movement[m].phase = "new"
    /\ Becomes(m, "asked")
    /\ movement'[m].covered => funds[movement'[m].user] + movement'[m].value >= 0
    /\ UNCHANGED funds

Apply(m) ==
    /\ movement[m].phase = "asked"
    /\ funds' = [funds EXCEPT ![movement[m].user] = @ + movement[m].value]
    /\ movement' = [movement EXCEPT ![m].phase = "applied"]

Refuse(m) ==
    /\ movement[m].phase \in {"new", "asked"}
    /\ Becomes(m, "refused")
    /\ UNCHANGED funds

Next == \E m \in Movements : Ask(m) \/ Apply(m) \/ Refuse(m)

Spec == Init /\ [][Next]_vars
=============================================================================
