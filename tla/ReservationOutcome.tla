-------------------------- MODULE ReservationOutcome --------------------------
(***************************************************************************)
(* What the lifecycle of a reservation promises, without saying who does   *)
(* what: a reservation is opened once, is closed once with one outcome     *)
(* that never changes afterwards, and the credit of its owner moves at     *)
(* most once because of it, by the amount that goes with the outcome.      *)
(***************************************************************************)
EXTENDS Integers, Sequences

CONSTANT Res    \* reservations

VARIABLES
    outcome,    \* outcome[r]: "none" | "open" | one of the Outcomes
    posted      \* posted[r]: the credit changes written for r, oldest first

outcomeVars == <<outcome, posted>>

Outcomes == {"completed", "cancelled", "violation"}

\* Amounts of the credit rules (service/credit.go).
CreditViolationDelta  == -8
CreditLateCancelDelta == -2
CreditCompletionDelta == 1

\* The only amount an outcome may cost or earn.
Delta(o) == IF o = "violation" THEN CreditViolationDelta
            ELSE IF o = "cancelled" THEN CreditLateCancelDelta
            ELSE CreditCompletionDelta

OutcomeInit == /\ outcome = [r \in Res |-> "none"]
               /\ posted = [r \in Res |-> <<>>]

\* Several reservations may close in one step: the scheduler's UPDATEs are batches.
Open(S) == /\ S # {}
           /\ \A r \in S : outcome[r] = "none"
           /\ outcome' = [r \in Res |-> IF r \in S THEN "open" ELSE outcome[r]]
           /\ UNCHANGED posted

Close(S, o) == /\ S # {}
               /\ \A r \in S : outcome[r] = "open"
               /\ outcome' = [r \in Res |-> IF r \in S THEN o ELSE outcome[r]]
               /\ UNCHANGED posted

Post(r) == /\ outcome[r] \in Outcomes
           /\ posted[r] = <<>>
           /\ posted' = [posted EXCEPT ![r] = <<Delta(outcome[r])>>]
           /\ UNCHANGED outcome

OutcomeNext == \/ \E S \in SUBSET Res : Open(S)
               \/ \E S \in SUBSET Res, o \in Outcomes : Close(S, o)
               \/ \E r \in Res : Post(r)

OutcomeSpec == OutcomeInit /\ [][OutcomeNext]_outcomeVars
===============================================================================
