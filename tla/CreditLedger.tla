---------------------------- MODULE CreditLedger ----------------------------
(***************************************************************************)
(* The credit score of the users and the ban that follows from it:         *)
(* ApplyDelta (repository/credit.go), the three amounts it is called with  *)
(* (service/credit.go) and the ban check of CreateWithSource. ApplyDelta   *)
(* is one transaction that begins by locking the row of the user: it is a  *)
(* single step here, or none when it is rolled back.                       *)
(*                                                                         *)
(* The rules are parameters, so that small instances have the shape of     *)
(* 100 points, threshold 60, -8, -2, +1 and three days.                    *)
(***************************************************************************)
EXTENDS Integers, SequencesExt

CONSTANTS
    Users,
    MaxScore,           \* LEAST(100, ...), and the score of a new account
    Threshold,          \* CreditBanThreshold
    Violation, LateCancel, Completion, \* amounts of the three deltas
    BanDays,            \* interval '3 days'
    MaxTime, MaxLogs    \* bounds: of the clock, of the logs of a user

ASSUME CreditAssumption ==
    /\ MaxScore \in Nat /\ Threshold \in 0..MaxScore
    /\ Violation \in Nat /\ LateCancel \in Nat /\ Completion \in Nat
    /\ BanDays \in Nat \ {0}
    /\ MaxTime \in Nat /\ MaxLogs \in Nat

VARIABLES
    now,
    score,          \* users.credit_score
    bannedUntil,    \* users.credit_banned_until
    logs            \* logs[u]: deltas of the credit_logs rows of u, oldest first

vars == <<now, score, bannedUntil, logs>>

Null == -1

CreditViolationDelta == -Violation
CreditLateCancelDelta == -LateCancel
CreditCompletionDelta == Completion
Deltas == {CreditViolationDelta, CreditLateCancelDelta, CreditCompletionDelta}

\* Mutant of Clamp: no GREATEST.
ClampAbove(n) == IF n > MaxScore THEN MaxScore ELSE n

\* LEAST(100, GREATEST(0, credit_score + delta))
Clamp(n) == IF n < 0 THEN 0 ELSE IF n > MaxScore THEN MaxScore ELSE n

\* Mutants of NewBan: a reward clears a ban that is over, whatever the score;
\* every drop starts the ban anew.
NewBanCleared(u, delta, newScore) ==
    IF delta > 0 /\ bannedUntil[u] # Null /\ bannedUntil[u] < now THEN Null
    ELSE IF newScore < Threshold /\ bannedUntil[u] = Null THEN now + BanDays
    ELSE bannedUntil[u]

NewBanRestarted(u, delta, newScore) ==
    IF newScore < Threshold THEN now + BanDays
    ELSE IF delta > 0 /\ bannedUntil[u] # Null /\ bannedUntil[u] < now THEN Null
    ELSE bannedUntil[u]

\* The last statement of the transaction: a low score bans who has no ban, and
\* a reward above the threshold clears a ban that is over.
NewBan(u, delta, newScore) ==
    IF newScore < Threshold
      THEN IF bannedUntil[u] = Null THEN now + BanDays ELSE bannedUntil[u]
      ELSE IF delta > 0 /\ bannedUntil[u] # Null /\ bannedUntil[u] < now
             THEN Null ELSE bannedUntil[u]

\* Mutant of ApplyDelta: only penalties are logged.
ApplyDeltaUnlogged(u, delta) ==
    LET newScore == Clamp(score[u] + delta) IN
    /\ Len(logs[u]) < MaxLogs
    /\ score' = [score EXCEPT ![u] = newScore]
    /\ logs' = IF delta < 0 THEN [logs EXCEPT ![u] = Append(@, delta)] ELSE logs
    /\ bannedUntil' = [bannedUntil EXCEPT ![u] = NewBan(u, delta, newScore)]
    /\ UNCHANGED now

ApplyDelta(u, delta) ==
    LET newScore == Clamp(score[u] + delta) IN
    /\ Len(logs[u]) < MaxLogs
    /\ score' = [score EXCEPT ![u] = newScore]
    /\ logs' = [logs EXCEPT ![u] = Append(@, delta)]
    /\ bannedUntil' = [bannedUntil EXCEPT ![u] = NewBan(u, delta, newScore)]
    /\ UNCHANGED now

\* CreateWithSource refuses a user whose ban lies in the future.
Banned(u) == bannedUntil[u] # Null /\ bannedUntil[u] > now

Tick == /\ now < MaxTime
        /\ now' = now + 1
        /\ UNCHANGED <<score, bannedUntil, logs>>

Init == /\ now = 0
        /\ score = [u \in Users |-> MaxScore]
        /\ bannedUntil = [u \in Users |-> Null]
        /\ logs = [u \in Users |-> <<>>]

Next == \/ \E u \in Users, delta \in Deltas : ApplyDelta(u, delta)
        \/ Tick

Spec == Init /\ [][Next]_vars

-------------------------------------------------------------------------------
(* Properties *)

\* Types and ranges of the columns.
TypeOK ==
    /\ now \in 0..MaxTime
    /\ score \in [Users -> 0..MaxScore]
    /\ bannedUntil \in [Users -> Nat \cup {Null}]
    /\ logs \in [Users -> Seq(Deltas)]

\* The score a user sees is the one that the list of changes below it explains:
\* the changes applied in order, each kept between 0 and the maximum.
ScoreMatchesLogs ==
    \A u \in Users :
        score[u] = FoldLeft(LAMBDA n, delta : Clamp(n + delta), MaxScore, logs[u])

\* Below the threshold nobody is without a ban, running or over: no reward
\* clears the ban of a user who is still below it. That the ban runs is not so:
\* one that is over and was not cleared stands in the way of the next.
LowScoreHasBan == \A u \in Users : score[u] < Threshold => bannedUntil[u] # Null

\* A ban that runs is neither lifted nor cut short nor prolonged by what happens
\* to the score meanwhile. The comment at repository/credit.go:59 promises the
\* opposite, an early end when a reward lifts the score to the threshold; the
\* statement below it clears bans that are over, and those only.
BanStands ==
    [][\A u \in Users : Banned(u) => bannedUntil'[u] = bannedUntil[u]]_vars

===============================================================================
