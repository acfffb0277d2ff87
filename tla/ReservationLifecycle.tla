------------------------- MODULE ReservationLifecycle -------------------------
(***************************************************************************)
(* The life of a reservation row: the five requests of its owner           *)
(* (service/lifecycle.go and Cancel of service/reservation.go), the three  *)
(* scans of the scheduler (LifecycleService.Tick) and the credit changes   *)
(* that follow them (service/credit.go).                                   *)
(*                                                                         *)
(* A request is not one step. It reads the row, looks at the clock, issues *)
(* a conditional UPDATE and, for two of the requests, changes the credit   *)
(* of the owner in another transaction: req[w] is the request the handler  *)
(* goroutine w has in progress. The scheduler's Tick is not one step       *)
(* either: sch[s] holds the scan that was done last and the rows that scan *)
(* returned whose hooks have not run yet. There may be several schedulers: *)
(* the leader lock of scheduler.go can expire under a slow round.          *)
(*                                                                         *)
(* Time is counted in units; StartAt and EndAt are on the same axis as the *)
(* clock. The clock of the process and that of the database are one.       *)
(***************************************************************************)
EXTENDS Integers, Sequences

CONSTANTS
    Res,            \* reservations
    Workers,        \* goroutines that serve requests
    Schedulers,     \* instances of the background scheduler
    StartAt, EndAt, \* the slot of each reservation
    DayLength,      \* length of a calendar day
    CheckinEarly, CheckinGrace, TempLeaveMax, \* lifecycle.go
    LateCancel,     \* a cancellation closer to the start than this costs credit
    MaxTime,        \* bound: the clock stops here
    Faults          \* whether statements fail and processes crash

ASSUME ResAssumption ==
    /\ StartAt \in [Res -> Nat]
    /\ EndAt \in [Res -> Nat]
    /\ \A r \in Res : StartAt[r] < EndAt[r]

ASSUME TimingAssumption ==
    /\ DayLength \in Nat \ {0}
    /\ CheckinEarly \in Nat /\ CheckinGrace \in Nat /\ TempLeaveMax \in Nat
    /\ LateCancel \in Nat /\ MaxTime \in Nat
    /\ Faults \in BOOLEAN

VARIABLES
    now,        \* the clock
    status,     \* reservations.status, "none" while there is no row
    checkinAt,  \* reservations.checkin_at
    leaveAt,    \* reservations.leave_at
    logs,       \* logs[r]: deltas of the credit_logs rows of reservation r
    req,        \* req[w]: the request w serves
    sch         \* sch[s]: where scheduler s is in its round

rows == <<status, checkinAt, leaveAt>>
vars == <<now, status, checkinAt, leaveAt, logs, req, sch>>

Never == -1     \* SQL NULL in a timestamp column

Active == {"pending", "checked_in", "temp_leave"}
Terminal == {"completed", "cancelled", "violation"}
Statuses == {"none"} \cup Active \cup Terminal

CreditViolationDelta  == -8
CreditLateCancelDelta == -2
CreditCompletionDelta == 1

-------------------------------------------------------------------------------
(* The requests. Each handler takes the row from a state of From[op] to the *)
(* state To[op].                                                            *)

Ops == {"checkin", "leave", "return", "checkout", "cancel"}

From == [op \in Ops |->
           IF op \in {"checkin", "cancel"} THEN {"pending"}
           ELSE IF op = "leave" THEN {"checked_in"}
           ELSE IF op = "return" THEN {"temp_leave"}
           ELSE {"checked_in", "temp_leave"}]

\* Mutant of To: checkout writes a word the CHECK of the column does not know.
ToUnknown == [op \in Ops |->
                IF op \in {"checkin", "return"} THEN "checked_in"
                ELSE IF op = "leave" THEN "temp_leave"
                ELSE IF op = "checkout" THEN "finished"
                ELSE "cancelled"]

To == [op \in Ops |->
         IF op \in {"checkin", "return"} THEN "checked_in"
         ELSE IF op = "leave" THEN "temp_leave"
         ELSE IF op = "checkout" THEN "completed"
         ELSE "cancelled"]

Idle == [pc |-> "idle"]
\* mark: the timestamp the handler holds in a local variable.
Requests == {Idle} \cup [pc : {"read", "write", "credit"}, op : Ops, res : Res,
                         mark : Nat \cup {Never}]

At(w, pc) == req[w] # Idle /\ req[w].pc = pc
Goto(w, pc, mark) ==
    req' = [req EXCEPT ![w] = [pc |-> pc, op |-> @.op, res |-> @.res, mark |-> mark]]
Finish(w) == req' = [req EXCEPT ![w] = Idle]
Log(r, delta) == logs' = [logs EXCEPT ![r] = Append(@, delta)]

\* CreateWithSource inserts the row. A request is much shorter than the lead
\* time it demands, so the row appears before the slot begins.
Book(r) ==
    /\ status[r] = "none"
    /\ now <= StartAt[r]
    /\ status' = [status EXCEPT ![r] = "pending"]
    /\ UNCHANGED <<now, checkinAt, leaveAt, logs, req, sch>>

\* getOwned and the check of the status that was read. The request of another
\* user, or in another status, ends here and changes nothing.
GetOwned(w, op, r) ==
    /\ req[w] = Idle
    /\ status[r] \in From[op]
    /\ req' = [req EXCEPT ![w] =
                 [pc |-> "read", op |-> op, res |-> r,
                  mark |-> IF op = "return" THEN leaveAt[r] ELSE Never]]
    /\ UNCHANGED <<now, rows, logs, sch>>

CheckinWindow(r) == (StartAt[r] - CheckinEarly)..(StartAt[r] + CheckinGrace)

\* The look at the clock, which may be later than the read. Checkin and Leave
\* keep the instant: it is what they write.
Allowed(op, r, mark) ==
    /\ op = "checkin" => now \in CheckinWindow(r)
    /\ op = "return" => mark = Never \/ now - mark <= TempLeaveMax

LookAtClock(w) ==
    LET q == req[w] IN
    /\ At(w, "read")
    /\ IF Allowed(q.op, q.res, q.mark)
         THEN Goto(w, "write", IF q.op \in {"checkin", "leave"} THEN now ELSE Never)
         ELSE Finish(w)
    /\ UNCHANGED <<now, rows, logs, sch>>

\* UPDATE ... WHERE id = $1 AND status = ANY(from): the columns it sets.
SetRow(op, r, mark) ==
    /\ status' = [status EXCEPT ![r] = To[op]]
    /\ checkinAt' = IF op = "checkin" THEN [checkinAt EXCEPT ![r] = mark] ELSE checkinAt
    /\ leaveAt' = IF op = "leave" THEN [leaveAt EXCEPT ![r] = mark] ELSE leaveAt

\* Mutant of UpdateStatus: the UPDATE has no condition on the status.
UpdateAnyStatus(w) ==
    LET q == req[w] IN
    /\ At(w, "write")
    /\ SetRow(q.op, q.res, q.mark)
    /\ IF q.op \in {"checkout", "cancel"} THEN Goto(w, "credit", Never) ELSE Finish(w)
    /\ UNCHANGED <<now, logs, sch>>

\* The conditional UPDATE; no row updated is ErrInvalidState. Checkout and
\* Cancel go on to the credit of the owner, in a transaction of its own.
UpdateStatus(w) ==
    LET q == req[w] IN
    /\ At(w, "write")
    /\ IF status[q.res] \in From[q.op]
         THEN /\ SetRow(q.op, q.res, q.mark)
              /\ IF q.op \in {"checkout", "cancel"} THEN Goto(w, "credit", Never) ELSE Finish(w)
         ELSE UNCHANGED rows /\ Finish(w)
    /\ UNCHANGED <<now, logs, sch>>

\* Checkout re-reads the row and runs OnComplete.
OnComplete(w) ==
    /\ At(w, "credit") /\ req[w].op = "checkout"
    /\ Log(req[w].res, CreditCompletionDelta)
    /\ Finish(w)
    /\ UNCHANGED <<now, rows, sch>>

\* Cancel looks at the clock again, after the UPDATE, to tell a late one.
ApplyLateCancel(w) ==
    /\ At(w, "credit") /\ req[w].op = "cancel"
    /\ IF StartAt[req[w].res] - now < LateCancel
         THEN Log(req[w].res, CreditLateCancelDelta)
         ELSE UNCHANGED logs
    /\ Finish(w)
    /\ UNCHANGED <<now, rows, sch>>

\* A statement of the request fails, the client goes away or the process dies:
\* the handler returns. An UPDATE whose answer was lost may have taken effect.
RequestFails(w) ==
    LET q == req[w] IN
    /\ Faults
    /\ req[w] # Idle
    /\ \/ UNCHANGED rows
       \/ At(w, "write") /\ status[q.res] \in From[q.op] /\ SetRow(q.op, q.res, q.mark)
    /\ Finish(w)
    /\ UNCHANGED <<now, logs, sch>>

-------------------------------------------------------------------------------
(* The scheduler. A round is three scans; after each, the hooks of the rows *)
(* it returned run one at a time. pc names the scan done last.              *)

Waiting == [pc |-> "wait", todo |-> {}]
Rounds == [pc : {"wait", "noShows", "timeUp", "leaveOut"}, todo : SUBSET Res]

Date(t) == t \div DayLength

\* Mutant of Recent: the scans look at the rows of today only.
RecentToday(r) == Date(StartAt[r]) >= Date(now)

\* res_date >= CURRENT_DATE - 1
Recent(r) == Date(StartAt[r]) >= Date(now) - 1

\* Mutants of NoShow: the scan takes rows in use too; the scan takes only the
\* rows whose grace period ends at this instant.
NoShowSeated(r) == /\ status[r] \in {"pending", "checked_in"}
                   /\ Recent(r)
                   /\ StartAt[r] < now - CheckinGrace

NoShowExactly(r) == /\ status[r] = "pending"
                    /\ Recent(r)
                    /\ StartAt[r] = now - CheckinGrace - 1

NoShow(r) == /\ status[r] = "pending"
             /\ Recent(r)
             /\ StartAt[r] < now - CheckinGrace

\* Mutant of TimeUp: the scan completes what is completed already.
TimeUpAgain(r) == /\ status[r] \in {"checked_in", "temp_leave", "completed"}
                  /\ Recent(r)
                  /\ EndAt[r] < now

TimeUp(r) == /\ status[r] \in {"checked_in", "temp_leave"}
             /\ Recent(r)
             /\ EndAt[r] < now

\* Mutant of LeaveOut: the scan trusts leave_at, which a return does not clear.
LeaveOutAnyStatus(r) == /\ status[r] # "none"
                        /\ Recent(r)
                        /\ leaveAt[r] # Never
                        /\ leaveAt[r] < now - TempLeaveMax

LeaveOut(r) == /\ status[r] = "temp_leave"
               /\ Recent(r)
               /\ leaveAt[r] # Never
               /\ leaveAt[r] < now - TempLeaveMax

\* One UPDATE ... RETURNING: the rows S move to state st, and their hooks are
\* due. When the connection breaks under it Tick gets no rows and goes on, and
\* the UPDATE may have been committed.
Scan(s, from, to, S, st) ==
    /\ sch[s].pc = from /\ sch[s].todo = {}
    /\ \E done \in {S} \cup (IF Faults THEN {{}} ELSE {}),
          seen \in {S} \cup (IF Faults THEN {{}} ELSE {}) :
         /\ seen \subseteq done
         /\ status' = [r \in Res |-> IF r \in done THEN st ELSE status[r]]
         /\ sch' = [sch EXCEPT ![s] = [pc |-> to, todo |-> seen]]
    /\ UNCHANGED <<now, checkinAt, leaveAt, logs, req>>

ExpireNoShows(s) == Scan(s, "wait", "noShows", {r \in Res : NoShow(r)}, "violation")
\* Mutant of AutoCompleteTimeout: the UPDATE returns nothing to run hooks for.
AutoCompleteSilently(s) ==
    /\ sch[s].pc = "noShows" /\ sch[s].todo = {}
    /\ status' = [r \in Res |-> IF TimeUp(r) THEN "completed" ELSE status[r]]
    /\ sch' = [sch EXCEPT ![s] = [pc |-> "timeUp", todo |-> {}]]
    /\ UNCHANGED <<now, checkinAt, leaveAt, logs, req>>

AutoCompleteTimeout(s) == Scan(s, "noShows", "timeUp", {r \in Res : TimeUp(r)}, "completed")
EndTempLeaveTimeout(s) == Scan(s, "timeUp", "leaveOut", {r \in Res : LeaveOut(r)}, "completed")

\* CreditService.OnViolation or OnComplete for one of the rows of the scan.
Hook(s, r) ==
    /\ r \in sch[s].todo
    /\ Log(r, IF sch[s].pc = "noShows" THEN CreditViolationDelta ELSE CreditCompletionDelta)
    /\ sch' = [sch EXCEPT ![s] = [pc |-> @.pc, todo |-> @.todo \ {r}]]
    /\ UNCHANGED <<now, rows, req>>

EndRound(s) ==
    /\ sch[s].pc = "leaveOut" /\ sch[s].todo = {}
    /\ sch' = [sch EXCEPT ![s] = Waiting]
    /\ UNCHANGED <<now, rows, logs, req>>

\* ApplyDelta of a hook fails: the error is logged and the loop goes on.
HookFails(s, r) ==
    /\ Faults
    /\ r \in sch[s].todo
    /\ sch' = [sch EXCEPT ![s] = [pc |-> @.pc, todo |-> @.todo \ {r}]]
    /\ UNCHANGED <<now, rows, logs, req>>

\* The process stops: what requests and the round held in memory is gone.
Crash ==
    /\ Faults
    /\ req' = [w \in Workers |-> Idle]
    /\ sch' = [s \in Schedulers |-> Waiting]
    /\ UNCHANGED <<now, rows, logs>>

-------------------------------------------------------------------------------
Tick ==
    /\ now < MaxTime
    /\ now' = now + 1
    /\ UNCHANGED <<rows, logs, req, sch>>

Init ==
    /\ now = 0
    /\ status = [r \in Res |-> "none"]
    /\ checkinAt = [r \in Res |-> Never]
    /\ leaveAt = [r \in Res |-> Never]
    /\ logs = [r \in Res |-> <<>>]
    /\ req = [w \in Workers |-> Idle]
    /\ sch = [s \in Schedulers |-> Waiting]

RequestStep(w) ==
    \/ LookAtClock(w)
    \/ UpdateStatus(w)
    \/ OnComplete(w)
    \/ ApplyLateCancel(w)

RoundStep(s) ==
    \/ ExpireNoShows(s)
    \/ AutoCompleteTimeout(s)
    \/ EndTempLeaveTimeout(s)
    \/ \E r \in Res : Hook(s, r)
    \/ EndRound(s)

Next ==
    \/ \E r \in Res : Book(r)
    \/ \E w \in Workers, op \in Ops, r \in Res : GetOwned(w, op, r)
    \/ \E w \in Workers : RequestStep(w) \/ RequestFails(w)
    \/ \E s \in Schedulers : RoundStep(s)
    \/ \E s \in Schedulers, r \in Res : HookFails(s, r)
    \/ Crash
    \/ Tick

Spec == Init /\ [][Next]_vars

\* A goroutine that serves a request keeps running, the ticker of the scheduler
\* keeps firing, and time passes. Nothing obliges a user to do anything.
Fairness == /\ \A w \in Workers : WF_vars(RequestStep(w))
            /\ \A s \in Schedulers : WF_vars(RoundStep(s))
            /\ WF_vars(Tick)

FairSpec == Spec /\ Fairness

-------------------------------------------------------------------------------
(* Properties *)

\* Types of the columns and of what goroutines hold in memory.
TypeOK ==
    /\ now \in 0..MaxTime
    /\ status \in [Res -> Statuses]
    /\ checkinAt \in [Res -> Nat \cup {Never}]
    /\ leaveAt \in [Res -> Nat \cup {Never}]
    /\ logs \in [Res -> Seq(Int)]
    /\ req \in [Workers -> Requests]
    /\ sch \in [Schedulers -> Rounds]

\* The amount that goes with a closed row.
Due(r) == IF status[r] = "violation" THEN CreditViolationDelta
          ELSE IF status[r] = "cancelled" THEN CreditLateCancelDelta
          ELSE CreditCompletionDelta

\* Whatever requests and scheduler rounds race for the row, its owner's credit
\* moves at most once for it, and by the amount of the outcome the row ended
\* with: nobody pays for a no-show and is rewarded for the visit, nobody is
\* rewarded twice by a checkout and by the two scans.
CreditOnce ==
    \A r \in Res : logs[r] # <<>> => status[r] \in Terminal /\ logs[r] = <<Due(r)>>

\* Why CreditOnce holds: from the UPDATE that closes a row until its credit is
\* written exactly one goroutine owes that credit, a request or a round, never
\* two, and never one more after it has been written.
Owes(w, r) == At(w, "credit") /\ req[w].res = r

OneOwes ==
    \A r \in Res :
        /\ \A w \in Workers : Owes(w, r) =>
             /\ logs[r] = <<>>
             /\ req[w].op \in {"checkout", "cancel"} /\ status[r] = To[req[w].op]
             /\ \A v \in Workers : Owes(v, r) => v = w
             /\ \A s \in Schedulers : r \notin sch[s].todo
        /\ \A s \in Schedulers : r \in sch[s].todo =>
             /\ logs[r] = <<>>
             /\ status[r] = IF sch[s].pc = "noShows" THEN "violation" ELSE "completed"
             /\ \A t \in Schedulers : r \in sch[t].todo => t = s

\* A row that was used was signed in within the window around its start, however
\* late the UPDATE reached the table, and a no-show was never signed in: the
\* check-in and the scan for no-shows cannot both win. Nor was a cancelled row: the
\* code cancels what is pending (service/reservation.go:241, 245), where the comment
\* at migrations/001_init.sql:88 has checked_in rows cancelled too.
Attendance ==
    \A r \in Res :
        /\ status[r] \in {"checked_in", "temp_leave", "completed"}
             => checkinAt[r] \in CheckinWindow(r)
        /\ status[r] \in {"none", "pending", "cancelled", "violation"} => checkinAt[r] = Never

\* The outcome and the credit of a reservation behave as ReservationOutcome says.
Promise == INSTANCE ReservationOutcome WITH
               outcome <- [r \in Res |-> IF status[r] \in Active THEN "open" ELSE status[r]],
               posted <- logs
ImplementsOutcome == Promise!OutcomeSpec

\* A closed row that calls for a credit change gets it: a no-show is charged and
\* a completed visit rewarded, in the end.
CreditSettles ==
    \A r \in Res : status[r] \in {"violation", "completed"} ~> logs[r] # <<>>
===============================================================================
