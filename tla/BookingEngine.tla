----------------------------- MODULE BookingEngine -----------------------------
(***************************************************************************)
(* CreateWithSource (service/reservation.go): how concurrent requests turn *)
(* into rows of the table reservations. Each request reads the seat, the   *)
(* room and the user, tries two locks of Redis that save work but promise  *)
(* nothing (they are skipped when Redis fails, and their leases can run    *)
(* out), looks for a conflict, and inserts; the exclusion constraints of   *)
(* the table (migrations/001_init.sql) decide.                             *)
(*                                                                         *)
(* Every booking comes this way: by hand, by allocation, from the waiting  *)
(* list. An element of Requests is one call.                               *)
(***************************************************************************)
EXTENDS Integers, FiniteSets

CONSTANTS
    Requests,
    Users, Seats, Slots,
    Begins, Ends, Day,  \* of each slot
    Faults,             \* statements fail and handlers die
    EnvMoves,           \* seats close, users are banned, lead times end
    LeasesLapse,        \* a lease may run out under a handler that is alive
    RedisFails          \* Redis may be out of reach

ASSUME BookingAssumption ==
    /\ Begins \in [Slots -> Nat] /\ Ends \in [Slots -> Nat]
    /\ \A t \in Slots : Begins[t] < Ends[t]
    \* a slot lies within a day
    /\ \A t, u \in Slots : Begins[t] < Ends[u] /\ Begins[u] < Ends[t] => Day[t] = Day[u]
    /\ Faults \in BOOLEAN /\ EnvMoves \in BOOLEAN /\ LeasesLapse \in BOOLEAN /\ RedisFails \in BOOLEAN

VARIABLES
    pc,         \* pc[q]: the step request q is about to take
    want,       \* want[q]: the claim it is for
    answer,     \* answer[q]: what its caller is told
    active,     \* rows of reservations in an active status
    running,    \* requests whose INSERT the server may still commit although nobody waits for it
    late,       \* the rows that got there that way
    userLock,   \* the keys studyroom:lock:user:<user>:<date>, and who set them
    seatLock,   \* the keys studyroom:lock:seat:<seat>:<date>:<start>_<end>
    redisUp,
    available,  \* seats.status = 'available'
    banned,     \* users whose credit_banned_until is in the future
    bookable    \* slots whose lead time has not run out

env == <<redisUp, available, banned, bookable>>
rows == <<active, running, late>>
locks == <<userLock, seatLock>>
vars == <<pc, want, answer, active, running, late, userLock, seatLock,
          redisUp, available, banned, bookable>>

Claims == [user : Users, seat : Seats, slot : Slots]
Free == "free"      \* there is no such key
Orphan == "orphan"  \* the token of a TryLock whose answer was lost: nobody knows it

ASSUME FreeAssumption == {Free, Orphan} \cap Requests = {}

UserKeys == Users \X {Day[t] : t \in Slots}
SeatKeys == Seats \X Slots
UserKey(c) == <<c.user, Day[c.slot]>>
SeatKey(c) == <<c.seat, c.slot>>

Steps == {"new", "seat", "user", "userLock", "seatLock", "check", "insert",
          "recheck", "unlockSeat", "unlockUser", "done"}
\* "ownKey" is "busy" to the caller, who was turned away by the key his own lost
\* SET had left; "gone" is no answer: the process died.
Answers == {"none", "booked", "busy", "ownKey", "conflict", "rejected", "error", "gone"}

Overlap(a, b) == Begins[a] < Ends[b] /\ Begins[b] < Ends[a]

\* conflictSQL: an active row of the same seat, or of the same user.
SeatConflict(c) == \E b \in active : b.seat = c.seat /\ Overlap(b.slot, c.slot)
UserConflict(c) == \E b \in active : b.user = c.user /\ Overlap(b.slot, c.slot)
HasConflict(c) == SeatConflict(c) \/ UserConflict(c)

Goto(q, step) == pc' = [pc EXCEPT ![q] = step] /\ UNCHANGED <<want, answer>>
\* The handler returns ans; step is the first of its deferred calls.
Return(q, step, ans) == /\ pc' = [pc EXCEPT ![q] = step]
                        /\ answer' = [answer EXCEPT ![q] = ans]
                        /\ UNCHANGED want

-------------------------------------------------------------------------------
\* validateSlot and the lead time.
Begin(q) ==
    /\ pc[q] = "new"
    /\ IF want[q].slot \in bookable THEN Goto(q, "seat") ELSE Return(q, "done", "rejected")
    /\ UNCHANGED <<rows, locks, env>>

ReadSeat(q) ==
    /\ pc[q] = "seat"
    /\ IF want[q].seat \in available THEN Goto(q, "user") ELSE Return(q, "done", "rejected")
    /\ UNCHANGED <<rows, locks, env>>

ReadUser(q) ==
    /\ pc[q] = "user"
    /\ IF want[q].user \in banned THEN Return(q, "done", "rejected") ELSE Goto(q, "userLock")
    /\ UNCHANGED <<rows, locks, env>>

\* TryLock is SET key token NX EX 30: it takes the key, or finds it taken, or
\* fails with Redis, and then the handler goes on without it. When the key was
\* set and the answer got lost, the client of Redis sends the command again (its
\* MaxRetries is left at the default) while the lease of the key still runs: the
\* handler goes on without the key when no answer comes at all, and is refused
\* when the second SET finds the key of the first.
LockUser(q) ==
    LET k == UserKey(want[q]) IN
    /\ pc[q] = "userLock"
    /\ \/ ~redisUp /\ Goto(q, "seatLock") /\ UNCHANGED userLock
       \/ /\ RedisFails /\ redisUp /\ userLock[k] = Free
          /\ userLock' = [userLock EXCEPT ![k] = Orphan]
          /\ Goto(q, "seatLock") \/ Return(q, "done", "ownKey")
       \/ /\ redisUp
          /\ IF userLock[k] = Free
               THEN userLock' = [userLock EXCEPT ![k] = q] /\ Goto(q, "seatLock")
               ELSE Return(q, "done", "busy") /\ UNCHANGED userLock
    /\ UNCHANGED <<rows, seatLock, env>>

\* Mutants of LockSeat: the request is turned away when Redis fails; the request
\* waits for Redis; a request turned away forgets its key of the user.
LockSeatOrBusy(q) ==
    LET k == SeatKey(want[q]) IN
    /\ pc[q] = "seatLock"
    /\ IF redisUp /\ seatLock[k] = Free
         THEN seatLock' = [seatLock EXCEPT ![k] = q] /\ Goto(q, "check")
         ELSE Return(q, "unlockUser", "busy") /\ UNCHANGED seatLock
    /\ UNCHANGED <<rows, userLock, env>>

LockSeatOrWait(q) ==
    LET k == SeatKey(want[q]) IN
    /\ pc[q] = "seatLock" /\ redisUp
    /\ IF seatLock[k] = Free
         THEN seatLock' = [seatLock EXCEPT ![k] = q] /\ Goto(q, "check")
         ELSE Return(q, "unlockUser", "busy") /\ UNCHANGED seatLock
    /\ UNCHANGED <<rows, userLock, env>>

LockSeatOrLeave(q) ==
    LET k == SeatKey(want[q]) IN
    /\ pc[q] = "seatLock"
    /\ IF seatLock[k] = Free
         THEN seatLock' = [seatLock EXCEPT ![k] = q] /\ Goto(q, "check")
         ELSE Return(q, "done", "busy") /\ UNCHANGED seatLock
    /\ UNCHANGED <<rows, userLock, env>>

LockSeat(q) ==
    LET k == SeatKey(want[q]) IN
    /\ pc[q] = "seatLock"
    /\ \/ ~redisUp /\ Goto(q, "check") /\ UNCHANGED seatLock
       \/ /\ RedisFails /\ redisUp /\ seatLock[k] = Free
          /\ seatLock' = [seatLock EXCEPT ![k] = Orphan]
          /\ Goto(q, "check") \/ Return(q, "unlockUser", "ownKey")
       \/ /\ redisUp
          /\ IF seatLock[k] = Free
               THEN seatLock' = [seatLock EXCEPT ![k] = q] /\ Goto(q, "check")
               ELSE Return(q, "unlockUser", "busy") /\ UNCHANGED seatLock
    /\ UNCHANGED <<rows, userLock, env>>

\* Mutant of Precheck: a conflict is answered with a code no caller knows.
PrecheckUnknownCode(q) ==
    /\ pc[q] = "check"
    /\ IF HasConflict(want[q]) THEN Return(q, "unlockSeat", "taken") ELSE Goto(q, "insert")
    /\ UNCHANGED <<rows, locks, env>>

\* HasConflict before the INSERT.
Precheck(q) ==
    /\ pc[q] = "check"
    /\ IF HasConflict(want[q]) THEN Return(q, "unlockSeat", "conflict") ELSE Goto(q, "insert")
    /\ UNCHANGED <<rows, locks, env>>

\* Mutant of Refused: the table has no excl_seat_overlap.
RefusedUserOnly(c) == UserConflict(c)

\* The exclusion constraints excl_seat_overlap and excl_user_overlap.
Refused(c) == SeatConflict(c) \/ UserConflict(c)

Insert(q) ==
    /\ pc[q] = "insert"
    /\ IF Refused(want[q])
         THEN Goto(q, "recheck") /\ UNCHANGED active
         ELSE active' = active \cup {want[q]} /\ Return(q, "unlockSeat", "booked")
    /\ UNCHANGED <<running, late, locks, env>>

\* After 23P01 the handler reads again to tell which conflict it was; it
\* answers with a conflict even when there is none any more.
Recheck(q) ==
    /\ pc[q] = "recheck"
    /\ Return(q, "unlockSeat", "conflict")
    /\ UNCHANGED <<rows, locks, env>>

\* The deferred Unlocks: DEL if the value is still the token of this request.
\* With Redis out of reach the key stays until its lease runs out.
UnlockSeat(q) ==
    LET k == SeatKey(want[q]) IN
    /\ pc[q] = "unlockSeat"
    /\ Goto(q, "unlockUser")
    /\ seatLock' = IF redisUp /\ seatLock[k] = q THEN [seatLock EXCEPT ![k] = Free] ELSE seatLock
    /\ UNCHANGED <<rows, userLock, env>>

UnlockUser(q) ==
    LET k == UserKey(want[q]) IN
    /\ pc[q] = "unlockUser"
    /\ Goto(q, "done")
    /\ userLock' = IF redisUp /\ userLock[k] = q THEN [userLock EXCEPT ![k] = Free] ELSE userLock
    /\ UNCHANGED <<rows, seatLock, env>>

Step(q) ==
    \/ ReadSeat(q) \/ ReadUser(q)
    \/ LockUser(q) \/ LockSeat(q)
    \/ Precheck(q) \/ Insert(q) \/ Recheck(q)
    \/ UnlockSeat(q) \/ UnlockUser(q)

-------------------------------------------------------------------------------
(* Failures, and what goes on around the requests. *)

InFlight(q) == pc[q] \notin {"new", "done"}

\* A statement fails, or the client leaves and with it the context the statements
\* run under. The handler returns through its deferred Unlocks, which do not need
\* that context. An INSERT of which it saw no end may be in the table by then,
\* or get there later, or never.
StatementFails(q) ==
    /\ Faults
    /\ \/ pc[q] \in {"seat", "user"} /\ Return(q, "done", "error") /\ UNCHANGED running
       \/ pc[q] = "check" /\ Return(q, "unlockSeat", "error") /\ UNCHANGED running
       \/ /\ pc[q] = "insert" /\ Return(q, "unlockSeat", "error")
          /\ running' \in {running, running \cup {q}}
    /\ UNCHANGED <<active, late, locks, env>>

\* The client leaves while TryLock waits for its answer: the key may be set, the
\* handler goes on without it, and its next call fails.
LeftAtUserLock(q) ==
    LET k == UserKey(want[q]) IN
    /\ Faults
    /\ pc[q] = "userLock" /\ Return(q, "done", "error")
    /\ \/ UNCHANGED userLock
       \/ redisUp /\ userLock[k] = Free /\ userLock' = [userLock EXCEPT ![k] = Orphan]
    /\ UNCHANGED <<rows, seatLock, env>>

LeftAtSeatLock(q) ==
    LET k == SeatKey(want[q]) IN
    /\ Faults
    /\ pc[q] = "seatLock" /\ Return(q, "unlockUser", "error")
    /\ \/ UNCHANGED seatLock
       \/ redisUp /\ seatLock[k] = Free /\ seatLock' = [seatLock EXCEPT ![k] = Orphan]
    /\ UNCHANGED <<rows, userLock, env>>

\* The process dies: no Unlock runs, nobody renews the leases, and the server may
\* still commit the INSERT it was sent.
HandlerDies(q) ==
    /\ Faults
    /\ InFlight(q)
    /\ Return(q, "done", "gone")
    /\ \/ UNCHANGED running
       \/ pc[q] = "insert" /\ running' = running \cup {q}
    /\ UNCHANGED <<active, late, locks, env>>

\* The server comes to the end of an INSERT nobody waits for.
LateInsert(q) ==
    /\ q \in running
    /\ running' = running \ {q}
    /\ IF Refused(want[q]) THEN UNCHANGED <<active, late>>
         ELSE active' = active \cup {want[q]} /\ late' = late \cup {want[q]}
    /\ UNCHANGED <<pc, want, answer, locks, env>>

\* Mutants of MayLapse: nobody renews; the key is set without EX.
MayLapseAlways(q) == TRUE
MayLapseNever(q) == FALSE

\* The lease of a key ends. StartAutoRenew prevents it while the handler that
\* knows it has the key lives and reaches Redis in time.
MayLapse(q) == LeasesLapse \/ (q \in Requests => pc[q] = "done")

UserLeaseEnds(k) ==
    /\ userLock[k] # Free /\ MayLapse(userLock[k])
    /\ userLock' = [userLock EXCEPT ![k] = Free]
    /\ UNCHANGED <<pc, want, answer, rows, seatLock, env>>

SeatLeaseEnds(k) ==
    /\ seatLock[k] # Free /\ MayLapse(seatLock[k])
    /\ seatLock' = [seatLock EXCEPT ![k] = Free]
    /\ UNCHANGED <<pc, want, answer, rows, userLock, env>>

RedisToggles ==
    /\ RedisFails
    /\ redisUp' = ~redisUp
    /\ UNCHANGED <<pc, want, answer, rows, locks, available, banned, bookable>>

\* ReservationLifecycle closes a row.
Close(c) ==
    /\ c \in active
    /\ active' = active \ {c} /\ late' = late \ {c}
    /\ UNCHANGED <<pc, want, answer, running, locks, env>>

\* An administrator takes a seat out of service, a user is banned, time passes.
SeatOut(s) == /\ EnvMoves /\ s \in available /\ available' = available \ {s}
              /\ UNCHANGED <<pc, want, answer, rows, locks, redisUp, banned, bookable>>
Ban(u) == /\ EnvMoves /\ u \notin banned /\ banned' = banned \cup {u}
          /\ UNCHANGED <<pc, want, answer, rows, locks, redisUp, available, bookable>>
LeadTimeEnds(t) == /\ EnvMoves /\ t \in bookable /\ bookable' = bookable \ {t}
                   /\ UNCHANGED <<pc, want, answer, rows, locks, redisUp, available, banned>>

Init ==
    /\ pc = [q \in Requests |-> "new"]
    /\ want \in [Requests -> Claims]
    /\ answer = [q \in Requests |-> "none"]
    /\ active = {} /\ running = {} /\ late = {}
    /\ userLock = [k \in UserKeys |-> Free]
    /\ seatLock = [k \in SeatKeys |-> Free]
    /\ redisUp = TRUE
    /\ available = Seats /\ banned = {} /\ bookable = Slots

Next ==
    \/ \E q \in Requests : Begin(q)
    \/ \E q \in Requests : Step(q)
    \/ \E q \in Requests : StatementFails(q) \/ LeftAtUserLock(q) \/ LeftAtSeatLock(q)
    \/ \E q \in Requests : HandlerDies(q) \/ LateInsert(q)
    \/ \E k \in UserKeys : UserLeaseEnds(k)
    \/ \E k \in SeatKeys : SeatLeaseEnds(k)
    \/ RedisToggles
    \/ \E c \in Claims : Close(c)
    \/ \E s \in Seats : SeatOut(s)
    \/ \E u \in Users : Ban(u)
    \/ \E t \in Slots : LeadTimeEnds(t)

Spec == Init /\ [][Next]_vars

\* A handler that was called keeps running, and a key nobody renews goes away.
FairSpec ==
    /\ Spec
    /\ \A q \in Requests : WF_vars(Step(q))
    /\ \A k \in UserKeys : WF_vars(UserLeaseEnds(k))
    /\ \A k \in SeatKeys : WF_vars(SeatLeaseEnds(k))

-------------------------------------------------------------------------------
(* Properties *)

TypeOK ==
    /\ pc \in [Requests -> Steps]
    /\ want \in [Requests -> Claims]
    /\ answer \in [Requests -> Answers]
    /\ active \subseteq Claims /\ running \subseteq Requests /\ late \subseteq Claims
    /\ userLock \in [UserKeys -> Requests \cup {Free, Orphan}]
    /\ seatLock \in [SeatKeys -> Requests \cup {Free, Orphan}]
    /\ redisUp \in BOOLEAN
    /\ available \subseteq Seats /\ banned \subseteq Users /\ bookable \subseteq Slots

\* Whatever the locks do, the active rows of the table are a SeatLedger: no seat
\* is sold twice for overlapping times and no user holds two seats at once.
Ledger == INSTANCE SeatLedger WITH ledger <- active
ImplementsLedger == Ledger!LedgerSpec

\* The locks refuse requests that wait for nobody's answer. They do not refuse
\* everybody: when all requests are over, none of them in an error or turned away
\* by a key of its own, and one was told to come back or that there is a
\* conflict, then one got what it wanted. (A request can be turned away by its
\* own key: then nobody may have booked.)
Broken == {"error", "gone", "ownKey"}
SomeoneWins ==
    (/\ \A q \in Requests : pc[q] = "done" /\ answer[q] \notin Broken
     /\ \E q \in Requests : answer[q] \in {"busy", "conflict"})
      => \E q \in Requests : answer[q] = "booked"

\* While Redis works, the lock of the user and date and the look at the table
\* leave nothing for excl_user_overlap to refuse but a row whose INSERT was
\* committed when its request had ended without an answer, perhaps after its
\* Unlock. Two handlers of one user cannot both be between their look and their
\* INSERT. (Of the seat this is not true: its key contains the exact slot, and two
\* users whose slots overlap hold different keys.)
UserConstraintIsBackstop ==
    \A q \in Requests, b \in active :
        pc[q] = "insert" /\ b.user = want[q].user /\ Overlap(b.slot, want[q].slot) => b \in late

\* While Redis works, a handler that came back, with whatever answer and on
\* whichever way out, has left none of its keys behind: its user may try again at
\* once, and the next for the seat too. (A handler that died has; a TryLock whose
\* answer its client did not wait for leaves a key that is nobody's.)
NothingLeftBehind ==
    \A q \in Requests :
        pc[q] = "done" /\ answer[q] # "gone" =>
            /\ \A k \in UserKeys : userLock[k] # q
            /\ \A k \in SeatKeys : seatLock[k] # q

\* A request is answered.
EveryoneAnswered == \A q \in Requests : InFlight(q) ~> ~InFlight(q)
===============================================================================
