-------------------------------- MODULE Waitlist --------------------------------
(***************************************************************************)
(* The waiting list of one session (a room, a date, a time): requests that *)
(* join and leave it (service/waitlist.go), the rounds PromoteTick and     *)
(* ExpireTick of the scheduler, and the bookings around them. Sessions     *)
(* meet only in their users, who cannot sit in two places at once: that is *)
(* unfit, together with the bans.                                          *)
(*                                                                         *)
(* A booking is what BookingEngine implements: CreateWithSource refuses or *)
(* adds a claim to a SeatLedger, in one step. The entries of the list are  *)
(* numbered in the order of created_at.                                    *)
(***************************************************************************)
EXTENDS Integers, Sequences, FiniteSets

CONSTANTS
    Users,
    Seats,          \* numbered in the order of their rows and columns
    Clients,        \* goroutines that serve Join
    Schedulers,
    TryCount,       \* PromoteTryCount
    Restless,       \* bound: users who may be banned or sit elsewhere
    MaxEntries,     \* bound: rows of the list
    Faults          \* statements fail and processes crash

ASSUME WaitAssumption ==
    /\ Seats \subseteq Nat /\ Seats # {}
    /\ Restless \subseteq Users
    /\ TryCount \in Nat \ {0} /\ MaxEntries \in Nat
    /\ Faults \in BOOLEAN

VARIABLES
    entries,    \* rows of waitlist
    active,     \* who holds which seat of the session
    unfit,      \* users who are banned or sit elsewhere at that time
    inService,  \* seats with status 'available'
    open,       \* the session lies within the opening hours of its room
    phase,      \* "ahead": may be booked; "begun": not any more; "over": the day is past
    join,       \* join[c]: the user whose Join c has looked for an entry
    sch         \* sch[s]: where the round of scheduler s is

room == <<inService, open>>
vars == <<entries, active, unfit, room, phase, join, sch>>

Ids == 1..MaxEntries
Statuses == {"waiting", "promoted", "cancelled", "expired"}
Entries == [user : Users, status : Statuses]
Phases == {"ahead", "begun", "over"}

\* No Join in progress.
Nobody == "nobody"

\* seats, queue: what the round read and has not used yet; tried: entries it has
\* offered a seat to.
Rounds == [pc : {"wait", "queue", "try", "mark", "expire"},
           seats : SUBSET Seats, queue : SUBSET Ids, tried : SUBSET Ids]
Asleep == [pc |-> "wait", seats |-> {}, queue |-> {}, tried |-> {}]

Waiting == {e \in DOMAIN entries : entries[e].status = "waiting"}
SetStatus(S, st) ==
    entries' = [e \in DOMAIN entries |->
                  IF e \in S THEN [user |-> entries[e].user, status |-> st] ELSE entries[e]]

\* The candidates: the query looks at seats and bookings, not at opening hours.
FreeSeats == {seat \in inService : \A b \in active : b.seat # seat}

\* What CreateWithSource demands, and what it refuses.
Bookable(u, seat) ==
    /\ phase = "ahead" /\ seat \in inService /\ open /\ u \notin unfit
    /\ \A b \in active : b.seat # seat /\ b.user # u

\* Mutant of First: ORDER BY ... DESC.
Last(S) == CHOOSE n \in S : \A m \in S : m <= n

First(S) == CHOOSE n \in S : \A m \in S : n <= m

-------------------------------------------------------------------------------
(* Requests. *)

\* HasWaitingSameSlot; validateSlot accepts any time, past or future, within the
\* opening hours or not. One that finds an entry answers ErrAlreadyWaiting.
JoinLook(c, u) ==
    /\ join[c] = Nobody
    /\ \A e \in Waiting : entries[e].user # u
    /\ join' = [join EXCEPT ![c] = u]
    /\ UNCHANGED <<entries, active, unfit, room, phase, sch>>

\* Insert, or an error before or after it.
JoinInsert(c) ==
    /\ join[c] # Nobody
    /\ \/ /\ Len(entries) < MaxEntries
          /\ entries' = Append(entries, [user |-> join[c], status |-> "waiting"])
       \/ Faults /\ UNCHANGED entries
    /\ join' = [join EXCEPT ![c] = Nobody]
    /\ UNCHANGED <<active, unfit, room, phase, sch>>

\* Cancel: the row is read for its owner, who never changes; then the UPDATE of a
\* waiting row.
Cancel(e) ==
    /\ e \in Waiting
    /\ SetStatus({e}, "cancelled")
    /\ UNCHANGED <<active, unfit, room, phase, join, sch>>

-------------------------------------------------------------------------------
(* The round of a scheduler. *)

Goto(s, pc) == sch' = [sch EXCEPT ![s].pc = pc]
\* The round is done with its entry e.
NextEntry(s, e, seats) ==
    sch' = [sch EXCEPT ![s] = [pc |-> "try", seats |-> seats,
                               queue |-> @.queue \ {e}, tried |-> @.tried \cup {e}]]
\* On to ExpireTick.
Leave(s) == sch' = [sch EXCEPT ![s] = [pc |-> "expire", seats |-> {}, queue |-> {}, tried |-> {}]]

\* ListWaitingSlots and ListCandidates: without anybody who waits, or without a
\* free seat, the session is passed over.
ListCandidates(s) ==
    /\ sch[s].pc = "wait"
    /\ IF Waiting # {} /\ phase # "over" /\ FreeSeats # {}
         THEN sch' = [sch EXCEPT ![s] = [pc |-> "queue", seats |-> FreeSeats,
                                         queue |-> {}, tried |-> {}]]
         ELSE Leave(s)
    /\ UNCHANGED <<entries, active, unfit, room, phase, join>>

\* ORDER BY created_at LIMIT PromoteTryCount
Heads == {e \in Waiting : Cardinality({f \in Waiting : f < e}) < TryCount}

ListQueue(s) ==
    /\ sch[s].pc = "queue"
    /\ sch' = [sch EXCEPT ![s] = [pc |-> "try", seats |-> @.seats, queue |-> Heads, tried |-> {}]]
    /\ UNCHANGED <<entries, active, unfit, room, phase, join>>

\* The entry and the seat the round is at.
Entry(s) == First(sch[s].queue)
User(s) == entries[Entry(s)].user
Seat(s) == First(sch[s].seats)
Trying(s) == sch[s].pc = "try" /\ sch[s].queue # {} /\ sch[s].seats # {}

\* CreateWithSource books the first of the seats for the first of the queue.
Book(s) ==
    /\ Trying(s)
    /\ Bookable(User(s), Seat(s))
    /\ active' = active \cup {[user |-> User(s), seat |-> Seat(s)]}
    /\ Goto(s, "mark")
    /\ UNCHANGED <<entries, unfit, room, phase, join>>

\* Mutant of Refuse: the first refusal ends the round.
RefuseEnds(s) ==
    /\ Trying(s)
    /\ ~Bookable(User(s), Seat(s))
    /\ Leave(s)
    /\ UNCHANGED <<entries, active, unfit, room, phase, join>>

\* CreateWithSource refuses: the entry stays, the next is tried with the same seat.
Refuse(s) ==
    /\ Trying(s)
    /\ ~Bookable(User(s), Seat(s))
    /\ NextEntry(s, Entry(s), sch[s].seats)
    /\ UNCHANGED <<entries, active, unfit, room, phase, join>>

\* It finds a lock taken or fails: the same, though the row may have been written.
BookingFails(s) ==
    /\ Trying(s)
    /\ Bookable(User(s), Seat(s))
    /\ \/ UNCHANGED active
       \/ Faults /\ active' = active \cup {[user |-> User(s), seat |-> Seat(s)]}
    /\ NextEntry(s, Entry(s), sch[s].seats)
    /\ UNCHANGED <<entries, unfit, room, phase, join>>

\* UpdateStatus from waiting; whether a row was updated is not looked at.
MarkPromoted(s) ==
    /\ sch[s].pc = "mark"
    /\ SetStatus({Entry(s)} \cap Waiting, "promoted")
    /\ NextEntry(s, Entry(s), sch[s].seats \ {Seat(s)})
    /\ UNCHANGED <<active, unfit, room, phase, join>>

\* It fails, perhaps after it took effect; the seat is offered to the next.
MarkFails(s) ==
    /\ Faults
    /\ sch[s].pc = "mark"
    /\ UNCHANGED entries \/ SetStatus({Entry(s)} \cap Waiting, "promoted")
    /\ NextEntry(s, Entry(s), sch[s].seats)
    /\ UNCHANGED <<active, unfit, room, phase, join>>

EndPromote(s) ==
    /\ sch[s].pc = "try" /\ (sch[s].queue = {} \/ sch[s].seats = {})
    /\ Leave(s)
    /\ UNCHANGED <<entries, active, unfit, room, phase, join>>

\* One of the queries of the round fails: the session is passed over.
ListFails(s) ==
    /\ Faults
    /\ sch[s].pc \in {"wait", "queue"}
    /\ Leave(s)
    /\ UNCHANGED <<entries, active, unfit, room, phase, join>>

\* Mutant of ExpireOverdue: it expires the entries of today.
ExpireToday(s) ==
    /\ sch[s].pc = "expire"
    /\ SetStatus(IF phase = "begun" THEN Waiting ELSE {}, "expired")
    /\ Goto(s, "wait")
    /\ UNCHANGED <<active, unfit, room, phase, join>>

\* ExpireTick: res_date < CURRENT_DATE.
ExpireOverdue(s) ==
    /\ sch[s].pc = "expire"
    /\ SetStatus(IF phase = "over" THEN Waiting ELSE {}, "expired")
    /\ Goto(s, "wait")
    /\ UNCHANGED <<active, unfit, room, phase, join>>

\* The statement of ExpireTick fails, or the process stops.
RoundEnds(s) ==
    /\ Faults
    /\ sch[s] # Asleep
    /\ sch' = [sch EXCEPT ![s] = Asleep]
    /\ UNCHANGED <<entries, active, unfit, room, phase, join>>

-------------------------------------------------------------------------------
(* What goes on around the list: bookings by hand, rows that are closed, users *)
(* who are banned or sit elsewhere, seats and hours that change, and time.     *)

Reserve(u, seat) ==
    /\ Bookable(u, seat)
    /\ active' = active \cup {[user |-> u, seat |-> seat]}
    /\ UNCHANGED <<entries, unfit, room, phase, join, sch>>

Close(b) ==
    /\ active' = active \ {b}
    /\ UNCHANGED <<entries, unfit, room, phase, join, sch>>

TurnUnfit(u) ==
    /\ unfit' = IF u \in unfit THEN unfit \ {u} ELSE unfit \cup {u}
    /\ UNCHANGED <<entries, active, room, phase, join, sch>>

\* An administrator takes a seat out of service or back, moves the opening hours.
ToggleSeat(seat) ==
    /\ inService' = IF seat \in inService THEN inService \ {seat} ELSE inService \cup {seat}
    /\ UNCHANGED <<entries, active, unfit, open, phase, join, sch>>

MoveHours ==
    /\ open' = ~open
    /\ UNCHANGED <<entries, active, unfit, inService, phase, join, sch>>

TimePasses ==
    /\ phase # "over"
    /\ phase' = IF phase = "ahead" THEN "begun" ELSE "over"
    /\ UNCHANGED <<entries, active, unfit, room, join, sch>>

Init ==
    /\ entries = <<>>
    /\ active = {} /\ unfit = {}
    /\ inService = Seats /\ open = TRUE
    /\ phase = "ahead"
    /\ join = [c \in Clients |-> Nobody]
    /\ sch = [s \in Schedulers |-> Asleep]

RoundStep(s) ==
    \/ ListCandidates(s) \/ ListQueue(s)
    \/ Refuse(s) \/ MarkPromoted(s) \/ EndPromote(s)
    \/ ExpireOverdue(s)

Next ==
    \/ \E c \in Clients, u \in Users : JoinLook(c, u)
    \/ \E c \in Clients : JoinInsert(c)
    \/ \E e \in Ids : Cancel(e)
    \/ \E s \in Schedulers : RoundStep(s) \/ Book(s)
    \/ \E s \in Schedulers : BookingFails(s) \/ MarkFails(s) \/ ListFails(s) \/ RoundEnds(s)
    \/ \E u \in Users, seat \in Seats : Reserve(u, seat)
    \/ \E b \in active : Close(b)
    \/ \E u \in Restless : TurnUnfit(u)
    \/ \E seat \in Seats : ToggleSeat(seat)
    \/ MoveHours
    \/ TimePasses

Spec == Init /\ [][Next]_vars

\* The rounds go on. No step of theirs fails for ever: one that is due again and
\* again succeeds in the end.
FairSpec ==
    /\ Spec
    /\ \A s \in Schedulers :
         /\ SF_vars(ListCandidates(s)) /\ SF_vars(ListQueue(s))
         /\ SF_vars(Book(s)) /\ SF_vars(Refuse(s)) /\ SF_vars(EndPromote(s))
         /\ SF_vars(MarkPromoted(s)) /\ SF_vars(ExpireOverdue(s))

-------------------------------------------------------------------------------
(* Properties *)

\* Rows, and what requests and rounds hold in memory.
TypeOK ==
    /\ entries \in Seq(Entries) /\ Len(entries) <= MaxEntries
    /\ active \subseteq [user : Users, seat : Seats]
    /\ unfit \subseteq Users
    /\ inService \subseteq Seats /\ open \in BOOLEAN
    /\ phase \in Phases
    /\ join \in [Clients -> Users \cup {Nobody}]
    /\ sch \in [Schedulers -> Rounds]

\* First come, first served: a round that offers a seat to an entry has offered
\* one to all who came before and still wait, however the list changed since the
\* round read it and whatever other rounds do.
NoOvertaking ==
    \A s \in Schedulers : Trying(s) =>
        \A e \in Waiting : e < Entry(s) => e \in sch[s].tried

\* A user at the head of the queue who could sit is not passed over for ever: as
\* long as the same seats are free, one of them is given to somebody. (Who waits
\* for a time outside the opening hours cannot sit: he is refused in each round.)
HeadServed ==
    \A e \in Ids, F \in SUBSET Seats \ {{}} :
        ~<>[](/\ FreeSeats = F
              /\ e \in Heads
              /\ Bookable(entries[e].user, First(F)))

\* When the day is over nobody waits any more in the end, not even who joined
\* later or in the middle of a round.
Settled ==
    \A e \in Ids : phase = "over" /\ e \in Waiting ~> e \notin Waiting

===============================================================================
