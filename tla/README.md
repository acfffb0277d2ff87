# Smart study room: a verification project

The system under study is the booking service of a study room: a Go backend (Gin,
PostgreSQL, Redis) and a Vue client. Users book seats for slots of a day, sign in, leave
and return, check out or cancel; a scheduler closes what users leave open, promotes the
waiting list and expires it; a credit score pays for good use and bans those who do not
show up. This directory holds TLA+ models of its core, the TLC runs that check them on
small instances, and TLAPS proofs for all values of the constants. Paths below are
relative to `src/backend/internal/` unless they begin with `src/`.

## 1. The system

| component | state it keeps | operations | talks to |
|---|---|---|---|
| Booking engine (`service/reservation.go`, `migrations/001_init.sql`) | rows of `reservations`, lock keys in Redis | `CreateWithSource` (by hand, by allocation, from the waiting list) | distributed lock, seats, users, table constraints |
| Reservation lifecycle (`service/lifecycle.go`, `repository/reservation.go`) | `status`, `checkin_at`, `leave_at` of a row | `Checkin`, `Leave`, `ReturnBack`, `Checkout`, `Cancel`; the scans `ExpireNoShows`, `AutoCompleteTimeout`, `EndTempLeaveTimeout` of `Tick` | credit, notifications |
| Credit (`service/credit.go`, `repository/credit.go`) | `credit_score`, `credit_banned_until`, `credit_logs` | `ApplyDelta` through `OnViolation`, `OnLateCancel`, `OnComplete` | called by the lifecycle, read by booking |
| Distributed lock (`pkg/redissync`) | a key with a lease in Redis, a renewal goroutine | `TryLock`, `Renew`, `StartAutoRenew`, `Unlock` | Redis |
| Scheduler (`service/scheduler.go`) | the leader lock of a round | every minute: `Tick`, `PromoteTick`, `ExpireTick` | lifecycle, waiting list, lock |
| Waiting list (`service/waitlist.go`) | rows of `waitlist` | `Join`, `Cancel`, `PromoteTick`, `ExpireTick` | booking engine |
| Statistics and cache (`service/stats.go`, `pkg/rediscache`) | cached aggregates with a TTL | read-through, `Invalidate` after a booking | Redis, SQL |
| Rooms and seats (`service/seat.go`) | `rooms`, `seats`, the cached list of rooms | CRUD, generation of a grid of seats, cascading deletes | cache |
| Allocation (`service/allocation.go`) | none | scores the candidate seats, books the best | booking engine |
| Authentication (`service/auth.go`, `middleware/auth.go`) | `users`, the blacklist of tokens | `Register`, `Login`, `Logout`, the middleware | Redis |
| Rate limit (`middleware/ratelimit.go`) | a counter per client and window | the middleware | Redis |
| AI assistant (`service/ai.go`, `service/ai_client.go`) | conversations, messages with a status | `Chat`, streaming, tool calls | an external model |
| Notifications (`service/notification.go`) | rows, read flags | `Push` (best effort), mark as read | all services |
| HTTP handlers, start-up, web client, scripts | none that outlives a call (client: its stores) | bind, call one service, map errors | |

**How they interact.** A request is a goroutine. It reads the database, decides, and
writes with a statement whose `WHERE` repeats part of what it read; several effects of
one request (row, credit, notification, cache) are separate transactions. Any number of
instances of the service run at once over one PostgreSQL and one Redis. Redis is an
optimisation: bookings go on without its locks, and only the exclusion constraints of
the table are promised to hold.

**What is hard here, and what correct means.**

* *Lifecycle.* Five requests and three scans of possibly several schedulers race for one
  row, each on what it read before; statements fail, answers get lost, the process dies
  between the row and the credit. Correct: one outcome that never changes, at most one
  change of credit and of the right amount, a used reservation was signed in within its
  window, and every reservation is closed in bounded time.
* *Booking.* Requests hold or lack locks in every combination; clients leave while
  statements are under way. Correct: no seat and no user is booked twice for overlapping
  times, requests do not refuse each other for nothing, everyone is answered, a handler
  that came back holds no lock.
* *Leader.* Renewals, releases and the answer to `TryLock` travel while leases run out.
  Correct: a late command never touches another's lease, a round renewed in time has the
  key, rounds go on.
* *Credit.* Long sequences of changes with a clock in between. Correct: the score is
  what its log explains, a low score carries a ban, a running ban stands.
* *Waiting list.* A round works through a queue and seats it read before, while entries
  come and go, seats and opening hours change, other rounds run and statements fail.
  Correct: nobody is overtaken, a head of the queue who could sit is served, nobody
  waits for a day that is over.
* *Cache.* A value is computed from several queries while writers commit and delete, in
  batches, with errors nobody looks at. Correct: nobody is shown what is older than an
  entry lives and a call takes; only a race, a failure or midnight leaves an old entry;
  the cache tells the truth when writes stop, of the current day until it ends.
* *Sessions and rate limit.* A session is a signed token, its end a key in a Redis that
  may be out of reach; logins are under way while accounts are disabled. Correct: a
  confirmed logout lasts, a disabled account is out within the life of a token, at most
  twice the limit passes in a window, nobody is kept out for ever.
* *Assistant.* Two tabs ask in one conversation, leave in the middle, delete it; the
  stream, the database and the process fail, and what was sent to the database may be
  carried out later. Correct: the model is told what was said, an ended answer is final,
  answers end, and only a call that was broken off forgets one.
* *Floor.* Seats, opening hours and bookings change under everything that is read off
  them, and a query whose error is dropped finds nothing. Correct: one grid of seats,
  offers of free seats in the order asked for, cards that can be booked if the time is
  within the hours, statistics that agree with the bookings.

## 2. Modules

| module | models | checked by |
|---|---|---|
| `ReservationOutcome` | abstract: opened once, closed once, credited at most once | refined by the next |
| `ReservationLifecycle` | requests, scans, hooks, failures, crashes | `lifecycle_one`, `lifecycle_credit_lost` |
| `TimelyScheduler` | the same with a scheduler that is away for a bounded time | `timely_midnight` |
| `SeatLedger` | abstract: claims that never clash | refined by `BookingEngine`, and by `Waitlist` (proof) |
| `BookingEngine` | `CreateWithSource` step by step, two locks, constraints | `booking_faults`, `booking_shield` |
| `SchedulerLeader` | `redissync` as the scheduler uses it | `leader_rounds` |
| `CreditLedger` | `ApplyDelta` and the ban | `credit_rules` |
| `Waitlist` | `Join`, `Cancel`, `PromoteTick`, `ExpireTick` around one session | `waitlist_rounds` |
| `RateLimit` | one counter of the limiter | `sessions` |
| `Sessions` | accounts, tokens, blacklist; extends `RateLimit`, which guards its login | `sessions` |
| `StatsCache` | cached rooms and statistics, their readers and writers | `stats_cache` |
| `AIChat` | conversations, messages, calls of `Chat` | `chat` |
| `SeatSearch` | operators: candidates and scores, cards, cells and hours | `floor` |
| `Floor` | the room, its seats and bookings, as `SeatSearch` sees them | `floor` |

`MC*` modules hold the instances; `*Proofs` modules hold the theorems
(`ReservationLifecycleProofs` those about `TimelyScheduler` too, `SessionsProofs` those
about `RateLimit`, `FloorProofs` those about `SeatSearch`, `Floor` and `StatsCache`).

**ReservationLifecycle.** `req[w]` is the request a handler goroutine has in progress:
*read* (`getOwned` done, status seen), *write* (clock looked at, about to `UPDATE`),
*credit* (row written, credit not). `GetOwned` may be followed by anything before
`LookAtClock` and `UpdateStatus`, whose guard is the `WHERE id = $1 AND status = ANY` of
the statement and nothing else. `sch[s]` is the scan of `Tick` done last and the rows it
returned whose hooks have not run. Several schedulers are allowed because the leader
lock does not exclude them: a renewal that fails once is not tried again while the round
goes on. `RequestFails`, `HookFails` and the alternatives inside `Scan` are a statement
that fails before or after it took effect; `Crash` forgets what was in memory. The clock
of the process and that of the database are one, and a booking appears before its start
(the lead time is much longer than a request).

**TimelyScheduler.** The lifecycle, with the time of the last round and a longest time
`MaxGap` between two. `OutageAssumption` bounds it: the scans look at rows of today and
yesterday only (`res_date >= CURRENT_DATE - 1`), so a scheduler that is away over two
midnights never closes what it missed, and nothing can be promised then.

**BookingEngine.** `pc[q]` walks through `CreateWithSource`; a lock is a key that holds
the request, `Free`, or `Orphan` (set by a `TryLock` whose answer was lost). What the
code does then depends on the client of Redis, which repeats a command that got no
answer (`repository/redis.go:14` leaves `MaxRetries` at its default): the handler goes
on without the key when every attempt fails, and is refused by its own key when a second
`SET NX` is answered (`ownKey`, "busy" to its caller). Statements run under the context
of the request (`handler/reservation.go:33`). A client that leaves ends the handler at
its next statement, or in the middle of one (`StatementFails`, `LeftAtUserLock`,
`LeftAtSeatLock`); the deferred Unlocks use a context of their own and still run.
`running` are the `INSERT`s whose handlers came back, or died, without seeing their end:
the server may commit one at any later time (`LateInsert`), and `late` marks the rows
that came so. `Refused` is what the two `EXCLUDE` constraints say. `MayLapse` says whose
lease may end: with `LeasesLapse`, also one of a live handler. `SeatOut`, `Ban` and
`LeadTimeEnds` change what was read before the locks.

**SchedulerLeader.** Time is what is left of a lease and how long until the next
renewal; a renewal is a command in flight that may outlive its round. `TryLock` sets the
key, `HearTryLock` is the arrival of its answer, at which the round begins and
`StartAutoRenew` makes its ticker; `lag` is how late it came. Until then the command may
be sent again (`TryLockAgain`), which meets the key of the first attempt, or sets it
anew when its lease is over; and one that was given up may still arrive
(`AbandonedTryLock`). With `Stalls` anything may be slower than the lease.

**CreditLedger.** `ApplyDelta` is one transaction that starts with the `UPDATE` of the
user's row, which locks it for the rest: one step. The rules are constants.

**Waitlist.** One session (room, date, time) with its entries in the order of
`created_at`; an `INSERT` takes effect at its `created_at`. `join[c]` is a `Join`
between its look (`HasWaitingSameSlot`) and its insert. `sch[s]` is a round: the seats
and the queue it has read and not used up, and the entries it has offered a seat to. A
booking is one step here, what `BookingEngine` implements: `Bookable` is what
`CreateWithSource` demands, and `BookingFails` what it may do for other reasons (a lock
taken, an error before or after the row was written). The seats a round reads
(`FreeSeats`) come from a query that looks at the status of seats and at bookings;
opening hours (`open`) are looked at by `CreateWithSource` only, so the head of a
session outside them is refused in every round. `MarkPromoted` is the conditional update
whose result the code ignores. Around it, seats are booked by hand and freed, users
become unfit (banned, or seated elsewhere) and fit again, seats leave and return to
service (`ToggleSeat`), opening hours move on and off the session (`MoveHours`), and
time passes. A round passes over a session whose query fails (`ListFails`), and
`RoundEnds` is a crash, or a failure of the `UPDATE` of `ExpireTick`. The preferences of
an entry (zone, power, window) do not occur: `PromoteTick` never reads them.

**Sessions and RateLimit.** A token is its account and the ticks it has left: `iat` and
`exp` are whole seconds and nothing else tells two tokens of an account apart, so two
logins in one second are one session. `call[c]` is a request between its read and its
write; a logout keeps the time its token had left when it looked (`remaining`), and sets
a key that lives so long. `Accepted` is the middleware, which lets everybody through
while Redis does not answer (`redis`). `off[a]` counts how long an account has been
disabled. The limiter is one script, hence one step; `passed` remembers the requests of
the last window, how long ago each passed and with which number of its counter.

**StatsCache.** A cached value is how long ago it was superseded (`Current`, or ticks),
so the data is abstracted to its age. `reader[r]` has queried and not stored yet; a
write ages what is cached and what readers hold, and then deletes: the list of rooms by
its name, the statistics by `SCAN` and `DEL` in batches (`todo`, `found`). A statistic
takes several queries; its age counts from the first. Get, Set, Del and Scan may fail.
What is about the current day (`Daily`: the overview, the utilisation of the last days)
is superseded at `Midnight` as well, when nobody deletes anything.

**AIChat.** `message` is the table by id; `chat[t]` the call of `Chat` that tab `t`
waits for, statement by statement; `away` the tabs whose client has left, which cancels
the context of every statement but the one that marks an answer failed. A call that ends
in an error leaves its answer as it is (`BreakOff`). The statement it was in may have
been sent: `running` are those the server may still carry out, an `INSERT` of a question
or of the row of an answer (`LateInsert`) or an `UPDATE` (`LateUpdate`); one that took
effect at once and lost its answer is one that is carried out next. `dropped` are the
answers that still stream although their call is over, those no call ever knew of
included. Roles, texts and titles do not occur; the context a call reads is the set of
ids `ListMessages` returns (their order, which is that of the ids, decides nothing).

**SeatSearch and Floor.** `SeatSearch` defines what is read off seats and bookings: the
candidates and their score (counted in sevenths of a point, so that popularity and the
random part are whole numbers), what `validateRecommendations` makes of the proposals of
the model, the cells of the heat map and the hours of the trend. `LIMIT 1` without an
order is any row (`Found`). `AutoAllocate` and `Found` take a parameter `answered`,
whether the query for the user's own bookings succeeds, because their code drops its
error. Neither looks at the opening hours; `Bookable` of `Floor`, what
`CreateWithSource` demands, does. The stable sort of `ScoreCandidates` is stated by
ranks: the k-th seat is the one that k - 1 candidates are ahead of, by score and then by
the order of the query (`Ahead`, `Precedes`); that this names each seat once is a lemma
(`RankingSorts`). `Floor` produces every room, grid and set of bookings these can meet:
`BatchGenSeats` counts and `BatchCreate` inserts in a step of its own, `DeleteSeat`
takes the bookings along, opening hours move. Bookings come by the rules of
`BookingEngine` and end by those of `ReservationLifecycle`, in one step each. Its
specification is `FloorSpec`, its type invariant `FloorTypeOK`, so that one module can
reason about it and about `StatsCache`.

## 3. Runs

| run | instance | shows |
|---|---|---|
| `lifecycle_one` | 1 reservation, 2 requests, 2 schedulers, faults, slot [2,4) of quarter hours, clock to 6 | `CreditOnce`, `OneOwes`, `Attendance`, `ImplementsOutcome` |
| `lifecycle_credit_lost` | 1 request, 1 scheduler, faults, fair | violated: `CreditSettles` |
| `timely_midnight` | a slot up to midnight, rounds at most a day (6 units) apart, clock to 14 | `SeatReleasedInTime`, `EventuallyClosed`, `CreditSettles` |
| `booking_faults` | 2 requests of 1 or 2 users for 1 seat and slot; Redis, leases, statements and handlers fail; fair | `ImplementsLedger`, `SomeoneWins`, `EveryoneAnswered` |
| `booking_shield` | 2 requests, 2 users, 2 seats, 2 overlapping slots; Redis works, clients leave, handlers die, seats and users change | `UserConstraintIsBackstop`, `NothingLeftBehind` |
| `leader_rounds` | 2 instances, 4 tokens, lease 3, renewal 1; everything fails; fair | `RenewedHasKey`, `LeaseIsPrivate`, `RoundsGoOn` |
| `credit_rules` | 5 points, threshold 3, -2, -1, +1, ban of 2, clock to 6, 7 changes | `ScoreMatchesLogs`, `LowScoreHasBan`, `BanStands` |
| `waitlist_rounds` | 2 users, one of them at times unfit, 1 seat, 2 entries, 1 request, 1 scheduler, seats and hours change, faults, fair | `NoOvertaking`, `HeadServed`, `Settled` |
| `sessions` | 1 name, 2 calls at a time of up to a tick, tokens and counters of 2 ticks, limit 2; Redis comes and goes; fair | `OutStaysOut`, `DisabledLeaves`, `AtMostTwice`, `LetInAgain` |
| `stats_cache` | the list of rooms and 2 statistics, one of them about the day, of 2 ticks less up to 1, 1 reader, 2 writers, batches of 1, faults, fair | `BoundedStaleness`, `OnlyRacesSurvive`, `Converges` |
| `chat` | 1 user, 2 tabs, 2 conversations, 4 messages, a context of 2, a statement that outlives its call, faults, fair | `ContextSound`, `Attended`, `AnswerIsFinal`, `AnswersEnd` |
| `floor` | 2 administrators, 2 users, grids of 1x2 and 2x1, days of 4 or 3 half hours, slots [0,2) and [1,4), 2 bookings, 2 requests, offers and cards of up to 2 | `OneGrid`, `BestFirst`, `CardsBookable`, `StatisticsSound` |

**Bounds.** Rows of the lifecycle do not interact (statements name one id, a batch acts
on each of its rows alone, hooks are one per row), so one reservation is enough for the
races; two requests and two schedulers give every pair of racing actors, and the
theorems hold for any number. The clock passes every threshold the code compares with
(window, grace, end, temporary leave, midnight and, in `timely_*`, the day after). Two
requests are enough for the pairwise properties of booking, and `SomeoneWins` is proved
for any number of them. In `leader_rounds` four tokens leave a fresh one while three
commands are in flight. In `waitlist_rounds` two entries make a queue, both may belong
to one user or to two, and a round reads both. What concerns more entries than a round
reads and several schedulers is `NoOvertaking`, which is proved for any number. Only one
of the two users may turn unfit there (`Restless`): the other then shows what becomes of
a queue whose head cannot sit, and who is head is up to the order of joining. Seven
changes of credit within six ticks go through ban, expiry, recovery and a second fall.
In `sessions` a token, its key and a counter each outlive a call and end; two calls are
enough for a login and a logout, or two registrations, to race. In `stats_cache` one
reader is caught between the deletions of two writers; readers only meet in an entry,
and a second one adds no step between them. A batch of one key makes a deletion take
several steps. One statistic depends on the day and one does not, so that midnight meets
both. In `chat` four messages are two questions with their answers, in one conversation
or two, and a context of two cuts the oldest off. One statement at a time outlives its
call there (`MaxRunning`): late statements meet in a row only if they would write the
same row, and of one row there is one call and hence one such statement; the theorems
hold for any bound. In `floor` the grids overlap in one place, the slots overlap each
other, one is not a multiple of an hour, and one of the days ends within one; the
invariants quantify over every request, popularity, chance and slot in each state.
`UpdateSeat` is asked for a status only there.

`CHECK_DEADLOCK FALSE` appears where the model does stop: all requests answered, the
clock and the log at their bounds, every conversation used and deleted.

**Fairness.** A goroutine that serves a request keeps running (`WF` of its next step);
the ticker of the scheduler keeps firing; time passes; a key nobody renews goes away
(Redis ends its lease, `FairSpec` of `BookingEngine`); of a statement that outlives its
call nothing is assumed; a Redis that is up sets the key of some `TryLock` and answers
it in the long run (`SF`, because answers may be lost any finite number of times); in
the waiting list no step of a round fails for ever (`SF` of each), which a working
database justifies. A call of the assistant goes on (`WF`), because its stream has a
time limit, and returns when its client has left. A deletion or a `Set` of the cache
happens or fails. No fairness is assumed of users, failures or crashes. In
`TimelyScheduler` time is strongly fair since a round in progress disables it.

**What the violation says.** The credit of a closed row is a transaction of its own: a
failure in between loses it (`lifecycle_credit_lost`; `lifecycle.go:203`).

**Where the code does less than a text beside it says,** and a property states what the
code does (listed as findings too):

* `Attendance`: a cancelled reservation was never signed in, since `Cancel` takes
  pending rows only (`service/reservation.go:241`, as `src/docs/02_需求规格说明书.md:367`),
  where `src/backend/migrations/001_init.sql:88` has checked-in rows cancelled too.
* `BanStands`: a reward does not end a ban that is running (`repository/credit.go:62`
  clears those that are over), where the comment at `repository/credit.go:59` speaks of
  lifting one early.
* `LowScoreHasBan`: below the threshold there is a date of a ban, running or over. A ban
  that is over but was not cleared by a reward suppresses the next one
  (`repository/credit.go:54`), where `src/docs/04_详细设计说明书.md:189` has every fall below
  the threshold start three days.
* `CardsBookable`: the cards of the assistant are not checked against the opening hours,
  and the error of the query for the user's bookings is dropped (`service/ai.go:206`,
  `:211`), where `src/docs/04_详细设计说明书.md:284` names the hours first.
* `BestFirst`: an allocation checks the format of the slot only, and drops the error of
  `HasConflict` (`service/allocation.go:106`, `:127`), where the comment at `:105`
  promises the checks of credit and room of a booking.

**Seen while modelling** and not the subject of a run:

* Lifecycle and scheduler: the scans look at today and yesterday, so what an outage of
  more than a day leaves open stays open (`repository/reservation.go:205`;
  `src/docs/03_概要设计说明书.md:307` says that a restart recovers). `Cancel` never compares
  the clock with the start (`service/reservation.go:241`), so a user who did not show up
  can still cancel until the scan. The renewal of the leader lock stops at the first
  failure and the round goes on, so two rounds can overlap (`lock.go:113`;
  `src/docs/04_详细设计说明书.md:291` has a single one); the lifecycle tolerates that, which is
  why its run has two schedulers. When Redis goes away at run time rounds are skipped
  rather than run without the lock (`service/scheduler.go:47`).
* Booking: the seat lock is keyed by the exact slot (`service/reservation.go:156`) where
  `src/docs/04_详细设计说明书.md:118` gives seat and date, so overlapping slots of two users
  meet only at the constraint. When the answer to a `SET NX` is lost and the client of
  Redis sends it again, a lone request is turned away by its own key and told to try
  again (`service/reservation.go:143`, `:161`), until the lease of thirty seconds is
  over; `SomeoneWins` leaves such requests out. A row whose `INSERT` was committed after
  its client had left may refuse the next request of the same user at the constraint
  (`UserConstraintIsBackstop` names these rows).
* Waiting list: two requests of one user both find no waiting entry and both insert one
  (`service/waitlist.go:47`; `src/docs/04_详细设计说明书.md:198` allows one). A round reads the
  first three of a queue only (`service/waitlist.go:137`), so three who cannot book hold
  up everybody behind them, where `src/docs/04_详细设计说明书.md:204` says that a blocked head
  does not; `Join` takes times outside the opening hours (`service/waitlist.go:42`), and
  who waits for one is offered a seat and refused in every round until the day is over;
  the preferences of an entry are not looked at; an entry cancelled after its queue was
  read is booked for all the same.
* Sessions: disabling an account does not end its sessions, where
  `src/docs/04_详细设计说明书.md:77` and `:88` have them revoked at once; `DisabledLeaves` says
  how long they last. Two administrators can disable each other.
  `src/docker-compose.yml:54` lets Redis evict keys with a life when memory is short,
  the blacklist included; the model's Redis keeps them. Of two registrations of one name
  the loser gets the error of the constraint, an answer 500.
* Statistics: if the rooms have no seats the utilisation is NULL and reading it fails
  (`repository/stats.go`, `UtilizationByDate`); opening hours that shrink below a
  booking give negative hours; a seat that was left early and booked again counts twice;
  the capacity counts every seat, where `src/docs/02` counts available ones; the heat
  map leaves out the last part of an hour; starts before 07:00 do not show in
  `PeakHours`. `TrendCounts` states the second and third as they are: the hours are
  those of the bookings within the opening hours, less how far the hours were moved off
  a booking, and they are what the seats were taken if no seat was booked twice for one
  time. After midnight the overview shows the day before for as long as its entry lives
  (`repository/stats.go:183`).
* Allocation: the occupancy of "seven days" leaves out today, so at most six of seven
  days count; when the best seat cannot be booked the second is not tried; the 15 points
  of a window can be outweighed by popularity (20), the 25 and 30 of power and zone
  cannot, which is how `BestFirst` is stated.
* Assistant: an answer stays "streaming" for ever when its client leaves at `onMeta`,
  `onCards` or the last `UPDATE`, when its `INSERT` was carried out though it returned
  an error (`service/ai.go:122`), or the process ends (`dropped`). Cards are disabled
  for a user whose booking of that time is completed though he could book again. Of
  several calls of `recommend_seats` the client is sent the cards of the first
  (`service/ai.go:151`), a reload shows those of the last (`service/ai.go:68`).

## 4. Proofs

Every theorem is for all values of the constants that the named assumptions of the
component's module allow. Each proof finds an inductive invariant, shows that `Init`
establishes it and every action keeps it, and derives the property from it.

*ReservationLifecycleProofs* (`ResAssumption`, `TimingAssumption`). Type correctness
stands on its own. `CreditOnce` is not inductive: whether a credit change is the second
one depends on who still owes one. `CreditInv` is `TypeOK`, `CreditOnce` and `OneOwes`:
at most one goroutine (a request in *credit*, a scan with its hook to run) owes the
credit of a closed row, and then the log is empty. From it follow `CreditSafe` and
`OwedOnce`. `AttendanceInv` adds to `Attendance` that the instant a check-in carries
from its look at the clock to its `UPDATE` lies in the window, and gives
`AttendanceSafe`. `Implementation` shows that each step of the lifecycle is a step of
`ReservationOutcome` or leaves it unchanged. `TimelyImplements`: what holds of the
lifecycle holds with a timely scheduler. `ReleasedInTime` (`GapAssumption`,
`OutageAssumption`) assumes `~Faults`, because the `UPDATE` of a scan that fails leaves
its rows to the next round. It needs to know when the last round began and what it has
done by now (`ReleaseInv`): after its first scan no row is pending past its grace at
that time, after its second none is open past its slot (`RoundDone`), while the clock
stands still (`LastRound`); and that the rows it is late for are of today or yesterday
(`LateIsRecent`).

*BookingEngineProofs* (`BookingAssumption`, `FreeAssumption`). `LedgerImplemented`: the
constraints alone make the active rows a `SeatLedger`, whatever locks, leases and
handlers do, and `NoDoubleBooking` follows from the abstract steps alone. `UserShield`
assumes `~RedisFails` and `~LeasesLapse` and needs `ShieldInv`: a request past its user
lock has the key of that user and day, so no row of theirs can have been inserted since
its precheck but a late one, whose handler saw no end of its `INSERT`.
`NothingLeftBehindSafe` assumes `~RedisFails`; its `KeyInv` says at which steps a
request has its keys, and that one which is over and did not die has none.
`SomeoneWinsSafe` needs no ranking of who waits for whom, because nobody waits: a
refused request goes away. `WinInv` says that behind a lock that is taken, or a request
that was refused for one, there is a request that has come further, and behind a
conflict or a late row one that has booked or was broken off (in an error, dead, or
turned away by a key of its own). Such causes last (`NobodyFallsBack`), and when all are
over they have booked.

*SchedulerLeaderProofs* (`LeaseAssumption`). `RenewedHasKey` needs `LeaseInv`: types,
that no two rounds have one token (`Distinct`), and that a round still waiting for the
answer to `TryLock` has what is left of its lease (`TriedHasKey`); a lease is then
extended by its own round only and lasts longer than the renewal that is due. An answer
that came later than the lease bears is excluded by `Renewed`: such a round may run
beside the next holder until its first renewal. `RenewedLeadsAlone` follows since a key
has one value. `LeadsAlone` assumes `~RedisFails` and `~Stalls` (a Redis that fails lets
two rounds overlap) and adds to the invariant that every round that is on has the key
(`EveryLeaderHasKey`). `LeaseKept` is the action property, from the same invariant.

*CreditLedgerProofs* (`CreditAssumption`). `LowScoreHasBan` is inductive with the types;
`BanStands` follows from the one action. `ScoreMatchesLogs` computes a score from the
log by a fold; that the fold of a longer log is one step more cannot be proved by
induction here. `LogInv` therefore carries, with the equation, that exactly one function
satisfies the equations of the fold on the log so far (`Replayable`); `ReplayAppend`
extends that function by one entry, and the unique value follows.

*WaitlistProofs* (`WaitAssumption`). `NoOvertaking` compares what a round holds with a
list that changes under it. `OrderKept` says for every entry the round has still to try
that whoever waits before it is also still to be tried, or has been; that who joins
later comes later, and that the heads of a queue are closed under "before" (a
cardinality argument), make it inductive. `WaitInv` adds the types, which need it: the
entry a round books for is a row. `LedgerImplemented` shows that the bookings a round
makes, beside those by hand and those whose answer was lost, are steps of the
`SeatLedger` that `BookingEngine` implements, with the session as its one slot.

*FloorProofs* (`SearchAssumption`, `FloorAssumption`). The invariants of `Floor` say of
every state that answers computed from it are right, so what the proofs need is mostly
about the operators of `SeatSearch`, for any finite set of seats (`FiniteRoom`).
`OneGrid` needs `GridInv`: as long as no first seat was deleted, a room with seats has
one, and a second grid collides there. `BestFirst`: `RankingSorts` shows that ranks
order the candidates, each once, and `PreferenceDecides` that a preference of 25 points
is worth more than popularity (20 at most, times six sevenths) and a random point
together. `CardsBookable` is a fold over what the model proposes; as for the credit log,
its function is shown to exist for every length by induction over a set of lengths
(`FoldsExist`), and to keep the cards well shown at each step. `StatisticsSound`:
`HeatmapTells` is arithmetic with hours of any length. `TrendTells` shows that the sum
over bookings is the number of units of time they have within the hours, less those
between them and hours that were moved off them (`UsedIsTimes`, by induction over the
set of bookings, with `TimeOfOne` for one and `TimesAdd` for the next); and that without
a seat booked twice for one time the first number counts pairs of a seat and a unit of
time (`SatIsTaken`).

The same module proves what holds of `StatsCache` (`CacheAssumption`), the cache in
front of such answers. `BoundedStaleness` is not inductive: what a reader stores is as
old as the reader let it become, so the invariant bounds the age of a value that is held
by the ticks of its call. `OnlyRacesSurvive` needs the types, and that a writer that is
not at work has nothing left to visit or to delete; the entries about the day are
excused from midnight on until they are stored anew or deleted.

*SessionsProofs* (`SessionAssumption`, `LimitAssumption`). `OutStaysOut` is inductive
with the types, because what is left of a token when its key is set is at most what was
left when the logout looked. `DisabledLeaves` needs `LoginsYoung`: the account of a
login in progress was disabled after the login began, if at all. The steps of the
limiter occur in these proofs only by what they leave alone. `AtMostTwice` counts a set
that forgets by age: `CounterInv` says that the requests of a window that passed belong
to the present counter or to the one before, and that those of one counter have
different numbers up to `Limit`, so that each of the two sets injects into `1..Limit`.

*AIChatProofs* (`ChatAssumption`). The invariant adds to the types the shape of a call
(which of its fields are set at which statement), `OwnAnswers`: no two calls have one
answer, and the answer of a call in progress still streams or is gone, and `LeftBehind`:
an `UPDATE` that outlived its call is the only one for its row, which no call in
progress has as its answer and which still streams or is gone. `NoneForgotten` follows;
`AnswersStay` is the action property, row by row. `ToldSafe` needs more than
`ContextSound` says, since that is about the table of now and the context was read
before: rows never change their conversation and what is complete stays so (`RowStays`),
the messages after the question only grow in number (`LaterGrows`), and a message that
is gone went with its conversation (`GoneForGood`), so the query finds the question or
nobody's conversation. `LastFew` is the lemma about the selection: the latest `Limit` of
a finite set of ids contain the question unless `Limit` others are later.

**Only model-checked.** Every invariant the runs check, and every action property, is
stated by a theorem. Liveness (`EventuallyClosed`, `CreditSettles`, `EveryoneAnswered`,
`RoundsGoOn`, `HeadServed`, `Settled`, `LetInAgain`, `Converges`, `AnswersEnd`) is out
of the prover's reach: it needs `ENABLED` of actions under fairness. So is induction
with the property as a parameter, which the theorems about folds do without, as said
above. `SeatReleasedInTime` is proved and checked without faults only.

## 5. Plan

Done: the modules above, in the order lifecycle, booking, leader, credit, waiting list,
cache, sessions and limiter, assistant, seats with what is read off them. Next, most
important first:

1. A queue longer than `PromoteTryCount`, and several sessions in one round.
2. Seats and rooms that are deleted while requests for their bookings are in progress:
   the cascade against `BookingEngine` and `ReservationLifecycle`.
3. A composition of lifecycle, booking, credit and waiting list through their abstract
   specifications, with notifications.
4. The counts of `PeakHours`, `TopSeats` and `TodaySummary`; the assembly of tool calls.
5. With 2. and 3., the theorems that those compositions call for.

**Not modelled.** Notifications are inserted after the fact, their errors are logged,
and no part decides on them. Request binding and error mapping of the handlers, reading
of the environment, the views of the web client and its 3D seat map, scripts and
deployment keep no state on the server whose interleavings matter.
