------------------------------- MODULE StatsCache -------------------------------
(***************************************************************************)
(* The cache beside the database (pkg/rediscache): the list of rooms and   *)
(* the statistics. A reader that finds no entry queries the database,      *)
(* several statements for a statistic, and stores the answer for a while   *)
(* (service/stats.go, ListRooms). A writer commits and then deletes: the   *)
(* list of rooms by its name, the statistics by a scan of their prefix     *)
(* that deletes in batches (service/seat.go, reservation.go, lifecycle.go).*)
(*                                                                         *)
(* A value is what it tells of the database: current, or superseded since  *)
(* so many ticks. With several statements it counts from the first. Some   *)
(* statistics are about the days before CURRENT_DATE (repository/stats.go):*)
(* midnight supersedes them, though nothing is written or deleted then.    *)
(***************************************************************************)
EXTENDS Integers, FiniteSets

CONSTANTS
    Rooms,          \* the key of the list of rooms
    Stats,          \* the keys of the statistics
    Daily,          \* those among them that depend on the current day
    Readers, Writers,
    RoomsTTL, StatsTTL,     \* longest life of an entry, jitter included
    JitterTTL,      \* an entry may end so many ticks earlier
    Batch,          \* keys one DEL takes
    CallTime,       \* bound: ticks between the first query and the end of a call
    Faults          \* commands of Redis may fail

ASSUME CacheAssumption ==
    /\ Rooms \notin Stats /\ IsFiniteSet(Stats) /\ Daily \subseteq Stats
    /\ RoomsTTL \in Nat /\ StatsTTL \in Nat /\ JitterTTL \in Nat
    /\ JitterTTL < RoomsTTL /\ JitterTTL < StatsTTL
    /\ Batch \in Nat \ {0} /\ CallTime \in Nat /\ Faults \in BOOLEAN

VARIABLES
    cache,      \* cache[k]: the entry of k: its value, and the ticks left (0: no entry)
    reader,     \* reader[r]: the key it computes, the value it read and its age
    writer,     \* writer[w]: the keys its scan has still to visit and has found
    excused     \* keys whose entry no deletion reached after it was superseded (history)

vars == <<cache, reader, writer, excused>>

Keys == {Rooms} \cup Stats
TTL(k) == IF k = Rooms THEN RoomsTTL ELSE StatsTTL

\* How long a value has been superseded, and the longest that matters.
Current == -1
MaxAge == CallTime + (IF RoomsTTL > StatsTTL THEN RoomsTTL ELSE StatsTTL)
Ages == Current..MaxAge

NoEntry == [age |-> Current, left |-> 0]
Hit(k) == cache[k].left > 0
Idle == [pc |-> "idle", key |-> Rooms, age |-> Current, ticks |-> 0]
Done == [pc |-> "idle", todo |-> {}, found |-> {}]

-------------------------------------------------------------------------------
(* Readers *)

\* Get finds nothing, or fails: the first query.
Query(r, k) ==
    /\ reader[r].pc = "idle"
    /\ ~Hit(k) \/ Faults
    /\ reader' = [reader EXCEPT ![r] = [pc |-> "store", key |-> k, age |-> Current, ticks |-> 0]]
    /\ UNCHANGED <<cache, writer, excused>>

\* Mutant of Serve: an entry that is served lives on.
ServeAndKeep(k) ==
    /\ Hit(k)
    /\ cache' = [cache EXCEPT ![k].left = TTL(k)]
    /\ UNCHANGED <<reader, writer, excused>>

\* Get finds an entry: it is served as it is.
Serve(k) ==
    /\ Hit(k)
    /\ UNCHANGED vars

\* Set, for the time of the key less the jitter. The value may be superseded by now.
Store(r) ==
    /\ reader[r].pc = "store"
    /\ \E left \in TTL(reader[r].key) - JitterTTL..TTL(reader[r].key) :
         cache' = [cache EXCEPT ![reader[r].key] = [age |-> reader[r].age, left |-> left]]
    /\ excused' = IF reader[r].age = Current THEN excused \ {reader[r].key}
                                             ELSE excused \cup {reader[r].key}
    /\ reader' = [reader EXCEPT ![r] = Idle]
    /\ UNCHANGED writer

\* A query fails, Set fails, or the caller leaves.
GiveUp(r) ==
    /\ Faults
    /\ reader[r].pc = "store"
    /\ reader' = [reader EXCEPT ![r] = Idle]
    /\ UNCHANGED <<cache, writer, excused>>

-------------------------------------------------------------------------------
(* Writers *)

Superseded(age) == IF age = Current THEN 0 ELSE age

\* The truth of the keys K changes: what is cached or computed is old.
Supersede(K) ==
    /\ cache' = [k \in Keys |-> IF k \in K /\ Hit(k)
                                  THEN [cache[k] EXCEPT !.age = Superseded(@)] ELSE cache[k]]
    /\ reader' = [r \in Readers |-> IF reader[r].pc = "store" /\ reader[r].key \in K
                                      THEN [reader[r] EXCEPT !.age = Superseded(@)] ELSE reader[r]]

\* CreateRoom, UpdateRoom, DeleteRoom: then Del of the list.
WriteRoom(w) ==
    /\ writer[w].pc = "idle"
    /\ Supersede(Keys)
    /\ writer' = [writer EXCEPT ![w] = [pc |-> "del", todo |-> Stats, found |-> {}]]
    /\ UNCHANGED excused

\* Mutant of Write: nothing is deleted.
WriteOnly(w) ==
    /\ writer[w].pc = "idle"
    /\ Supersede(Stats)
    /\ UNCHANGED <<writer, excused>>

\* Seats, bookings, requests of the lifecycle, a round of the scheduler.
Write(w) ==
    /\ writer[w].pc = "idle"
    /\ Supersede(Stats)
    /\ writer' = [writer EXCEPT ![w] = [pc |-> "scan", todo |-> Stats, found |-> {}]]
    /\ UNCHANGED excused

Drop(K) ==
    /\ cache' = [k \in Keys |-> IF k \in K THEN NoEntry ELSE cache[k]]
    /\ excused' = excused \ K

DelRooms(w) ==
    /\ writer[w].pc = "del"
    /\ Drop({Rooms})
    /\ writer' = [writer EXCEPT ![w].pc = "scan"]
    /\ UNCHANGED reader

\* The error of Del is ignored.
DelRoomsFails(w) ==
    /\ Faults
    /\ writer[w].pc = "del"
    /\ excused' = excused \cup {Rooms}
    /\ writer' = [writer EXCEPT ![w].pc = "scan"]
    /\ UNCHANGED <<cache, reader>>

\* The scan comes to a key, which may be there or not.
Scan(w, k) ==
    /\ writer[w].pc = "scan" /\ Cardinality(writer[w].found) < Batch
    /\ k \in writer[w].todo
    /\ writer' = [writer EXCEPT ![w].todo = @ \ {k},
                                ![w].found = IF Hit(k) THEN @ \cup {k} ELSE @]
    /\ UNCHANGED <<cache, reader, excused>>

BatchFull(w) == writer[w].todo = {} \/ Cardinality(writer[w].found) = Batch

\* Del of a full batch, and of the rest at the end.
Flush(w) ==
    /\ writer[w].pc = "scan" /\ BatchFull(w)
    /\ Drop(writer[w].found)
    /\ writer' = [writer EXCEPT ![w] = IF @.todo = {} THEN Done ELSE [@ EXCEPT !.found = {}]]
    /\ UNCHANGED reader

\* SCAN or DEL fails: DelPrefix returns and nobody looks at the error.
ScanFails(w) ==
    /\ Faults
    /\ writer[w].pc = "scan"
    /\ excused' = excused \cup writer[w].todo \cup writer[w].found
    /\ writer' = [writer EXCEPT ![w] = Done]
    /\ UNCHANGED <<cache, reader>>

-------------------------------------------------------------------------------
(* Time *)

\* Another CURRENT_DATE: the overview tells of the wrong days, and nothing is deleted.
Midnight ==
    /\ Supersede(Daily)
    /\ excused' = excused \cup Daily
    /\ UNCHANGED writer

Older(age) == IF age = Current \/ age = MaxAge THEN age ELSE age + 1

Tick ==
    /\ \A r \in Readers : reader[r].pc = "idle" \/ reader[r].ticks < CallTime
    /\ cache' = [k \in Keys |-> IF cache[k].left <= 1 THEN NoEntry
                                ELSE [age |-> Older(cache[k].age), left |-> cache[k].left - 1]]
    /\ excused' = {k \in excused : cache[k].left > 1}
    /\ reader' = [r \in Readers |-> IF reader[r].pc = "idle" THEN reader[r]
                     ELSE [reader[r] EXCEPT !.age = Older(@), !.ticks = @ + 1]]
    /\ UNCHANGED writer

Init ==
    /\ cache = [k \in Keys |-> NoEntry]
    /\ reader = [r \in Readers |-> Idle]
    /\ writer = [w \in Writers |-> Done]
    /\ excused = {}

WriterStep(w) == DelRooms(w) \/ Flush(w) \/ \E k \in Stats : Scan(w, k)

Next ==
    \/ \E r \in Readers, k \in Keys : Query(r, k)
    \/ \E k \in Keys : Serve(k)
    \/ \E r \in Readers : Store(r) \/ GiveUp(r)
    \/ \E w \in Writers : WriteRoom(w) \/ Write(w) \/ WriterStep(w)
    \/ \E w \in Writers : DelRoomsFails(w) \/ ScanFails(w)
    \/ Midnight
    \/ Tick

Spec == Init /\ [][Next]_vars

\* Time passes and calls end.
FairSpec ==
    /\ Spec /\ WF_vars(Tick)
    /\ \A r \in Readers : WF_vars(Store(r))
    /\ \A w \in Writers : WF_vars(WriterStep(w))

-------------------------------------------------------------------------------
(* Properties *)

\* Entries, and what readers and writers hold in memory.
TypeOK ==
    /\ cache \in [Keys -> [age : Ages, left : Nat]] /\ \A k \in Keys : cache[k].left <= TTL(k)
    /\ reader \in [Readers -> [pc : {"idle", "store"}, key : Keys, age : Ages, ticks : 0..CallTime]]
    /\ writer \in [Writers -> [pc : {"idle", "del", "scan"}, todo : SUBSET Stats, found : SUBSET Stats]]
    /\ excused \subseteq Keys

\* Nobody is shown what was superseded longer ago than an entry lives and a call
\* takes, whatever races with the deletions and whatever fails.
BoundedStaleness ==
    \A k \in Keys : Hit(k) => cache[k].age + cache[k].left <= TTL(k) + CallTime

\* Deletions work: an old entry that no writer is still to delete was computed before
\* the write and stored after it, or a command failed, or it tells of another day.
OnlyRacesSurvive ==
    \A k \in Keys : Hit(k) /\ cache[k].age # Current =>
        \/ k \in excused
        \/ \E w \in Writers : \/ k \in writer[w].todo \cup writer[w].found
                              \/ writer[w].pc = "del" /\ k = Rooms

Truth(K) == \A k \in K : Hit(k) => cache[k].age = Current

\* When nothing is written any more, what does not depend on the day is true in the
\* end, and for good. All the rest is true in the end as well, until the next midnight.
Converges ==
    /\ <>[][~\E w \in Writers : WriteRoom(w) \/ Write(w)]_vars => <>[]Truth(Keys \ Daily)
    /\ <>[][~(Midnight \/ \E w \in Writers : WriteRoom(w) \/ Write(w))]_vars => <>[]Truth(Keys)
===============================================================================
