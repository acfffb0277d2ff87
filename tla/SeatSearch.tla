------------------------------- MODULE SeatSearch -------------------------------
(***************************************************************************)
(* What the service reads off the seats and bookings of one room and day:  *)
(* the candidates of an allocation and their ranking (service/allocation.go*)
(* repository/seat.go), the cards of the assistant (service/ai.go), the    *)
(* heat map and the hours of the trend (repository/stats.go).              *)
(*                                                                         *)
(* A seat is [zone, power, window, status], a booking [seat, user, from,   *)
(* to, status]; times are counted in units of which an hour has HourLen. A *)
(* score is counted in parts of which a point has UtilDays.                *)
(***************************************************************************)
EXTENDS Integers, Sequences, FiniteSets, SequencesExt, FiniteSetsExt

CONSTANTS HourLen, UtilDays, TopN, MaxCards

ASSUME SearchAssumption == {HourLen, UtilDays, TopN, MaxCards} \subseteq Nat \ {0}

Active == {"pending", "checked_in"}              \* temp_leave counts as checked_in
Counted == {"completed", "checked_in", "violation"}     \* occupiedSQL

Overlap(b, from, to) == b.from < to /\ from < b.to

OfSeat(bookings, s) == {i \in DOMAIN bookings : bookings[i].seat = s}

\* ListByRoomWithOccupancy
Occupied(bookings, s, slot) ==
    \E i \in OfSeat(bookings, s) :
        bookings[i].status \in Active /\ Overlap(bookings[i], slot[1], slot[2])

-------------------------------------------------------------------------------
(* Allocation *)

\* The order of the queries: rows first, then columns.
Precedes(p, q) == p[1] < q[1] \/ (p[1] = q[1] /\ p[2] < q[2])

\* Mutant of ListCandidates: seats out of service are offered.
ListFree(seats, bookings, slot) == {s \in DOMAIN seats : ~Occupied(bookings, s, slot)}

ListCandidates(seats, bookings, slot) ==
    {s \in DOMAIN seats : seats[s].status = "available" /\ ~Occupied(bookings, s, slot)}

ZoneMatch == 30
PowerMatch == 25
WindowMatch == 15
UtilFactor == 20

\* Preferences: none, or what is asked for. busy: days of the last UtilDays - 1 in use.
Matches(seat, req) ==
    (IF seat.zone = req.zone THEN ZoneMatch ELSE 0)
    + (IF req.power /\ seat.power THEN PowerMatch ELSE 0)
    + (IF req.window /\ seat.window THEN WindowMatch ELSE 0)

Score(seat, req, busy, chance) == UtilDays * Matches(seat, req) - UtilFactor * busy + chance

\* The sort is stable: seats of one score stay in the order of the query.
Ahead(s, t, score) == score[s] > score[t] \/ (score[s] = score[t] /\ Precedes(s, t))

\* Mutant of ScoreCandidates: worst first.
ScoreAscending(cands, seats, req, busy, chance) ==
    LET score == [s \in cands |-> Score(seats[s], req, busy[s], chance[s])]
    IN [k \in 1..Cardinality(cands) |->
          CHOOSE s \in cands : Cardinality({t \in cands : Ahead(s, t, score)}) = k - 1]

\* Best first: the k-th has k - 1 candidates ahead of it.
ScoreCandidates(cands, seats, req, busy, chance) ==
    LET score == [s \in cands |-> Score(seats[s], req, busy[s], chance[s])]
    IN [k \in 1..Cardinality(cands) |->
          CHOOSE s \in cands : Cardinality({t \in cands : Ahead(t, s, score)}) = k - 1]

\* HasConflict, for the user.
HasBooking(bookings, u, slot) ==
    \E i \in DOMAIN bookings : /\ bookings[i].user = u /\ bookings[i].status \in Active
                               /\ Overlap(bookings[i], slot[1], slot[2])

\* AutoAllocate without AutoBook: the best TopN, nothing for who has a booking then.
\* That is not known when HasConflict is not answered: its error is ignored. Of the
\* hours of the room nothing is asked.
AutoAllocate(seats, bookings, u, slot, req, busy, chance, answered) ==
    LET cands == ListCandidates(seats, bookings, slot)
        scored == ScoreCandidates(cands, seats, req, busy, chance)
    IN IF answered /\ HasBooking(bookings, u, slot)
         THEN <<>> ELSE SubSeq(scored, 1, Min({TopN, Len(scored)}))

-------------------------------------------------------------------------------
(* The cards of the assistant *)

\* Mutant of SlotBookings: the first statuses only.
PendingOnly(bookings, u, slot) ==
    {i \in DOMAIN bookings : /\ bookings[i].user = u /\ bookings[i].status = "pending"
                             /\ Overlap(bookings[i], slot[1], slot[2])}

\* FindUserReservationInSlot: a completed booking counts, unlike in HasConflict.
SlotBookings(bookings, u, slot) ==
    {i \in DOMAIN bookings : /\ bookings[i].user = u /\ bookings[i].status \in Active \cup {"completed"}
                             /\ Overlap(bookings[i], slot[1], slot[2])}

\* Which of them the query returns (LIMIT 1) is not said. One that is not answered has
\* found nothing: its error is ignored.
Found(bookings, u, slot, answered) ==
    LET all == SlotBookings(bookings, u, slot)
    IN IF answered /\ all # {} THEN {{i} : i \in all} ELSE {{}}

\* One candidate, given the booking of the user that was found.
Card(seats, bookings, slot, found, s) ==
    LET mine == \E i \in found : bookings[i].seat = s
        taken == Occupied(bookings, s, slot)
    IN [seat |-> s, booked |-> mine, disabled |-> found # {} \/ (taken /\ ~mine),
        shown |-> /\ s \in DOMAIN seats /\ seats[s].status = "available"
                  /\ ~(taken /\ ~mine /\ found = {})]

\* validateRecommendations: each seat once, at most MaxCards.
Cards(seats, bookings, slot, found, proposed) ==
    LET add(cards, s) == LET c == Card(seats, bookings, slot, found, s) IN
            IF Len(cards) < MaxCards /\ c.shown /\ \A k \in DOMAIN cards : cards[k].seat # s
            THEN Append(cards, c) ELSE cards
    IN FoldLeft(add, <<>>, proposed)

-------------------------------------------------------------------------------
(* Statistics *)

\* generate_series from opening to an hour before closing.
Hours(room) == {h \in room.open..room.close - HourLen : (h - room.open) % HourLen = 0}

CountedBookings(bookings) == {i \in DOMAIN bookings : bookings[i].status \in Counted}

\* Mutant of Cell: a booking has to begin in the hour.
CellOfStart(bookings, s, h) ==
    \E i \in CountedBookings(bookings) : bookings[i].seat = s /\ bookings[i].from \in h..h + HourLen - 1

\* SeatHourOccupancy
Cell(bookings, s, h) ==
    \E i \in CountedBookings(bookings) : bookings[i].seat = s /\ Overlap(bookings[i], h, h + HourLen)

\* Mutant of UsedTime: it is not cut.
WholeTime(room, b) == b.to - b.from

\* UtilizationByDate: the time of a booking, cut to the opening hours of now.
UsedTime(room, b) == Min({b.to, room.close}) - Max({b.from, room.open})

Used(room, bookings) ==
    MapThenSumSet(LAMBDA i : UsedTime(room, bookings[i]), CountedBookings(bookings))
===============================================================================
