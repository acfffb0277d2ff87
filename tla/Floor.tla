---------------------------------- MODULE Floor ----------------------------------
(***************************************************************************)
(* One room on one day: its opening hours, its seats and the bookings of   *)
(* them, as the administrators change them (service/seat.go) and as what   *)
(* is read off them (SeatSearch) sees them. Bookings come and end by the   *)
(* rules of BookingEngine and ReservationLifecycle, here in one step each. *)
(***************************************************************************)
EXTENDS SeatSearch

CONSTANTS
    Admins, Users,
    Grids,          \* the rows and columns BatchGenSeats is asked for
    OpeningHours,   \* the hours UpdateRoom is asked for
    Slots,          \* the times that are booked and asked for
    Requests, Busy, Chance,     \* of an allocation: preferences, busy days, random points
    Proposals,      \* what the model proposes: sequences of places
    MaxBookings     \* bound: bookings of the day that are not cancelled

ASSUME FloorAssumption ==
    /\ Grids \subseteq (Nat \ {0}) \X (Nat \ {0})         \* binding:"min=1,max=30"
    /\ MaxBookings \in Nat
    /\ OpeningHours \subseteq [open : Nat, close : Nat] /\ Slots \subseteq Nat \X Nat
    /\ \A h \in OpeningHours : h.open < h.close         \* validateTimeRange
    /\ \A s \in Slots : s[1] < s[2]                     \* validateSlot
    /\ Proposals \subseteq Seq(Nat \X Nat)
    /\ Busy \subseteq 0..UtilDays - 1 /\ Chance \subseteq 0..UtilDays - 1

VARIABLES
    room,       \* its opening hours
    seats,      \* the seats by row and column
    gen,        \* gen[a]: the grid administrator a is about to insert
    bookings,   \* by id
    holed       \* the first seat of a grid was deleted since (history)

floorVars == <<room, seats, gen, bookings, holed>>

Places(grid) == (1..grid[1]) \X (1..grid[2])
AllPlaces == UNION {Places(grid) : grid \in Grids}
NoGrid == <<0, 0>>
First == <<1, 1>>

Zones == {"quiet", "regular", "discussion", "computer"}

\* Rows that are inserted beside the old ones.
Added(old, new) ==
    [x \in DOMAIN old \cup DOMAIN new |-> IF x \in DOMAIN old THEN old[x] ELSE new[x]]

-------------------------------------------------------------------------------
(* Rooms and seats *)

UpdateRoom(hours) ==
    /\ room' = hours
    /\ UNCHANGED <<seats, gen, bookings, holed>>

\* The first third of the rows is quiet, what is left after two thirds is for discussion.
ZoneOf(rows, row) ==
    LET quiet == Max({1, rows \div 3})
        discussion == Max({0, rows - quiet - rows \div 3})
    IN IF row <= quiet THEN "quiet"
       ELSE IF row > rows - discussion THEN "discussion" ELSE "regular"

NewSeat(grid, p, a) ==
    [zone |-> ZoneOf(grid[1], p[1]), power |-> p[2] % 2 = 0, window |-> p[2] = grid[2],
     status |-> "available", by |-> a]

\* CountByRoom finds no seat.
BatchGenSeats(a, grid) ==
    /\ gen[a] = NoGrid
    /\ DOMAIN seats = {}
    /\ gen' = [gen EXCEPT ![a] = grid]
    /\ UNCHANGED <<room, seats, bookings, holed>>

\* Mutant of BatchCreate: each row for itself, those that are there are skipped.
BatchCreateRows(a) ==
    /\ gen[a] # NoGrid
    /\ seats' = Added(seats, [p \in Places(gen[a]) |-> NewSeat(gen[a], p, a)])
    /\ gen' = [gen EXCEPT ![a] = NoGrid]
    /\ holed' = (holed /\ DOMAIN seats # {})
    /\ UNCHANGED <<room, bookings>>

\* One transaction: a place that is taken fails it as a whole.
BatchCreate(a) ==
    /\ gen[a] # NoGrid
    /\ IF DOMAIN seats \cap Places(gen[a]) = {}
         THEN /\ seats' = Added(seats, [p \in Places(gen[a]) |-> NewSeat(gen[a], p, a)])
              /\ holed' = (holed /\ DOMAIN seats # {})
         ELSE UNCHANGED <<seats, holed>>
    /\ gen' = [gen EXCEPT ![a] = NoGrid]
    /\ UNCHANGED <<room, bookings>>

\* The zone is always written, what is not given stays.
UpdateSeat(s, zone, power, window, status) ==
    /\ seats' = [seats EXCEPT ![s] = [@ EXCEPT !.zone = zone, !.power = power,
                                               !.window = window, !.status = status]]
    /\ UNCHANGED <<room, gen, bookings, holed>>

\* Mutant of DeleteSeat: its bookings stay.
DeleteSeatOnly(s) ==
    /\ seats' = [p \in DOMAIN seats \ {s} |-> seats[p]]
    /\ holed' = (holed \/ s = First)
    /\ UNCHANGED <<room, gen, bookings>>

\* Its bookings go with it.
DeleteSeat(s) ==
    /\ seats' = [p \in DOMAIN seats \ {s} |-> seats[p]]
    /\ bookings' = [i \in DOMAIN bookings \ OfSeat(bookings, s) |-> bookings[i]]
    /\ holed' = (holed \/ s = First)
    /\ UNCHANGED <<room, gen>>

-------------------------------------------------------------------------------
(* Bookings *)

InHours(slot) == room.open <= slot[1] /\ slot[2] <= room.close

Free(s, slot) == seats[s].status = "available" /\ ~Occupied(bookings, s, slot)

\* What CreateWithSource demands of the room, the seat and the other bookings. (It also
\* asks for a user who is not banned and a time that is still to come.)
Bookable(s, u, slot) == InHours(slot) /\ Free(s, slot) /\ ~HasBooking(bookings, u, slot)

Book(s, u, slot) ==
    /\ Bookable(s, u, slot)
    /\ \E i \in (1..MaxBookings) \ DOMAIN bookings :
         bookings' = Added(bookings, [j \in {i} |-> [seat |-> s, user |-> u, from |-> slot[1],
                                                     to |-> slot[2], status |-> "pending"]])
    /\ UNCHANGED <<room, seats, gen, holed>>

\* The moves of the lifecycle; a cancelled booking counts nowhere.
Moves == {<<"pending", "checked_in">>, <<"pending", "violation">>, <<"checked_in", "completed">>}

Move(i, to) ==
    /\ <<bookings[i].status, to>> \in Moves
    /\ bookings' = [bookings EXCEPT ![i].status = to]
    /\ UNCHANGED <<room, seats, gen, holed>>

Cancel(i) ==
    /\ bookings[i].status = "pending"
    /\ bookings' = [j \in DOMAIN bookings \ {i} |-> bookings[j]]
    /\ UNCHANGED <<room, seats, gen, holed>>

-------------------------------------------------------------------------------
FloorInit ==
    /\ room \in OpeningHours
    /\ seats = <<>> /\ bookings = <<>>
    /\ gen = [a \in Admins |-> NoGrid]
    /\ holed = FALSE

\* Bound: UpdateSeat is asked for another status only; zone, power and window stay.
FloorNext ==
    \/ \E hours \in OpeningHours : UpdateRoom(hours)
    \/ \E a \in Admins, grid \in Grids : BatchGenSeats(a, grid)
    \/ \E a \in Admins : BatchCreate(a)
    \/ \E s \in DOMAIN seats :
         \/ \E status \in {"available", "maintenance"} :
              UpdateSeat(s, seats[s].zone, seats[s].power, seats[s].window, status)
         \/ DeleteSeat(s)
         \/ \E u \in Users, slot \in Slots : Book(s, u, slot)
    \/ \E i \in DOMAIN bookings : Cancel(i) \/ \E to \in Counted : Move(i, to)

FloorSpec == FloorInit /\ [][FloorNext]_floorVars

-------------------------------------------------------------------------------
(* Properties *)

\* Seats stand in a grid that was asked for; a booking is of a seat that exists.
FloorTypeOK ==
    /\ room \in OpeningHours /\ holed \in BOOLEAN
    /\ gen \in [Admins -> Grids \cup {NoGrid}]
    /\ DOMAIN seats \subseteq AllPlaces
    /\ \A s \in DOMAIN seats :
         seats[s] \in [zone : Zones, power : BOOLEAN, window : BOOLEAN, by : Admins,
                       status : {"available", "maintenance", "disabled"}]
    /\ DOMAIN bookings \subseteq 1..MaxBookings
    /\ \A i \in DOMAIN bookings : /\ bookings[i].seat \in DOMAIN seats /\ bookings[i].user \in Users
                                  /\ <<bookings[i].from, bookings[i].to>> \in Slots
                                  /\ bookings[i].status \in Active \cup Counted

\* Two administrators generate seats at once: the room never shows a mixture of two
\* grids, unless a first seat is deleted between the two insertions.
OneGrid == \A s, t \in DOMAIN seats : seats[s].by = seats[t].by \/ holed

\* Every allocation offers free seats, which can be booked when the time asked for lies
\* within the hours and the query for the user's bookings was answered. Neither
\* popularity nor chance outweighs the zone or the power asked for, in the order and in
\* the cut.
BestFirst ==
    \A u \in Users, slot \in Slots, req \in Requests, answered \in BOOLEAN :
    \A busy \in [ListCandidates(seats, bookings, slot) -> Busy],
       chance \in [ListCandidates(seats, bookings, slot) -> Chance] :
        LET offer == AutoAllocate(seats, bookings, u, slot, req, busy, chance, answered)
            left == {s \in DOMAIN seats : Free(s, slot)} \ Range(offer)
            beats(s, t) == Matches(seats[s], req) - Matches(seats[t], req) >= PowerMatch
        IN /\ IsInjective(offer)
           /\ \A s \in Range(offer) :
                Free(s, slot) /\ (answered /\ InHours(slot) => Bookable(s, u, slot))
           /\ \A i, j \in DOMAIN offer : i < j => ~beats(offer[j], offer[i])
           /\ left # {} /\ ~(answered /\ HasBooking(bookings, u, slot)) =>
                Len(offer) = TopN /\ \A s \in left, t \in Range(offer) : ~beats(s, t)

\* A card that can be clicked names a free seat, which this user can book when the time
\* lies within the hours and the query for his bookings was answered; who has no booking
\* then is shown no other card; whose seat it is, is told to its user only.
CardsBookable ==
    \A u \in Users, slot \in Slots, proposed \in Proposals, answered \in BOOLEAN :
    \A found \in Found(bookings, u, slot, answered) :
        LET cards == Cards(seats, bookings, slot, found, proposed)
        IN /\ Len(cards) <= MaxCards
           /\ \A i, j \in DOMAIN cards : i # j => cards[i].seat # cards[j].seat
           /\ \A i \in DOMAIN cards :
                /\ ~cards[i].disabled =>
                     /\ Free(cards[i].seat, slot)
                     /\ answered /\ InHours(slot) => Bookable(cards[i].seat, u, slot)
                /\ cards[i].disabled => SlotBookings(bookings, u, slot) # {}
                /\ cards[i].booked => \E k \in OfSeat(bookings, cards[i].seat) : bookings[k].user = u

\* The heat map is dark where a seat was used and nowhere else, up to the last full hour.
HeatmapShows ==
    \A s \in DOMAIN seats :
        /\ \A t \in room.open..room.open + HourLen * Cardinality(Hours(room)) - 1 :
             (\E i \in CountedBookings(bookings) : bookings[i].seat = s /\ Overlap(bookings[i], t, t + 1))
                => \E h \in Hours(room) : t \in h..h + HourLen - 1 /\ Cell(bookings, s, h)
        /\ \A h \in Hours(room) : Cell(bookings, s, h) =>
             \E t \in h..h + HourLen - 1, i \in CountedBookings(bookings) :
                bookings[i].seat = s /\ Overlap(bookings[i], t, t + 1)

\* Units of time: those of the bookings K within the opening hours, those between a
\* booking of K and the hours that were moved off it, and those of seats that were taken.
Units == room.open..room.close - 1
Sat(K) == UNION {{i} \X {t \in Units : Overlap(bookings[i], t, t + 1)} : i \in K}
Off(K) == UNION {{i} \X ((bookings[i].to..room.open - 1) \cup (room.close..bookings[i].from - 1)) : i \in K}
Taken(K) ==
    {st \in (DOMAIN seats) \X Units :
        \E i \in K : bookings[i].seat = st[1] /\ Overlap(bookings[i], st[2], st[2] + 1)}

\* The trend adds up what each booking has of the opening hours of now, and takes off how
\* far the hours were moved off it. As long as no seat was booked twice for one time, the
\* first is what the seats were taken (a visit that ended early frees its time for others,
\* and counts in full).
TrendCounts ==
    LET counted == CountedBookings(bookings)
    IN /\ Used(room, bookings) = Cardinality(Sat(counted)) - Cardinality(Off(counted))
       /\ (\A i, j \in counted : i # j /\ bookings[i].seat = bookings[j].seat
                                    => ~Overlap(bookings[i], bookings[j].from, bookings[j].to))
            => Cardinality(Sat(counted)) = Cardinality(Taken(counted))

\* What the statistics tell is what happened.
StatisticsSound == HeatmapShows /\ TrendCounts
===============================================================================
