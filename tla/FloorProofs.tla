------------------------------- MODULE FloorProofs -------------------------------
(***************************************************************************)
(* Proofs about the room, its seats and the answers computed from them     *)
(* (Floor), for any grids, hours, slots, requests and numbers of bookings; *)
(* then, in the last part, about the cache that keeps such answers beside  *)
(* the database (StatsCache), for any keys, lives of entries, sizes of a   *)
(* batch and numbers of readers and writers, with and without faults.      *)
(***************************************************************************)
EXTENDS Floor, StatsCache, FiniteSetTheorems, SequenceTheorems, WellFoundedInduction, TLAPS

\* A row of the table of seats.
Seats == [zone : Zones, power : BOOLEAN, window : BOOLEAN, by : Admins,
          status : {"available", "maintenance", "disabled"}]

\* A booking of one of the seats S.
IsBooking(b, S) ==
    /\ b.seat \in S /\ b.user \in Users
    /\ <<b.from, b.to>> \in Slots
    /\ b.status \in Active \cup Counted

\* Inserted rows stand beside the old ones, which stay as they are.
LEMMA AddedRows ==
    ASSUME NEW old, NEW new
    PROVE  /\ DOMAIN Added(old, new) = DOMAIN old \cup DOMAIN new
           /\ \A x \in DOMAIN old : Added(old, new)[x] = old[x]
           /\ \A x \in DOMAIN new \ DOMAIN old : Added(old, new)[x] = new[x]
BY DEF Added

\* A generated grid has a first seat, and each of its seats is a row of the table.
LEMMA GridPlaces ==
    ASSUME NEW grid \in Grids
    PROVE  First \in Places(grid) /\ Places(grid) \subseteq AllPlaces
<1>1. grid \in (Nat \ {0}) \X (Nat \ {0})
  BY FloorAssumption
<1> QED BY <1>1 DEF First, Places, AllPlaces

\* A row that is inserted is a row of the table, of the administrator who asked for it.
LEMMA NewSeatType ==
    ASSUME NEW grid, NEW p, NEW a \in Admins
    PROVE  NewSeat(grid, p, a) \in Seats /\ NewSeat(grid, p, a).by = a
<1>1. ZoneOf(grid[1], p[1]) \in Zones
  BY DEF ZoneOf, Zones
<1>2. (p[2] % 2 = 0) \in BOOLEAN /\ (p[2] = grid[2]) \in BOOLEAN
  OBVIOUS
<1> QED BY <1>1, <1>2 DEF NewSeat, Seats

\* FloorTypeOK, with the rows named.
LEMMA FloorTypes ==
    FloorTypeOK <=> /\ room \in OpeningHours /\ holed \in BOOLEAN
                    /\ gen \in [Admins -> Grids \cup {NoGrid}]
                    /\ DOMAIN seats \subseteq AllPlaces
                    /\ \A s \in DOMAIN seats : seats[s] \in Seats
                    /\ DOMAIN bookings \subseteq 1..MaxBookings
                    /\ \A i \in DOMAIN bookings : IsBooking(bookings[i], DOMAIN seats)
BY DEF FloorTypeOK, Seats, IsBooking

\* The same of the next state.
LEMMA FloorTypesNext ==
    FloorTypeOK' <=> /\ room' \in OpeningHours /\ holed' \in BOOLEAN
                     /\ gen' \in [Admins -> Grids \cup {NoGrid}]
                     /\ DOMAIN seats' \subseteq AllPlaces
                     /\ \A s \in DOMAIN seats' : seats'[s] \in Seats
                     /\ DOMAIN bookings' \subseteq 1..MaxBookings
                     /\ \A i \in DOMAIN bookings' : IsBooking(bookings'[i], DOMAIN seats')
BY DEF FloorTypeOK, Seats, IsBooking

\* The first state is well typed.
LEMMA FloorInitTypeOK == FloorInit => FloorTypeOK
<1> SUFFICES ASSUME FloorInit PROVE FloorTypeOK
  OBVIOUS
<1>1. DOMAIN seats = {} /\ DOMAIN bookings = {}
  BY DEF FloorInit
<1>2. gen \in [Admins -> Grids \cup {NoGrid}]
  BY DEF FloorInit
<1> QED BY <1>1, <1>2, FloorTypes DEF FloorInit

\* What BatchCreate leaves: the grid as a whole or nothing.
LEMMA BatchCreateEffect ==
    ASSUME FloorTypeOK, NEW a \in Admins, BatchCreate(a)
    PROVE  /\ gen[a] \in Grids
           /\ \/ /\ DOMAIN seats \cap Places(gen[a]) = {}
                 /\ DOMAIN seats' = DOMAIN seats \cup Places(gen[a])
                 /\ \A s \in DOMAIN seats : seats'[s] = seats[s]
                 /\ \A s \in Places(gen[a]) : seats'[s] = NewSeat(gen[a], s, a)
                 /\ holed' = (holed /\ DOMAIN seats # {})
              \/ UNCHANGED <<seats, holed>>
<1>1. gen[a] \in Grids
  BY DEF FloorTypeOK, BatchCreate
<1>2. CASE DOMAIN seats \cap Places(gen[a]) = {}
  <2> DEFINE new == [p \in Places(gen[a]) |-> NewSeat(gen[a], p, a)]
  <2>1. DOMAIN new = Places(gen[a]) /\ \A p \in Places(gen[a]) : new[p] = NewSeat(gen[a], p, a)
    OBVIOUS
  <2>2. seats' = Added(seats, new) /\ holed' = (holed /\ DOMAIN seats # {})
    BY <1>2 DEF BatchCreate
  <2> HIDE DEF new
  <2>3. /\ DOMAIN Added(seats, new) = DOMAIN seats \cup DOMAIN new
        /\ \A x \in DOMAIN seats : Added(seats, new)[x] = seats[x]
        /\ \A x \in DOMAIN new \ DOMAIN seats : Added(seats, new)[x] = new[x]
    BY AddedRows
  <2> QED BY <1>1, <1>2, <2>1, <2>2, <2>3, Zenon
<1>3. CASE DOMAIN seats \cap Places(gen[a]) # {}
  BY <1>1, <1>3 DEF BatchCreate
<1> QED BY <1>2, <1>3

\* Every step of an administrator and of a user keeps the types.
LEMMA FloorNextTypeOK == FloorTypeOK /\ [FloorNext]_floorVars => FloorTypeOK'
<1> SUFFICES ASSUME FloorTypeOK, [FloorNext]_floorVars PROVE FloorTypeOK'
  OBVIOUS
<1>0. /\ room \in OpeningHours /\ holed \in BOOLEAN
      /\ gen \in [Admins -> Grids \cup {NoGrid}]
      /\ DOMAIN seats \subseteq AllPlaces
      /\ \A s \in DOMAIN seats : seats[s] \in Seats
      /\ DOMAIN bookings \subseteq 1..MaxBookings
      /\ \A i \in DOMAIN bookings : IsBooking(bookings[i], DOMAIN seats)
  BY FloorTypes
<1>1. ASSUME NEW hours \in OpeningHours, UpdateRoom(hours) PROVE FloorTypeOK'
  BY <1>0, <1>1, FloorTypesNext DEF UpdateRoom
<1>2. ASSUME NEW a \in Admins, NEW grid \in Grids, BatchGenSeats(a, grid) PROVE FloorTypeOK'
  BY <1>0, <1>2, FloorTypesNext DEF BatchGenSeats
<1>3. ASSUME NEW a \in Admins, BatchCreate(a) PROVE FloorTypeOK'
  <2>1. gen[a] \in Grids /\ Places(gen[a]) \subseteq AllPlaces
    BY <1>3, BatchCreateEffect, GridPlaces
  <2>2. /\ DOMAIN seats \subseteq DOMAIN seats' /\ DOMAIN seats' \subseteq AllPlaces
        /\ \A s \in DOMAIN seats' : seats'[s] \in Seats
        /\ holed' \in BOOLEAN
    <3>1. \A s : NewSeat(gen[a], s, a) \in Seats
      BY NewSeatType
    <3>2. (holed /\ DOMAIN seats # {}) \in BOOLEAN
      OBVIOUS
    <3>3. CASE /\ DOMAIN seats' = DOMAIN seats \cup Places(gen[a])
               /\ \A s \in DOMAIN seats : seats'[s] = seats[s]
               /\ \A s \in Places(gen[a]) : seats'[s] = NewSeat(gen[a], s, a)
               /\ holed' = (holed /\ DOMAIN seats # {})
      BY <1>0, <2>1, <3>1, <3>2, <3>3, Zenon
    <3>4. CASE UNCHANGED <<seats, holed>>
      BY <1>0, <3>4
    <3> QED BY <1>3, <3>3, <3>4, BatchCreateEffect
  <2>3. gen' \in [Admins -> Grids \cup {NoGrid}] /\ room' = room /\ bookings' = bookings
    BY <1>0, <1>3 DEF BatchCreate
  <2>4. \A i \in DOMAIN bookings : IsBooking(bookings[i], DOMAIN seats')
    BY <1>0, <2>2 DEF IsBooking
  <2> QED BY <1>0, <2>2, <2>3, <2>4, FloorTypesNext
<1>4. ASSUME NEW s \in DOMAIN seats, NEW status \in {"available", "maintenance"},
             UpdateSeat(s, seats[s].zone, seats[s].power, seats[s].window, status)
      PROVE  FloorTypeOK'
  <2>1. /\ DOMAIN seats' = DOMAIN seats
        /\ \A t \in DOMAIN seats : t # s => seats'[t] = seats[t]
        /\ seats'[s] = [seats[s] EXCEPT !.zone = seats[s].zone, !.power = seats[s].power,
                                        !.window = seats[s].window, !.status = status]
    BY <1>4 DEF UpdateSeat
  <2>2. seats'[s] \in Seats
    BY <1>0, <2>1 DEF Seats
  <2>3. UNCHANGED <<room, gen, bookings, holed>>
    BY <1>4 DEF UpdateSeat
  <2> QED BY <1>0, <2>1, <2>2, <2>3, FloorTypesNext
<1>5. ASSUME NEW s \in DOMAIN seats, DeleteSeat(s) PROVE FloorTypeOK'
  <2>1. /\ DOMAIN seats' = DOMAIN seats \ {s} /\ \A t \in DOMAIN seats' : seats'[t] = seats[t]
        /\ DOMAIN bookings' = DOMAIN bookings \ OfSeat(bookings, s)
        /\ \A i \in DOMAIN bookings' : bookings'[i] = bookings[i] /\ bookings[i].seat # s
        /\ holed' \in BOOLEAN /\ UNCHANGED <<room, gen>>
    BY <1>0, <1>5 DEF DeleteSeat, OfSeat
  <2>2. \A i \in DOMAIN bookings' : IsBooking(bookings'[i], DOMAIN seats')
    BY <1>0, <2>1 DEF IsBooking
  <2> QED BY <1>0, <2>1, <2>2, FloorTypesNext
<1>6. ASSUME NEW s \in DOMAIN seats, NEW u \in Users, NEW slot \in Slots, Book(s, u, slot)
      PROVE  FloorTypeOK'
  <2>1. PICK i \in (1..MaxBookings) \ DOMAIN bookings :
          bookings' = Added(bookings, [j \in {i} |-> [seat |-> s, user |-> u, from |-> slot[1],
                                                     to |-> slot[2], status |-> "pending"]])
    BY <1>6 DEF Book
  <2>2. /\ DOMAIN bookings' = DOMAIN bookings \cup {i}
        /\ \A j \in DOMAIN bookings : bookings'[j] = bookings[j]
        /\ bookings'[i] = [seat |-> s, user |-> u, from |-> slot[1], to |-> slot[2],
                           status |-> "pending"]
    BY <2>1 DEF Added
  <2>3. slot = <<slot[1], slot[2]>>
    BY FloorAssumption
  <2>4. IsBooking(bookings'[i], DOMAIN seats)
    BY <2>2, <2>3 DEF IsBooking, Active
  <2>5. UNCHANGED <<room, seats, gen, holed>>
    BY <1>6 DEF Book
  <2> QED BY <1>0, <2>1, <2>2, <2>4, <2>5, FloorTypesNext
<1>7. ASSUME NEW i \in DOMAIN bookings, Cancel(i) PROVE FloorTypeOK'
  <2>1. /\ DOMAIN bookings' = DOMAIN bookings \ {i}
        /\ \A j \in DOMAIN bookings' : bookings'[j] = bookings[j]
        /\ UNCHANGED <<room, seats, gen, holed>>
    BY <1>7 DEF Cancel
  <2> QED BY <1>0, <2>1, FloorTypesNext
<1>8. ASSUME NEW i \in DOMAIN bookings, NEW to \in Counted, Move(i, to) PROVE FloorTypeOK'
  <2>1. /\ DOMAIN bookings' = DOMAIN bookings
        /\ \A j \in DOMAIN bookings : j # i => bookings'[j] = bookings[j]
        /\ bookings'[i] = [bookings[i] EXCEPT !.status = to]
        /\ UNCHANGED <<room, seats, gen, holed>>
    BY <1>8 DEF Move
  <2>2. IsBooking(bookings'[i], DOMAIN seats)
    BY <1>0, <2>1 DEF IsBooking
  <2> QED BY <1>0, <2>1, <2>2, FloorTypesNext
<1>9. CASE UNCHANGED floorVars
  BY <1>0, <1>9, FloorTypesNext DEF floorVars
<1> QED BY <1>1, <1>2, <1>3, <1>4, <1>5, <1>6, <1>7, <1>8, <1>9 DEF FloorNext

\* Rows keep their types through every act of an administrator and of a user.
THEOREM FloorTypeCorrect == FloorSpec => []FloorTypeOK
BY FloorInitTypeOK, FloorNextTypeOK, PTL DEF FloorSpec

\* As long as no first seat was deleted, seats are there only with a first seat among
\* them: that is the seat a second grid collides with.
GridInv == /\ ~holed /\ DOMAIN seats # {} => First \in DOMAIN seats
           /\ OneGrid

\* Administrators who generate seats at once never leave a mixture of two grids.
THEOREM OneGridSafe == FloorSpec => []OneGrid
<1>1. FloorInit => GridInv
  <2>1. FloorInit => DOMAIN seats = {}
    BY DEF FloorInit
  <2> QED BY <2>1 DEF GridInv, OneGrid
<1>2. FloorTypeOK /\ GridInv /\ [FloorNext]_floorVars => GridInv'
  <2> SUFFICES ASSUME FloorTypeOK, GridInv, [FloorNext]_floorVars PROVE GridInv'
    OBVIOUS
  <2>1. ASSUME NEW a \in Admins, BatchCreate(a) PROVE GridInv'
    <3>1. First \in Places(gen[a])
      BY <2>1, BatchCreateEffect, GridPlaces
    <3>2. CASE /\ DOMAIN seats \cap Places(gen[a]) = {}
               /\ DOMAIN seats' = DOMAIN seats \cup Places(gen[a])
               /\ \A s \in Places(gen[a]) : seats'[s] = NewSeat(gen[a], s, a)
               /\ holed' = (holed /\ DOMAIN seats # {})
      <4>1. First \in DOMAIN seats'
        BY <3>1, <3>2
      <4>2. CASE holed'
        BY <4>1, <4>2 DEF GridInv, OneGrid
      <4>3. CASE ~holed'
        <5>1. DOMAIN seats = {}
          BY <3>1, <3>2, <4>3 DEF GridInv
        <5>2. \A s \in DOMAIN seats' : seats'[s].by = a
          BY <3>2, <5>1, NewSeatType
        <5> QED BY <4>1, <5>2 DEF GridInv, OneGrid
      <4> QED BY <4>2, <4>3
    <3>3. CASE UNCHANGED <<seats, holed>>
      BY <3>3 DEF GridInv, OneGrid
    <3> QED BY <2>1, <3>2, <3>3, BatchCreateEffect
  <2>2. ASSUME NEW s \in DOMAIN seats, DeleteSeat(s) PROVE GridInv'
    <3>1. /\ DOMAIN seats' = DOMAIN seats \ {s} /\ \A t \in DOMAIN seats' : seats'[t] = seats[t]
          /\ holed' = (holed \/ s = First)
      BY <2>2 DEF DeleteSeat
    <3> QED BY <3>1 DEF GridInv, OneGrid
  <2>3. ASSUME NEW s \in DOMAIN seats, NEW status \in {"available", "maintenance"},
               UpdateSeat(s, seats[s].zone, seats[s].power, seats[s].window, status)
        PROVE  GridInv'
    <3>1. /\ DOMAIN seats' = DOMAIN seats /\ holed' = holed
          /\ \A t \in DOMAIN seats : t # s => seats'[t] = seats[t]
          /\ seats'[s] = [seats[s] EXCEPT !.zone = seats[s].zone, !.power = seats[s].power,
                                          !.window = seats[s].window, !.status = status]
      BY <2>3 DEF UpdateSeat
    <3>2. seats[s] \in Seats
      BY FloorTypes
    <3>3. seats'[s].by = seats[s].by
      BY <3>1, <3>2 DEF Seats
    <3>4. \A t \in DOMAIN seats : seats'[t].by = seats[t].by
      BY <3>1, <3>3
    <3> QED BY <3>1, <3>4 DEF GridInv, OneGrid
  <2>4. CASE UNCHANGED <<seats, holed>>
    BY <2>4 DEF GridInv, OneGrid
  <2>5. ASSUME NEW hours \in OpeningHours, UpdateRoom(hours) PROVE UNCHANGED <<seats, holed>>
    BY <2>5 DEF UpdateRoom
  <2>6. ASSUME NEW a \in Admins, NEW grid \in Grids, BatchGenSeats(a, grid)
        PROVE  UNCHANGED <<seats, holed>>
    BY <2>6 DEF BatchGenSeats
  <2>7. ASSUME NEW s \in DOMAIN seats, NEW u \in Users, NEW slot \in Slots, Book(s, u, slot)
        PROVE  UNCHANGED <<seats, holed>>
    BY <2>7 DEF Book
  <2>8. ASSUME NEW i \in DOMAIN bookings, NEW to \in Counted, Move(i, to)
        PROVE  UNCHANGED <<seats, holed>>
    BY <2>8 DEF Move
  <2>9. ASSUME NEW i \in DOMAIN bookings, Cancel(i) PROVE UNCHANGED <<seats, holed>>
    BY <2>9 DEF Cancel
  <2>10. UNCHANGED floorVars => UNCHANGED <<seats, holed>>
    BY DEF floorVars
  <2> QED BY <2>1, <2>2, <2>3, <2>4, <2>5, <2>6, <2>7, <2>8, <2>9, <2>10 DEF FloorNext
<1>3. GridInv => OneGrid
  BY DEF GridInv
<1> QED BY <1>1, <1>2, <1>3, FloorTypeCorrect, PTL DEF FloorSpec

\* The candidates ahead of s, for the scores given.
InFront(C, s, score) == {t \in C : Ahead(t, s, score)}

\* Score first, then row and column: the order is strict and total.
LEMMA AheadOrders ==
    ASSUME NEW C, C \subseteq Nat \X Nat, NEW score \in [C -> Int]
    PROVE  /\ \A s \in C : ~Ahead(s, s, score)
           /\ \A r, s, t \in C : Ahead(r, s, score) /\ Ahead(s, t, score) => Ahead(r, t, score)
           /\ \A s, t \in C : s # t => Ahead(s, t, score) \/ Ahead(t, s, score)
<1>1. \A s \in C : score[s] \in Int /\ s[1] \in Nat /\ s[2] \in Nat /\ s = <<s[1], s[2]>>
  OBVIOUS
<1>2. \A s, t \in C : s[1] = t[1] /\ s[2] = t[2] => s = t
  BY <1>1
<1>3. \A s \in C : ~Ahead(s, s, score)
  BY <1>1 DEF Ahead, Precedes
<1>4. ASSUME NEW r \in C, NEW s \in C, NEW t \in C, Ahead(r, s, score), Ahead(s, t, score)
      PROVE  Ahead(r, t, score)
  BY <1>1, <1>4 DEF Ahead, Precedes
<1>5. ASSUME NEW s \in C, NEW t \in C, s # t PROVE Ahead(s, t, score) \/ Ahead(t, s, score)
  BY <1>1, <1>2, <1>5 DEF Ahead, Precedes
<1> QED BY <1>3, <1>4, <1>5

\* Candidates differ in how many are ahead of them, and every number occurs.
LEMMA FrontsCount ==
    ASSUME NEW C, IsFiniteSet(C), C \subseteq Nat \X Nat, NEW score \in [C -> Int]
    PROVE  /\ \A s \in C : Cardinality(InFront(C, s, score)) \in 0..Cardinality(C) - 1
           /\ \A s, t \in C : Ahead(s, t, score) <=>
                Cardinality(InFront(C, s, score)) < Cardinality(InFront(C, t, score))
           /\ \A m \in 0..Cardinality(C) - 1 :
                \E s \in C : Cardinality(InFront(C, s, score)) = m
<1> DEFINE front(s) == InFront(C, s, score)
<1>1. \A s \in C : front(s) \in SUBSET C /\ s \notin front(s)
  BY AheadOrders DEF InFront
<1>2. /\ Cardinality(C) \in Nat
      /\ \A s \in C : IsFiniteSet(front(s)) /\ Cardinality(front(s)) \in Nat
  BY <1>1, FS_Subset, FS_CardinalityType
<1>3. ASSUME NEW s \in C PROVE Cardinality(front(s)) \in 0..Cardinality(C) - 1
  <2>1. Cardinality(front(s)) <= Cardinality(C) /\ Cardinality(front(s)) # Cardinality(C)
    BY <1>1, FS_Subset
  <2> HIDE DEF front
  <2> QED BY <1>2, <2>1
<1>4. ASSUME NEW s \in C, NEW t \in C, Ahead(s, t, score)
      PROVE  Cardinality(front(s)) < Cardinality(front(t))
  <2>1. front(s) \in SUBSET front(t) /\ s \in front(t) /\ s \notin front(s)
    BY <1>1, <1>4, AheadOrders DEF InFront
  <2>2. /\ Cardinality(front(s)) <= Cardinality(front(t))
        /\ Cardinality(front(t)) # Cardinality(front(s))
    BY <1>2, <2>1, FS_Subset
  <2> HIDE DEF front
  <2> QED BY <1>2, <2>2
<1>5. ASSUME NEW s \in C, NEW t \in C, Cardinality(front(s)) < Cardinality(front(t))
      PROVE  Ahead(s, t, score)
  <2>1. s # t
    BY <1>2, <1>5
  <2>2. ~Ahead(t, s, score)
    <3> HIDE DEF front
    <3> QED BY <1>2, <1>4, <1>5
  <2> QED BY <2>1, <2>2, AheadOrders
<1>6. \A m \in 0..Cardinality(C) - 1 : \E s \in C : Cardinality(front(s)) = m
  <2> DEFINE n == Cardinality(C)
             f == [s \in C |-> Cardinality(front(s))]
  <2>1. f \in [C -> 0..n - 1]
    BY <1>3
  <2>2. \A s, t \in C : f[s] = f[t] => s = t
    <3> SUFFICES ASSUME NEW s \in C, NEW t \in C, f[s] = f[t], s # t PROVE FALSE
      OBVIOUS
    <3>1. f[s] \in Nat /\ f[t] \in Nat
      BY <1>2
    <3>2. f[s] < f[t] \/ f[t] < f[s]
      BY <1>4, AheadOrders
    <3> HIDE DEF f
    <3> QED BY <3>1, <3>2
  <2>3. f \in Injection(C, 0..n - 1)
    BY <2>1, <2>2 DEF Injection, IsInjective
  <2>4. IsFiniteSet(0..n - 1) /\ Cardinality(0..n - 1) = n
    <3>1. 0 \in Int /\ n - 1 \in Int
      BY <1>2
    <3>2. IsFiniteSet(0..n - 1) /\ Cardinality(0..n - 1) = IF 0 > n - 1 THEN 0 ELSE n - 1 - 0 + 1
      BY <3>1, FS_Interval
    <3> QED BY <3>2, <1>2
  <2>5. f \in Surjection(C, 0..n - 1)
    <3> HIDE DEF f
    <3> QED BY <2>3, <2>4, FS_Injection
  <2> QED BY <2>5 DEF Surjection
<1> QED BY <1>3, <1>4, <1>5, <1>6

\* The scores ScoreCandidates sorts by.
Scores(C, rows, req, busy, chance) ==
    [s \in C |-> Score(rows[s], req, busy[s], chance[s])]

\* ScoreCandidates lists every candidate once, those ahead first.
LEMMA RankingSorts ==
    ASSUME NEW C, IsFiniteSet(C), C \subseteq Nat \X Nat,
           NEW rows, NEW req, NEW busy, NEW chance,
           Scores(C, rows, req, busy, chance) \in [C -> Int]
    PROVE  LET ranking == ScoreCandidates(C, rows, req, busy, chance)
               score == Scores(C, rows, req, busy, chance)
           IN  /\ ranking \in Seq(C) /\ Len(ranking) = Cardinality(C)
               /\ \A i, j \in DOMAIN ranking : i < j => Ahead(ranking[i], ranking[j], score)
               /\ \A s \in C : \E i \in DOMAIN ranking : ranking[i] = s
<1> DEFINE n == Cardinality(C)
           ranking == ScoreCandidates(C, rows, req, busy, chance)
           score == Scores(C, rows, req, busy, chance)
           place(s) == Cardinality(InFront(C, s, score))
<1>0. n \in Nat
  BY FS_CardinalityType
<1>1. ranking = [k \in 1..n |-> CHOOSE s \in C : place(s) = k - 1]
  BY DEF ScoreCandidates, InFront, Scores
<1>2. /\ \A s \in C : place(s) \in 0..n - 1
      /\ \A s, t \in C : Ahead(s, t, score) <=> place(s) < place(t)
      /\ \A m \in 0..n - 1 : \E s \in C : place(s) = m
  BY FrontsCount
<1> HIDE DEF n, place, ranking, score
<1>3. \A k \in 1..n : ranking[k] \in C /\ place(ranking[k]) = k - 1
  <2> SUFFICES ASSUME NEW k \in 1..n PROVE ranking[k] \in C /\ place(ranking[k]) = k - 1
    OBVIOUS
  <2>1. k - 1 \in 0..n - 1
    BY <1>0
  <2>2. ranking[k] = CHOOSE s \in C : place(s) = k - 1
    BY <1>1
  <2>3. \E s \in C : place(s) = k - 1
    BY <1>2, <2>1
  <2> QED BY <2>2, <2>3, Zenon
<1>4. ranking \in [1..n -> C]
  BY <1>1, <1>3
<1>5. ranking \in Seq(C) /\ Len(ranking) = n /\ DOMAIN ranking = 1..n
  BY <1>0, <1>4
<1>6. ASSUME NEW i \in 1..n, NEW j \in 1..n, i < j PROVE Ahead(ranking[i], ranking[j], score)
  <2>1. place(ranking[i]) < place(ranking[j])
    BY <1>3, <1>6
  <2> QED BY <1>2, <1>3, <2>1
<1>7. ASSUME NEW s \in C PROVE \E i \in 1..n : ranking[i] = s
  <2>1. PICK k \in 1..n : place(s) = k - 1
    <3>1. place(s) \in 0..n - 1 /\ place(s) = place(s) + 1 - 1 /\ place(s) + 1 \in 1..n
      BY <1>0, <1>2
    <3> QED BY <3>1
  <2>2. ranking[k] \in C /\ place(ranking[k]) = place(s)
    BY <1>3, <2>1
  <2>3. ~Ahead(s, ranking[k], score) /\ ~Ahead(ranking[k], s, score)
    <3>1. ~(place(s) < place(ranking[k])) /\ ~(place(ranking[k]) < place(s))
      BY <1>2, <2>2
    <3> QED BY <1>2, <2>2, <3>1
  <2> QED BY <2>2, <2>3, AheadOrders DEF score
<1> QED BY <1>5, <1>6, <1>7 DEF n, ranking, score

\* A room has finitely many seats, at places that are pairs of numbers.
SeatsFinite == IsFiniteSet(DOMAIN seats)

\* Every state is well typed and has finitely many seats.
LEMMA FiniteRoom == FloorSpec => [](FloorTypeOK /\ SeatsFinite)
<1> USE DEF SeatsFinite
<1>1. FloorInit => SeatsFinite
  <2>1. FloorInit => DOMAIN seats = {}
    BY DEF FloorInit
  <2> QED BY <2>1, FS_EmptySet
<1>2. FloorTypeOK /\ SeatsFinite /\ [FloorNext]_floorVars => SeatsFinite'
  <2> SUFFICES ASSUME FloorTypeOK, IsFiniteSet(DOMAIN seats), [FloorNext]_floorVars
               PROVE  IsFiniteSet(DOMAIN seats')
    OBVIOUS
  <2>1. ASSUME NEW a \in Admins, BatchCreate(a) PROVE IsFiniteSet(DOMAIN seats')
    <3>1. IsFiniteSet(Places(gen[a]))
      <4>1. gen[a] \in (Nat \ {0}) \X (Nat \ {0})
        BY <2>1, BatchCreateEffect, FloorAssumption
      <4>2. 1 \in Int /\ gen[a][1] \in Int /\ gen[a][2] \in Int
        BY <4>1
      <4>3. IsFiniteSet(1..gen[a][1]) /\ IsFiniteSet(1..gen[a][2])
        BY <4>2, FS_Interval
      <4> QED BY <4>3, FS_Product DEF Places
    <3>2. IsFiniteSet(DOMAIN seats \cup Places(gen[a]))
      BY <3>1, FS_Union
    <3>3. DOMAIN seats' = DOMAIN seats \cup Places(gen[a]) \/ DOMAIN seats' = DOMAIN seats
      BY <2>1, BatchCreateEffect
    <3> QED BY <3>2, <3>3
  <2>2. ASSUME NEW s \in DOMAIN seats, DeleteSeat(s) PROVE IsFiniteSet(DOMAIN seats')
    BY <2>2, FS_RemoveElement DEF DeleteSeat
  <2>3. ASSUME NEW s \in DOMAIN seats, NEW status \in {"available", "maintenance"},
               UpdateSeat(s, seats[s].zone, seats[s].power, seats[s].window, status)
        PROVE  DOMAIN seats' = DOMAIN seats
    BY <2>3 DEF UpdateSeat
  <2>4. ASSUME NEW hours \in OpeningHours, UpdateRoom(hours) PROVE seats' = seats
    BY <2>4 DEF UpdateRoom
  <2>5. ASSUME NEW a \in Admins, NEW grid \in Grids, BatchGenSeats(a, grid) PROVE seats' = seats
    BY <2>5 DEF BatchGenSeats
  <2>6. ASSUME NEW s \in DOMAIN seats, NEW u \in Users, NEW slot \in Slots, Book(s, u, slot)
        PROVE  seats' = seats
    BY <2>6 DEF Book
  <2>7. ASSUME NEW i \in DOMAIN bookings, Cancel(i) PROVE seats' = seats
    BY <2>7 DEF Cancel
  <2>8. ASSUME NEW i \in DOMAIN bookings, NEW to \in Counted, Move(i, to) PROVE seats' = seats
    BY <2>8 DEF Move
  <2>9. UNCHANGED floorVars => seats' = seats
    BY DEF floorVars
  <2> QED BY <2>1, <2>2, <2>3, <2>4, <2>5, <2>6, <2>7, <2>8, <2>9 DEF FloorNext
<1> QED BY <1>1, <1>2, FloorTypeCorrect, PTL DEF FloorSpec

\* The smaller of two numbers.
LEMMA MinPair ==
    ASSUME NEW a \in Int, NEW b \in Int
    PROVE  Min({a, b}) = IF a <= b THEN a ELSE b
<1> DEFINE m == IF a <= b THEN a ELSE b
<1>1. m \in {a, b} /\ \A y \in {a, b} : m =< y
  OBVIOUS
<1>2. \A x \in {a, b} : (\A y \in {a, b} : x =< y) => x = m
  OBVIOUS
<1> HIDE DEF m
<1>3. Min({a, b}) = m
  <2>1. Min({a, b}) \in {a, b} /\ \A y \in {a, b} : Min({a, b}) =< y
    BY <1>1 DEF Min
  <2> QED BY <1>2, <2>1
<1> QED BY <1>3 DEF m

\* The points for preferences are one of eight sums.
LEMMA MatchPoints ==
    ASSUME NEW seat, NEW req
    PROVE  Matches(seat, req) \in {0, 15, 25, 30, 40, 45, 55, 70}
BY DEF Matches, ZoneMatch, PowerMatch, WindowMatch

\* A preference of PowerMatch points or more decides, whatever popularity and chance do.
LEMMA PreferenceDecides ==
    ASSUME NEW seat, NEW other, NEW req,
           NEW b1 \in Busy, NEW b2 \in Busy, NEW c1 \in Chance, NEW c2 \in Chance,
           Matches(seat, req) - Matches(other, req) >= PowerMatch
    PROVE  Score(seat, req, b1, c1) > Score(other, req, b2, c2)
<1> DEFINE m1 == Matches(seat, req)
           m2 == Matches(other, req)
<1>1. m1 \in {0, 15, 25, 30, 40, 45, 55, 70} /\ m2 \in {0, 15, 25, 30, 40, 45, 55, 70}
  BY MatchPoints
<1>2. UtilDays \in Nat \ {0} /\ {b1, b2, c1, c2} \subseteq 0..UtilDays - 1
  BY SearchAssumption, FloorAssumption
<1>3. m1 - m2 >= 25
  BY DEF PowerMatch
<1> HIDE DEF m1, m2
<1>4. UtilDays * m1 >= UtilDays * m2 + 25 * UtilDays
  BY <1>1, <1>2, <1>3
<1>5. UtilDays * m1 - 20 * b1 + c1 > UtilDays * m2 - 20 * b2 + c2
  <2>1. UtilDays * m1 \in Int /\ UtilDays * m2 \in Int
    BY <1>1, <1>2
  <2> QED BY <1>2, <1>4, <2>1
<1> QED BY <1>5 DEF Score, UtilFactor, m1, m2

\* A score is a number.
LEMMA ScoreType ==
    ASSUME NEW seat, NEW req, NEW b \in Busy, NEW c \in Chance
    PROVE  Score(seat, req, b, c) \in Int
<1>1. Matches(seat, req) \in Int /\ UtilDays \in Int /\ b \in Int /\ c \in Int
  BY MatchPoints, SearchAssumption, FloorAssumption
<1> QED BY <1>1 DEF Score, UtilFactor

\* What is offered is the head of the ranking.
LEMMA OfferedBest ==
    ASSUME FloorTypeOK, IsFiniteSet(DOMAIN seats),
           NEW u \in Users, NEW slot \in Slots, NEW req \in Requests,
           NEW busy \in [ListCandidates(seats, bookings, slot) -> Busy],
           NEW chance \in [ListCandidates(seats, bookings, slot) -> Chance],
           NEW answered, ~(answered /\ HasBooking(bookings, u, slot)),
           NEW offer, offer = AutoAllocate(seats, bookings, u, slot, req, busy, chance, answered)
    PROVE  LET C == ListCandidates(seats, bookings, slot)
               beats(s, t) == Matches(seats[s], req) - Matches(seats[t], req) >= PowerMatch
           IN  /\ offer \in Seq(C)
               /\ \A i, j \in DOMAIN offer : i # j => offer[i] # offer[j]
               /\ \A i, j \in DOMAIN offer : i < j => ~beats(offer[j], offer[i])
               /\ \A s \in C : (\A i \in DOMAIN offer : offer[i] # s) =>
                    Len(offer) = TopN /\ \A i \in DOMAIN offer : ~beats(s, offer[i])
<1> DEFINE C == ListCandidates(seats, bookings, slot)
           ranking == ScoreCandidates(C, seats, req, busy, chance)
           score == [s \in C |-> Score(seats[s], req, busy[s], chance[s])]
           n == Len(ranking)
           m == IF TopN <= n THEN TopN ELSE n
           beats(s, t) == Matches(seats[s], req) - Matches(seats[t], req) >= PowerMatch
<1>1. IsFiniteSet(C) /\ C \subseteq Nat \X Nat
  <2>1. AllPlaces \subseteq Nat \X Nat
    <3> SUFFICES ASSUME NEW grid \in Grids PROVE Places(grid) \subseteq Nat \X Nat
      BY DEF AllPlaces
    <3>1. grid[1] \in Nat /\ grid[2] \in Nat
      BY FloorAssumption
    <3> QED BY <3>1 DEF Places
  <2>2. C \in SUBSET DOMAIN seats
    BY DEF ListCandidates
  <2> HIDE DEF C
  <2> QED BY <2>1, <2>2, FS_Subset DEF FloorTypeOK
<1>2. \A s \in C : score[s] \in Int
  BY ScoreType
<1>3. /\ ranking \in Seq(C)
      /\ \A i, j \in DOMAIN ranking : i < j => Ahead(ranking[i], ranking[j], score)
      /\ \A s \in C : \E i \in DOMAIN ranking : ranking[i] = s
  <2>1. score = Scores(C, seats, req, busy, chance) /\ score \in [C -> Int]
    BY <1>2 DEF Scores
  <2> HIDE DEF C, score
  <2> QED BY <1>1, <2>1, RankingSorts
<1>4. n \in Nat /\ TopN \in Nat \ {0} /\ DOMAIN ranking = 1..n /\ \A i \in 1..n : ranking[i] \in C
  <2> HIDE DEF ranking, C
  <2> QED BY <1>3, SearchAssumption
<1>5. \A s, t \in C : beats(s, t) => score[s] > score[t]
  <2> SUFFICES ASSUME NEW s \in C, NEW t \in C, beats(s, t) PROVE score[s] > score[t]
    OBVIOUS
  <2>1. busy[s] \in Busy /\ busy[t] \in Busy /\ chance[s] \in Chance /\ chance[t] \in Chance
    OBVIOUS
  <2>2. Score(seats[s], req, busy[s], chance[s]) > Score(seats[t], req, busy[t], chance[t])
    BY <2>1, PreferenceDecides
  <2> QED BY <2>2
<1> HIDE DEF score, beats
<1>6. \A s, t \in C : Ahead(s, t, score) => ~beats(t, s)
  BY <1>2, <1>5 DEF Ahead
<1>7. offer = SubSeq(ranking, 1, m)
  <2>1. Min({TopN, n}) = m
    BY <1>4, MinPair
  <2> QED BY <2>1 DEF AutoAllocate
<1>8. \A s \in C : ~Ahead(s, s, score)
  <2>1. score \in [C -> Int]
    BY <1>2 DEF score
  <2> QED BY <2>1, <1>1, AheadOrders
<1> HIDE DEF C, ranking, n
<1>9. /\ m \in 0..n /\ (m # n => m = TopN)
      /\ offer \in Seq(C) /\ Len(offer) = m /\ DOMAIN offer = 1..m
      /\ \A i \in 1..m : offer[i] = ranking[i]
  <2>1. m \in Nat /\ m <= n /\ (m # n => m = TopN)
    BY <1>4
  <2> HIDE DEF m
  <2>2. \A i \in 1..m : ranking[i] \in C
    BY <1>4, <2>1
  <2>3. /\ offer \in Seq(C) /\ Len(offer) = IF 1 <= m THEN m - 1 + 1 ELSE 0
        /\ \A i \in 1..m - 1 + 1 : offer[i] = ranking[1 + i - 1]
    BY <1>7, <2>1, <2>2, SubSeqProperties
  <2>4. m - 1 + 1 = m /\ \A i \in 1..m : 1 + i - 1 = i
    BY <2>1
  <2>5. Len(offer) = m
    BY <2>1, <2>3, <2>4
  <2> QED BY <1>4, <2>1, <2>3, <2>4, <2>5
<1> HIDE DEF m
<1>10. ASSUME NEW i \in 1..m, NEW j \in 1..m, i # j PROVE offer[i] # offer[j]
  <2>1. i \in 1..n /\ j \in 1..n /\ (i < j \/ j < i)
    BY <1>4, <1>9, <1>10
  <2> QED BY <1>3, <1>4, <1>8, <1>9, <2>1
<1>11. ASSUME NEW i \in 1..m, NEW j \in 1..m, i < j PROVE ~beats(offer[j], offer[i])
  <2>1. i \in 1..n /\ j \in 1..n
    BY <1>4, <1>9
  <2> QED BY <1>3, <1>4, <1>6, <1>9, <1>11, <2>1
<1>12. ASSUME NEW s \in C, \A i \in 1..m : offer[i] # s
       PROVE  Len(offer) = TopN /\ \A i \in 1..m : ~beats(s, offer[i])
  <2>1. PICK k \in 1..n : ranking[k] = s
    BY <1>3, <1>4
  <2>2. k > m /\ m # n
    BY <1>4, <1>9, <1>12, <2>1
  <2>3. \A i \in 1..m : i \in 1..n /\ i < k
    BY <1>4, <1>9, <2>2
  <2> QED BY <1>3, <1>4, <1>6, <1>9, <2>1, <2>2, <2>3
<1> QED BY <1>9, <1>10, <1>11, <1>12 DEF C, beats

\* Every allocation, in every state the room gets into, offers the best free seats there
\* are; they can be booked when the time lies within the hours and HasConflict answered.
THEOREM BestFirstSafe == FloorSpec => []BestFirst
<1>1. ASSUME FloorTypeOK, IsFiniteSet(DOMAIN seats) PROVE BestFirst
  <2> SUFFICES ASSUME NEW u \in Users, NEW slot \in Slots, NEW req \in Requests,
                      NEW answered \in BOOLEAN,
                      NEW busy \in [ListCandidates(seats, bookings, slot) -> Busy],
                      NEW chance \in [ListCandidates(seats, bookings, slot) -> Chance]
      PROVE  LET offer == AutoAllocate(seats, bookings, u, slot, req, busy, chance, answered)
                 left == {s \in DOMAIN seats : Free(s, slot)} \ Range(offer)
                 beats(s, t) == Matches(seats[s], req) - Matches(seats[t], req) >= PowerMatch
             IN /\ IsInjective(offer)
                /\ \A s \in Range(offer) :
                     Free(s, slot) /\ (answered /\ InHours(slot) => Bookable(s, u, slot))
                /\ \A i, j \in DOMAIN offer : i < j => ~beats(offer[j], offer[i])
                /\ left # {} /\ ~(answered /\ HasBooking(bookings, u, slot)) =>
                     Len(offer) = TopN /\ \A s \in left, t \in Range(offer) : ~beats(s, t)
    BY DEF BestFirst
  <2> DEFINE C == ListCandidates(seats, bookings, slot)
             offer == AutoAllocate(seats, bookings, u, slot, req, busy, chance, answered)
             beats(s, t) == Matches(seats[s], req) - Matches(seats[t], req) >= PowerMatch
             refused == answered /\ HasBooking(bookings, u, slot)
  <2>1. CASE refused
    <3>1. offer = <<>>
      BY <2>1 DEF AutoAllocate
    <3> HIDE DEF offer
    <3>2. DOMAIN offer = {} /\ Range(offer) = {}
      BY <3>1 DEF Range
    <3> QED BY <2>1, <3>2 DEF IsInjective, offer
  <2>2. CASE ~refused
    <3>1. C = {s \in DOMAIN seats : Free(s, slot)}
      BY DEF ListCandidates, Free
    <3>2. /\ offer \in Seq(C)
          /\ \A i, j \in DOMAIN offer : i # j => offer[i] # offer[j]
          /\ \A i, j \in DOMAIN offer : i < j => ~beats(offer[j], offer[i])
          /\ \A s \in C : (\A i \in DOMAIN offer : offer[i] # s) =>
               Len(offer) = TopN /\ \A i \in DOMAIN offer : ~beats(s, offer[i])
      BY <1>1, <2>2, OfferedBest
    <3> HIDE DEF C, offer, beats
    <3>3. IsInjective(offer)
      BY <3>2 DEF IsInjective
    <3>4. \A i \in DOMAIN offer : offer[i] \in C
      BY <3>2
    <3>5. ASSUME NEW s \in Range(offer)
          PROVE  s \in C /\ Free(s, slot) /\ (answered /\ InHours(slot) => Bookable(s, u, slot))
      <4>1. s \in C
        BY <3>4 DEF Range
      <4> QED BY <2>2, <3>1, <4>1 DEF Bookable
    <3>6. \A s \in C \ Range(offer) : Len(offer) = TopN /\ \A t \in Range(offer) : ~beats(s, t)
      BY <3>2 DEF Range
    <3> QED BY <3>1, <3>2, <3>3, <3>5, <3>6 DEF offer, beats
  <2> QED BY <2>1, <2>2
<1>2. FloorTypeOK /\ SeatsFinite => BestFirst
  BY <1>1 DEF SeatsFinite
<1> QED BY <1>2, FiniteRoom, PTL

\* Induction over the natural numbers, for a set.
LEMMA SetInduction ==
    ASSUME NEW T, 0 \in T, \A k \in Nat : k \in T => k + 1 \in T
    PROVE  Nat \subseteq T
<1> SUFFICES ASSUME Nat \ T # {} PROVE FALSE
  OBVIOUS
<1> DEFINE Missing == Nat \ T
<1>1. Missing \subseteq Nat /\ Missing # {}
  OBVIOUS
<1>2. PICK m \in Missing : \A k \in Missing : ~(<<k, m>> \in OpToRel(<, Nat))
  <2> HIDE DEF Missing
  <2> QED BY <1>1, NatLessThanWellFounded, WFMin
<1>3. \A k \in Missing : ~(k < m)
  BY <1>2, <1>1 DEF OpToRel
<1>4. m - 1 \in Nat /\ m - 1 < m
  OBVIOUS
<1>5. m - 1 \in Missing
  BY <1>4
<1> HIDE DEF Missing
<1> QED BY <1>3, <1>4, <1>5

\* Each set of positions of a sequence has a last one.
LEMMA LastPosition ==
    ASSUME NEW n \in Nat, NEW s \in SUBSET (1..n), s # {}
    PROVE  Max(s) \in s /\ \A i \in s : i <= Max(s)
<1> DEFINE Above == {m \in Nat : \A i \in s : i <= m}
<1>1. Above \subseteq Nat /\ n \in Above
  OBVIOUS
<1>2. PICK m \in Above : \A k \in Above : ~(<<k, m>> \in OpToRel(<, Nat))
  <2> HIDE DEF Above
  <2> QED BY <1>1, NatLessThanWellFounded, WFMin
<1>3. \A k \in Above : ~(k < m)
  BY <1>2, <1>1 DEF OpToRel
<1>4. m \in s
  <2> SUFFICES ASSUME m \notin s PROVE FALSE
    OBVIOUS
  <2>1. PICK j \in s : TRUE
    OBVIOUS
  <2>2. m \in Nat /\ j <= m /\ j # m /\ j \in 1..n
    BY <2>1
  <2>3. m - 1 \in Above
    BY <2>2
  <2> QED BY <2>2, <2>3, <1>3
<1>5. \A i \in s : i <= m
  OBVIOUS
<1> HIDE DEF Above
<1>6. \E x \in s : \A i \in s : x >= i
  BY <1>4, <1>5
<1> QED BY <1>6 DEF Max

\* Of a set that reaches up to k + 1 either k + 1 is the last, or it reaches up to k.
LEMMA LastOfNext ==
    ASSUME NEW k \in Nat, NEW s \in SUBSET (1..k+1), s # {}
    PROVE  /\ Max(s) \in s
           /\ k + 1 \in s => Max(s) = k + 1
           /\ k + 1 \notin s => s \in SUBSET (1..k)
           /\ s \ {k + 1} \in SUBSET (1..k)
<1>1. Max(s) \in s /\ \A i \in s : i <= Max(s)
  BY LastPosition
<1>2. Max(s) \in 1..k+1
  BY <1>1
<1>3. \A i \in s : i # k + 1 => i \in 1..k
  OBVIOUS
<1>4. k + 1 \in s => Max(s) = k + 1
  BY <1>1, <1>2
<1> QED BY <1>1, <1>3, <1>4

-------------------------------------------------------------------------------
(* The cards of the assistant. *)

\* What one proposed seat adds to the cards.
AddCard(rows, reserved, slot, found, cards, s) ==
    LET c == Card(rows, reserved, slot, found, s)
    IN IF Len(cards) < MaxCards /\ c.shown /\ \A k \in DOMAIN cards : cards[k].seat # s
         THEN Append(cards, c) ELSE cards

\* The fold of Cards, as the library computes it: f gives the cards that the proposals
\* at a set of positions lead to.
Folds(f, n, rows, reserved, slot, found, proposed) ==
    f = [s \in SUBSET (1..n) |->
            IF s = {} THEN <<>>
            ELSE AddCard(rows, reserved, slot, found, f[s \ {Max(s)}], proposed[Max(s)])]

\* There is such a function for every number of proposals.
LEMMA FoldsExist ==
    ASSUME NEW rows, NEW reserved, NEW slot, NEW found, NEW proposed
    PROVE  \A n \in Nat : \E f : Folds(f, n, rows, reserved, slot, found, proposed)
<1> DEFINE add(cards, s) == AddCard(rows, reserved, slot, found, cards, s)
           folds(f, n) == Folds(f, n, rows, reserved, slot, found, proposed)
           T == {n \in Nat : \E f : folds(f, n)}
<1>1. 0 \in T
  <2> DEFINE f == [s \in SUBSET (1..0) |-> <<>>]
  <2>1. \A s \in SUBSET (1..0) : s = {}
    OBVIOUS
  <2>2. folds(f, 0)
    BY <2>1 DEF Folds
  <2> QED BY <2>2
<1>2. ASSUME NEW n \in Nat, n \in T PROVE n + 1 \in T
  <2>1. PICK f : folds(f, n)
    BY <1>2
  <2>2. f = [s \in SUBSET (1..n) |->
               IF s = {} THEN <<>> ELSE add(f[s \ {Max(s)}], proposed[Max(s)])]
    BY <2>1 DEF Folds
  <2> HIDE DEF add
  <2>3. \A s \in SUBSET (1..n) :
          f[s] = IF s = {} THEN <<>> ELSE add(f[s \ {Max(s)}], proposed[Max(s)])
    BY <2>2
  <2> DEFINE h == [s \in SUBSET (1..n+1) |->
                     IF n + 1 \in s THEN add(f[s \ {n + 1}], proposed[n + 1]) ELSE f[s]]
  <2>4. ASSUME NEW s \in SUBSET (1..n+1)
        PROVE  h[s] = IF s = {} THEN <<>> ELSE add(h[s \ {Max(s)}], proposed[Max(s)])
    <3>1. CASE s = {}
      BY <3>1, <2>3
    <3>2. CASE n + 1 \in s
      <4>1. h[s] = add(f[s \ {n + 1}], proposed[n + 1]) /\ Max(s) = n + 1
        BY <3>2, LastOfNext
      <4>2. s \ {n + 1} \in SUBSET (1..n+1) /\ n + 1 \notin s \ {n + 1}
        OBVIOUS
      <4>3. h[s \ {n + 1}] = f[s \ {n + 1}]
        BY <4>2
      <4> HIDE DEF h
      <4> QED BY <4>1, <4>3, <3>2
    <3>3. CASE s # {} /\ n + 1 \notin s
      <4>1. s \in SUBSET (1..n) /\ Max(s) \in s
        BY <3>3, LastOfNext
      <4>2. s \ {Max(s)} \in SUBSET (1..n+1) /\ n + 1 \notin s \ {Max(s)}
        BY <3>3
      <4>3. h[s] = f[s] /\ h[s \ {Max(s)}] = f[s \ {Max(s)}]
        BY <4>2, <3>3
      <4> HIDE DEF h
      <4> QED BY <4>1, <4>3, <3>3, <2>3
    <3> QED BY <3>1, <3>2, <3>3
  <2>5. h = [s \in SUBSET (1..n+1) |-> h[s]]
    OBVIOUS
  <2>6. folds(h, n + 1)
    <3> HIDE DEF h
    <3> QED BY <2>4, <2>5 DEF Folds, add
  <2> HIDE DEF folds, h
  <2> QED BY <2>6
<1> HIDE DEF folds
<1>3. Nat \subseteq T
  <2> HIDE DEF T
  <2> QED BY <1>1, <1>2, SetInduction
<1> QED BY <1>3 DEF folds

\* Cards are of proposed seats that may be shown, each seat once, at most MaxCards.
WellShown(cards, rows, reserved, slot, found) ==
    /\ cards \in Seq({Card(rows, reserved, slot, found, s) : s \in Nat \X Nat})
    /\ Len(cards) <= MaxCards
    /\ \A i, j \in DOMAIN cards : i # j => cards[i].seat # cards[j].seat
    /\ \A i \in DOMAIN cards : cards[i].shown

\* One more proposal keeps them so.
LEMMA AddCardKeeps ==
    ASSUME NEW rows, NEW reserved, NEW slot, NEW found, NEW cards,
           WellShown(cards, rows, reserved, slot, found), NEW s \in Nat \X Nat
    PROVE  WellShown(AddCard(rows, reserved, slot, found, cards, s), rows, reserved, slot, found)
<1> DEFINE c == Card(rows, reserved, slot, found, s)
           All == {Card(rows, reserved, slot, found, p) : p \in Nat \X Nat}
<1>1. CASE Len(cards) < MaxCards /\ c.shown /\ \A k \in DOMAIN cards : cards[k].seat # s
  <2> DEFINE more == Append(cards, c)
  <2>1. AddCard(rows, reserved, slot, found, cards, s) = more
    BY <1>1 DEF AddCard
  <2>2. c.seat = s /\ c \in All
    BY DEF Card
  <2>3. cards \in Seq(All) /\ Len(cards) \in Nat
    BY DEF WellShown
  <2> HIDE DEF c, All
  <2>4. /\ more \in Seq(All) /\ Len(more) = Len(cards) + 1
        /\ \A i \in DOMAIN cards : more[i] = cards[i]
        /\ more[Len(cards) + 1] = c
        /\ \A i \in DOMAIN more : i \in DOMAIN cards \/ i = Len(cards) + 1
    BY <2>2, <2>3
  <2> HIDE DEF more
  <2>5. Len(more) <= MaxCards
    BY <1>1, <2>3, <2>4, SearchAssumption
  <2>6. ASSUME NEW i \in DOMAIN more, NEW j \in DOMAIN more, i # j
        PROVE  more[i].seat # more[j].seat
    <3>1. \A k \in DOMAIN cards : more[k].seat # s /\ more[k].seat = cards[k].seat
      BY <1>1, <2>4
    <3>2. more[Len(cards) + 1].seat = s
      BY <2>2, <2>4
    <3>3. \A k, l \in DOMAIN cards : k # l => cards[k].seat # cards[l].seat
      BY DEF WellShown
    <3> QED BY <2>4, <2>6, <3>1, <3>2, <3>3, Zenon
  <2>7. \A i \in DOMAIN more : more[i].shown
    BY <1>1, <2>4 DEF WellShown
  <2> QED BY <2>1, <2>4, <2>5, <2>6, <2>7 DEF WellShown, All
<1>2. CASE ~(Len(cards) < MaxCards /\ c.shown /\ \A k \in DOMAIN cards : cards[k].seat # s)
  <2>1. AddCard(rows, reserved, slot, found, cards, s) = cards
    BY <1>2, Zenon DEF AddCard
  <2> QED BY <2>1
<1> QED BY <1>1, <1>2

\* So all cards are.
LEMMA CardsWellShown ==
    ASSUME NEW rows, NEW reserved, NEW slot, NEW found, NEW proposed \in Seq(Nat \X Nat)
    PROVE  WellShown(Cards(rows, reserved, slot, found, proposed), rows, reserved, slot, found)
<1> DEFINE n == Len(proposed)
           folds(f) == Folds(f, n, rows, reserved, slot, found, proposed)
           shown(cards) == WellShown(cards, rows, reserved, slot, found)
<1>1. n \in Nat /\ DOMAIN proposed = 1..n /\ \A i \in 1..n : proposed[i] \in Nat \X Nat
  OBVIOUS
<1>2. Cards(rows, reserved, slot, found, proposed) = (CHOOSE f : folds(f))[1..n]
  BY <1>1 DEF Cards, FoldLeft, MapThenFoldSet, Folds, AddCard
<1> HIDE DEF n
<1>3. PICK f : folds(f) /\ f = CHOOSE g : folds(g)
  <2>1. \E f : folds(f)
    BY <1>1, FoldsExist
  <2> HIDE DEF folds
  <2> QED BY <2>1, Zenon
<1>4. \A s \in SUBSET (1..n) :
        f[s] = IF s = {} THEN <<>>
               ELSE AddCard(rows, reserved, slot, found, f[s \ {Max(s)}], proposed[Max(s)])
  <2>1. f = [s \in SUBSET (1..n) |->
               IF s = {} THEN <<>>
               ELSE AddCard(rows, reserved, slot, found, f[s \ {Max(s)}], proposed[Max(s)])]
    BY <1>3 DEF Folds
  <2> QED BY <2>1
<1> DEFINE T == {k \in Nat : k <= n => shown(f[1..k])}
<1>5. 0 \in T
  <2>0. 1..0 = {} /\ {} \in SUBSET (1..n)
    OBVIOUS
  <2>1. f[1..0] = <<>>
    BY <1>4, <2>0
  <2>2. shown(<<>>)
    BY SearchAssumption DEF WellShown
  <2> QED BY <2>1, <2>2
<1>6. ASSUME NEW k \in Nat, k \in T PROVE k + 1 \in T
  <2> SUFFICES ASSUME k + 1 <= n PROVE shown(f[1..k+1])
    OBVIOUS
  <2>1. shown(f[1..k])
    BY <1>1, <1>6
  <2>2. /\ 1..k+1 \in SUBSET (1..n) /\ 1..k+1 # {} /\ (1..k+1) \ {k + 1} = 1..k
        /\ k + 1 \in 1..k+1 /\ k + 1 \in 1..n
    <3>1. k + 1 \in 1..k+1 /\ k + 1 \in 1..n
      BY <1>1
    <3>2. \A i \in 1..k+1 : i \in 1..n
      BY <1>1
    <3>3. (1..k+1) \ {k + 1} = 1..k
      OBVIOUS
    <3> QED BY <3>1, <3>2, <3>3
  <2>3. Max(1..k+1) = k + 1
    BY <2>2, LastOfNext
  <2>4. f[1..k+1] = AddCard(rows, reserved, slot, found, f[1..k], proposed[k + 1])
    BY <1>4, <2>2, <2>3
  <2>5. proposed[k + 1] \in Nat \X Nat
    BY <1>1, <2>2
  <2> QED BY <2>1, <2>4, <2>5, AddCardKeeps
<1>7. n \in T
  <2> HIDE DEF T
  <2> QED BY <1>1, <1>5, <1>6, SetInduction
<1> QED BY <1>1, <1>2, <1>3, <1>7

\* What the assistant shows as bookable is free, whatever its model proposes, and can be
\* booked when the time lies within the hours and FindUserReservationInSlot answered.
THEOREM CardsBookableSafe == FloorSpec => []CardsBookable
<1>1. CardsBookable
  <2> SUFFICES ASSUME NEW u \in Users, NEW slot \in Slots, NEW proposed \in Proposals,
                      NEW answered \in BOOLEAN, NEW found \in Found(bookings, u, slot, answered),
                      NEW cards, cards = Cards(seats, bookings, slot, found, proposed)
      PROVE  /\ Len(cards) <= MaxCards
             /\ \A i, j \in DOMAIN cards : i # j => cards[i].seat # cards[j].seat
             /\ \A i \in DOMAIN cards :
                  /\ ~cards[i].disabled =>
                       /\ Free(cards[i].seat, slot)
                       /\ answered /\ InHours(slot) => Bookable(cards[i].seat, u, slot)
                  /\ cards[i].disabled => SlotBookings(bookings, u, slot) # {}
                  /\ cards[i].booked => \E k \in OfSeat(bookings, cards[i].seat) : bookings[k].user = u
    BY DEF CardsBookable
  <2>1. WellShown(cards, seats, bookings, slot, found)
    BY FloorAssumption, CardsWellShown
  <2>2. /\ found \subseteq SlotBookings(bookings, u, slot)
        /\ answered /\ found = {} => SlotBookings(bookings, u, slot) = {}
    BY DEF Found
  <2>3. SlotBookings(bookings, u, slot) = {} => ~HasBooking(bookings, u, slot)
    BY DEF SlotBookings, HasBooking
  <2>4. ASSUME NEW i \in DOMAIN cards
        PROVE  /\ ~cards[i].disabled =>
                    /\ Free(cards[i].seat, slot)
                    /\ answered /\ InHours(slot) => Bookable(cards[i].seat, u, slot)
               /\ cards[i].disabled => SlotBookings(bookings, u, slot) # {}
               /\ cards[i].booked => \E k \in OfSeat(bookings, cards[i].seat) : bookings[k].user = u
    <3>1. PICK s \in Nat \X Nat : cards[i] = Card(seats, bookings, slot, found, s)
      BY <2>1 DEF WellShown
    <3> DEFINE mine == \E k \in found : bookings[k].seat = s
               taken == Occupied(bookings, s, slot)
               disabled == found # {} \/ (taken /\ ~mine)
               shown == /\ s \in DOMAIN seats /\ seats[s].status = "available"
                        /\ ~(taken /\ ~mine /\ found = {})
    <3>0. cards[i] = [seat |-> s, booked |-> mine, disabled |-> disabled, shown |-> shown]
      BY <3>1, Zenon DEF Card
    <3>2. /\ cards[i].seat = s /\ cards[i].booked = mine
          /\ cards[i].disabled = disabled /\ cards[i].shown = shown
      <4> HIDE DEF mine, disabled, shown
      <4> QED BY <3>0
    <3>3. cards[i].shown
      BY <2>1 DEF WellShown
    <3>4. mine => \E k \in OfSeat(bookings, s) : bookings[k].user = u
      BY <2>2 DEF SlotBookings, OfSeat
    <3>5. found = {} => ~mine
      OBVIOUS
    <3> HIDE DEF mine, taken, disabled, shown
    <3>6. ~cards[i].disabled =>
            Free(s, slot) /\ (answered /\ InHours(slot) => Bookable(s, u, slot))
      BY <2>2, <2>3, <3>2, <3>3, <3>5 DEF Bookable, Free, taken, disabled, shown
    <3>7. cards[i].disabled => SlotBookings(bookings, u, slot) # {}
      BY <2>2, <3>2, <3>3 DEF disabled, shown
    <3> QED BY <3>2, <3>4, <3>6, <3>7
  <2> QED BY <2>1, <2>4 DEF WellShown
<1> QED BY <1>1, PTL

-------------------------------------------------------------------------------
(* The statistics. *)

\* Division with a remainder.
LEMMA Quotient ==
    ASSUME NEW a \in Nat, NEW h \in Nat \ {0}
    PROVE  a \div h \in Nat /\ a % h \in 0..h - 1 /\ a = h * (a \div h) + (a % h)
OBVIOUS

\* A larger factor gives at least one h more.
LEMMA Factor ==
    ASSUME NEW h \in Nat \ {0}, NEW p \in Nat, NEW q \in Nat, p < q
    PROVE  h * p + h <= h * q
<1>1. PICK d \in Nat : q = p + 1 + d
  <2>1. q - p - 1 \in Nat /\ q = p + 1 + (q - p - 1)
    OBVIOUS
  <2> QED BY <2>1
<1>2. h * q = h * p + h + h * d /\ h * d >= 0
  BY <1>1
<1>3. h * p \in Int /\ h * q \in Int /\ h * d \in Int
  BY <1>1
<1> QED BY <1>2, <1>3

\* A multiple leaves no remainder.
LEMMA Multiple ==
    ASSUME NEW h \in Nat \ {0}, NEW q \in Nat
    PROVE  (h * q) % h = 0 /\ h * q \in Nat
<1> DEFINE a == h * q
           d == a \div h
           r == a % h
<1>1. a \in Nat
  OBVIOUS
<1>2. d \in Nat /\ r \in 0..h - 1 /\ a = h * d + r
  BY <1>1, Quotient
<1> HIDE DEF d, r
<1>3. ~(d < q)
  <2> SUFFICES ASSUME d < q PROVE FALSE
    OBVIOUS
  <2>1. h * d + h <= h * q
    BY <1>2, Factor
  <2>2. h * d \in Int /\ h * q \in Int
    BY <1>2
  <2> QED BY <1>2, <2>1, <2>2
<1>4. ~(q < d)
  <2> SUFFICES ASSUME q < d PROVE FALSE
    OBVIOUS
  <2>1. h * q + h <= h * d
    BY <1>2, Factor
  <2>2. h * d \in Int /\ h * q \in Int
    BY <1>2
  <2> QED BY <1>2, <2>1, <2>2
<1>5. d = q
  BY <1>2, <1>3, <1>4
<1> HIDE DEF a
<1>6. h * d \in Int /\ a = h * d
  BY <1>2, <1>5 DEF a
<1>7. r = 0
  BY <1>2, <1>6
<1> QED BY <1>1, <1>7 DEF a, r

\* The full hours of a day, one after the other, fit into the opening hours.
LEMMA HoursFit ==
    ASSUME NEW day \in OpeningHours
    PROVE  /\ IsFiniteSet(Hours(day)) /\ Cardinality(Hours(day)) \in Nat
           /\ HourLen * Cardinality(Hours(day)) <= day.close - day.open
<1> DEFINE open == day.open
           length == day.close - day.open
           q == length \div HourLen
           r == length % HourLen
           number == [h \in Hours(day) |-> (h - open) \div HourLen]
<1>1. /\ open \in Nat /\ day.close \in Nat /\ length \in Nat /\ HourLen \in Nat \ {0}
      /\ day.close = open + length
  BY FloorAssumption, SearchAssumption
<1>2. q \in Nat /\ length = HourLen * q + r /\ r \in 0..HourLen - 1
  BY <1>1, Quotient
<1> HIDE DEF length, q, r, open
<1>3. ASSUME NEW h \in Hours(day)
      PROVE  /\ number[h] \in 0..q - 1
             /\ h = open + HourLen * number[h]
  <2> DEFINE k == (h - open) \div HourLen
  <2>1. h - open \in Nat /\ h + HourLen <= open + length /\ (h - open) % HourLen = 0
    BY <1>1 DEF Hours, open
  <2>2. k \in Nat /\ h - open = HourLen * k + 0
    BY <1>1, <2>1, Quotient
  <2> HIDE DEF k
  <2>3. HourLen * k \in Int /\ HourLen * q \in Int
    BY <1>1, <1>2, <2>2
  <2> DEFINE hk == HourLen * k
             hq == HourLen * q
  <2>4. hk < hq /\ h = open + hk
    <3>1. hk \in Int /\ hq \in Int /\ h - open = hk /\ length = hq + r
      BY <1>2, <2>2, <2>3
    <3>2. h \in Int
      BY <1>1 DEF Hours, open
    <3> HIDE DEF hk, hq
    <3> QED BY <1>1, <1>2, <2>1, <3>1, <3>2
  <2>5. ~(q < k)
    BY <1>1, <1>2, <2>2, <2>3, <2>4, Factor
  <2>6. q # k
    BY <2>3, <2>4
  <2>7. k \in 0..q - 1 /\ h = open + HourLen * k
    BY <1>1, <1>2, <2>2, <2>4, <2>5, <2>6
  <2> QED BY <2>7 DEF k
<1> HIDE DEF number
<1>4. number \in Injection(Hours(day), 0..q - 1)
  <2>1. number \in [Hours(day) -> 0..q - 1]
    <3>1. number = [h \in Hours(day) |-> number[h]]
      BY DEF number
    <3> QED BY <1>3, <3>1
  <2>2. \A g, h \in Hours(day) : number[g] = number[h] => g = h
    BY <1>3
  <2> QED BY <2>1, <2>2 DEF Injection, IsInjective
<1>5. IsFiniteSet(0..q - 1) /\ Cardinality(0..q - 1) = q
  <2>1. 0 \in Int /\ q - 1 \in Int
    BY <1>2
  <2>2. IsFiniteSet(0..q - 1) /\ Cardinality(0..q - 1) = IF 0 > q - 1 THEN 0 ELSE q - 1 - 0 + 1
    BY <2>1, FS_Interval
  <2> QED BY <1>2, <2>2
<1>6. /\ IsFiniteSet(Hours(day)) /\ Cardinality(Hours(day)) <= q
      /\ Cardinality(Hours(day)) \in Nat
  BY <1>4, <1>5, FS_Injection, FS_CardinalityType
<1> DEFINE c == Cardinality(Hours(day))
<1> HIDE DEF c
<1>7. HourLen * c <= HourLen * q
  <2>1. c \in Nat /\ c <= q
    BY <1>6 DEF c
  <2>2. CASE c = q
    BY <1>1, <1>2, <2>2
  <2>3. CASE c < q
    <3>1. HourLen * c + HourLen <= HourLen * q
      BY <1>1, <1>2, <2>1, <2>3, Factor
    <3>2. HourLen * c \in Int /\ HourLen * q \in Int
      BY <1>1, <1>2, <2>1
    <3> QED BY <1>1, <3>1, <3>2
  <2> QED BY <1>2, <2>1, <2>2, <2>3
<1>8. HourLen * c <= length
  <2>1. HourLen * c \in Int /\ HourLen * q \in Int
    BY <1>1, <1>2, <1>6 DEF c
  <2> QED BY <1>1, <1>2, <1>7, <2>1
<1> QED BY <1>6, <1>8 DEF c, length

\* Times of a booking.
LEMMA BookingTimes ==
    ASSUME FloorTypeOK, NEW i \in DOMAIN bookings
    PROVE  /\ bookings[i].from \in Nat /\ bookings[i].to \in Nat
           /\ bookings[i].from < bookings[i].to
           /\ bookings[i].seat \in DOMAIN seats
<1> DEFINE slot == <<bookings[i].from, bookings[i].to>>
<1>1. slot \in Slots /\ bookings[i].seat \in DOMAIN seats
  BY DEF FloorTypeOK
<1>2. slot[1] \in Nat /\ slot[2] \in Nat /\ slot[1] < slot[2]
  <2> HIDE DEF slot
  <2> QED BY <1>1, FloorAssumption
<1> QED BY <1>1, <1>2

\* A time in the full hours lies in one of them.
LEMMA HourOf ==
    ASSUME NEW day \in OpeningHours,
           NEW t \in day.open..day.open + HourLen * Cardinality(Hours(day)) - 1
    PROVE  \E h \in Hours(day) : t \in h..h + HourLen - 1
<1> DEFINE open == day.open
           c == Cardinality(Hours(day))
           a == t - open
           q == a \div HourLen
           r == a % HourLen
           h == open + HourLen * q
<1>1. /\ open \in Nat /\ day.close \in Nat /\ HourLen \in Nat \ {0} /\ c \in Nat
      /\ HourLen * c <= day.close - open
  BY FloorAssumption, SearchAssumption, HoursFit
<1>2. HourLen * c \in Int
  BY <1>1
<1> HIDE DEF c
<1>3. a \in Nat /\ a < HourLen * c /\ t = open + a
  BY <1>1, <1>2 DEF c
<1> HIDE DEF a, open
<1>4. q \in Nat /\ a = HourLen * q + r /\ r \in 0..HourLen - 1
  BY <1>1, <1>3, Quotient
<1> HIDE DEF q, r
<1>5. HourLen * q \in Nat /\ (HourLen * q) % HourLen = 0
  BY <1>1, <1>4, Multiple
<1>6. q < c
  <2>1. c # q
    BY <1>1, <1>2, <1>3, <1>4, <1>5
  <2>2. ~(c < q)
    <3> SUFFICES ASSUME c < q PROVE FALSE
      OBVIOUS
    <3>1. HourLen * c + HourLen <= HourLen * q
      BY <1>1, <1>4, Factor
    <3> QED BY <1>1, <1>2, <1>3, <1>4, <1>5, <3>1
  <2> QED BY <1>1, <1>4, <2>1, <2>2
<1>7. HourLen * q + HourLen <= HourLen * c
  BY <1>1, <1>4, <1>6, Factor
<1>8. h \in Nat /\ h >= open /\ h <= day.close - HourLen /\ h - open = HourLen * q
  BY <1>1, <1>2, <1>5, <1>7
<1>9. h \in Hours(day)
  <2> HIDE DEF h
  <2> QED BY <1>1, <1>5, <1>8 DEF Hours, open
<1>10. t \in h..h + HourLen - 1
  BY <1>1, <1>3, <1>4, <1>5
<1> HIDE DEF h
<1> QED BY <1>9, <1>10

\* The heat map, in every state.
LEMMA HeatmapTells == FloorTypeOK => HeatmapShows
<1> SUFFICES ASSUME FloorTypeOK, NEW s \in DOMAIN seats
             PROVE  /\ \A t \in room.open..room.open + HourLen * Cardinality(Hours(room)) - 1 :
                         (\E i \in CountedBookings(bookings) :
                             bookings[i].seat = s /\ Overlap(bookings[i], t, t + 1))
                          => \E h \in Hours(room) : t \in h..h + HourLen - 1 /\ Cell(bookings, s, h)
                    /\ \A h \in Hours(room) : Cell(bookings, s, h) =>
                         \E t \in h..h + HourLen - 1, i \in CountedBookings(bookings) :
                            bookings[i].seat = s /\ Overlap(bookings[i], t, t + 1)
  BY DEF HeatmapShows
<1>1. room \in OpeningHours /\ room.open \in Nat /\ room.close \in Nat /\ HourLen \in Nat \ {0}
  BY FloorAssumption, SearchAssumption DEF FloorTypeOK
<1>2. \A i \in CountedBookings(bookings) :
        /\ bookings[i].from \in Nat /\ bookings[i].to \in Nat
        /\ bookings[i].from < bookings[i].to
  BY BookingTimes DEF CountedBookings
<1>3. ASSUME NEW t \in room.open..room.open + HourLen * Cardinality(Hours(room)) - 1,
             NEW i \in CountedBookings(bookings),
             bookings[i].seat = s, Overlap(bookings[i], t, t + 1)
      PROVE  \E h \in Hours(room) : t \in h..h + HourLen - 1 /\ Cell(bookings, s, h)
  <2>1. PICK h \in Hours(room) : t \in h..h + HourLen - 1
    BY <1>1, HourOf
  <2>2. h \in Int /\ t \in Int
    BY <1>1, <2>1 DEF Hours
  <2>3. Overlap(bookings[i], h, h + HourLen)
    BY <1>1, <1>2, <1>3, <2>1, <2>2 DEF Overlap
  <2> QED BY <1>3, <2>1, <2>3 DEF Cell
<1>4. ASSUME NEW h \in Hours(room), Cell(bookings, s, h)
      PROVE  \E t \in h..h + HourLen - 1, i \in CountedBookings(bookings) :
                bookings[i].seat = s /\ Overlap(bookings[i], t, t + 1)
  <2>1. PICK i \in CountedBookings(bookings) :
          bookings[i].seat = s /\ Overlap(bookings[i], h, h + HourLen)
    BY <1>4 DEF Cell
  <2> DEFINE from == bookings[i].from
             to == bookings[i].to
             t == IF from <= h THEN h ELSE from
  <2>2. from \in Nat /\ to \in Nat /\ from < to /\ h \in Int /\ from < h + HourLen /\ h < to
    BY <1>1, <1>2, <2>1 DEF Hours, Overlap
  <2>3. t \in h..h + HourLen - 1 /\ from < t + 1 /\ t < to
    <3> HIDE DEF from, to
    <3> QED BY <1>1, <2>2
  <2> HIDE DEF t
  <2> QED BY <2>1, <2>3 DEF Overlap
<1> QED BY <1>3, <1>4

\* The larger of two numbers.
LEMMA MaxPair ==
    ASSUME NEW a \in Int, NEW b \in Int
    PROVE  Max({a, b}) = IF a >= b THEN a ELSE b
<1> DEFINE m == IF a >= b THEN a ELSE b
<1>1. m \in {a, b} /\ \A y \in {a, b} : m >= y
  OBVIOUS
<1>2. \A x \in {a, b} : (\A y \in {a, b} : x >= y) => x = m
  OBVIOUS
<1> HIDE DEF m
<1>3. Max({a, b}) = m
  <2>1. Max({a, b}) \in {a, b} /\ \A y \in {a, b} : Max({a, b}) >= y
    BY <1>1 DEF Max
  <2> QED BY <1>2, <2>1
<1> QED BY <1>3 DEF m

\* The sum behind Used, as the library computes it: one booking after the other.
Sums(g, day, rows) ==
    g = [K \in SUBSET CountedBookings(rows) |->
            IF K = {} THEN 0
            ELSE UsedTime(day, rows[CHOOSE i \in K : TRUE]) + g[K \ {CHOOSE i \in K : TRUE}]]

\* Two such sums of finitely many bookings are the same.
LEMMA OneSum ==
    ASSUME NEW day, NEW rows, IsFiniteSet(CountedBookings(rows)),
           NEW f, Sums(f, day, rows), NEW g, Sums(g, day, rows)
    PROVE  f = g
<1> DEFINE S == CountedBookings(rows)
           x(K) == CHOOSE i \in K : TRUE
           Differ == {K \in SUBSET S : f[K] # g[K]}
<1>1. /\ f = [K \in SUBSET S |-> IF K = {} THEN 0 ELSE UsedTime(day, rows[x(K)]) + f[K \ {x(K)}]]
      /\ g = [K \in SUBSET S |-> IF K = {} THEN 0 ELSE UsedTime(day, rows[x(K)]) + g[K \ {x(K)}]]
  BY DEF Sums
<1> HIDE DEF S
<1>2. \A K \in SUBSET S :
        /\ f[K] = IF K = {} THEN 0 ELSE UsedTime(day, rows[x(K)]) + f[K \ {x(K)}]
        /\ g[K] = IF K = {} THEN 0 ELSE UsedTime(day, rows[x(K)]) + g[K \ {x(K)}]
  BY <1>1
<1>3. ASSUME Differ # {} PROVE FALSE
  <2>1. IsWellFoundedOn(StrictSubsetOrdering(S), SUBSET S)
    BY FS_StrictSubsetOrderingWellFounded, FS_FiniteSubsetsOfFinite DEF S
  <2>2. Differ \subseteq SUBSET S
    OBVIOUS
  <2>3. PICK K \in Differ : \A L \in Differ : ~(<<L, K>> \in StrictSubsetOrdering(S))
    <3> HIDE DEF Differ
    <3> QED BY <1>3, <2>1, <2>2, WFMin
  <2>4. K # {} /\ K \in SUBSET S /\ f[K] # g[K]
    BY <1>2
  <2>5. x(K) \in K
    BY <2>4
  <2> HIDE DEF x
  <2>6. K \ {x(K)} \in SUBSET S /\ K \ {x(K)} \subseteq K /\ K \ {x(K)} # K
    BY <2>4, <2>5
  <2>7. <<K \ {x(K)}, K>> \in StrictSubsetOrdering(S)
    BY <2>4, <2>6 DEF StrictSubsetOrdering
  <2>8. f[K \ {x(K)}] = g[K \ {x(K)}]
    BY <2>3, <2>6, <2>7
  <2> QED BY <1>2, <2>4, <2>8
<1>4. \A K \in SUBSET S : f[K] = g[K]
  BY <1>3
<1>5. f = [K \in SUBSET S |-> f[K]] /\ g = [K \in SUBSET S |-> g[K]]
  <2>1. f = [K \in SUBSET S |-> IF K = {} THEN 0 ELSE UsedTime(day, rows[x(K)]) + f[K \ {x(K)}]]
    BY <1>1
  <2>2. g = [K \in SUBSET S |-> IF K = {} THEN 0 ELSE UsedTime(day, rows[x(K)]) + g[K \ {x(K)}]]
    BY <1>1
  <2> QED BY <2>1, <2>2
<1> QED BY <1>4, <1>5

\* So Used is what any such sum gives for all the bookings that count.
LEMMA UsedIsSum ==
    ASSUME NEW day, NEW rows, IsFiniteSet(CountedBookings(rows)), NEW g, Sums(g, day, rows)
    PROVE  Used(day, rows) = g[CountedBookings(rows)]
<1>1. Used(day, rows) = (CHOOSE f : Sums(f, day, rows))[CountedBookings(rows)]
  BY DEF Used, MapThenSumSet, MapThenFoldSet, Sums
<1>2. Sums(CHOOSE f : Sums(f, day, rows), day, rows)
  BY Zenon
<1>3. (CHOOSE f : Sums(f, day, rows)) = g
  BY <1>2, OneSum
<1> QED BY <1>1, <1>3

\* As many pairs with i as there are elements.
LEMMA Paired ==
    ASSUME NEW i, NEW T, IsFiniteSet(T)
    PROVE  IsFiniteSet({i} \X T) /\ Cardinality({i} \X T) = Cardinality(T)
<1> DEFINE P == {i}
<1>1. IsFiniteSet(P) /\ Cardinality(P) = 1
  BY FS_Singleton
<1> HIDE DEF P
<1>2. IsFiniteSet(P \X T) /\ Cardinality(P \X T) = Cardinality(P) * Cardinality(T)
  BY <1>1, FS_Product
<1>3. Cardinality(T) \in Nat
  BY FS_CardinalityType
<1>4. Cardinality(P) * Cardinality(T) = Cardinality(T)
  <2>1. 1 * Cardinality(T) = Cardinality(T)
    BY <1>3
  <2> QED BY <1>1, <2>1, Zenon
<1> QED BY <1>2, <1>4 DEF P

\* Two sets that share nothing.
LEMMA DisjointUnion ==
    ASSUME NEW S, NEW T, IsFiniteSet(S), IsFiniteSet(T), S \cap T = {}
    PROVE  /\ IsFiniteSet(S \cup T)
           /\ Cardinality(S \cup T) = Cardinality(S) + Cardinality(T)
           /\ Cardinality(S) \in Nat /\ Cardinality(T) \in Nat
<1>1. Cardinality(S) \in Nat /\ Cardinality(T) \in Nat
  BY FS_CardinalityType
<1>2. Cardinality(S \cap T) = 0
  BY FS_EmptySet
<1>3. /\ IsFiniteSet(S \cup T)
      /\ Cardinality(S \cup T) = Cardinality(S) + Cardinality(T) - Cardinality(S \cap T)
  BY FS_Union
<1> QED BY <1>1, <1>2, <1>3

\* Finitely many finite sets.
LEMMA FiniteImage ==
    ASSUME NEW K, IsFiniteSet(K), NEW f, DOMAIN f = K, \A i \in K : IsFiniteSet(f[i])
    PROVE  IsFiniteSet(UNION {f[i] : i \in K})
<1> DEFINE T == {f[i] : i \in K}
           h == [i \in K |-> f[i]]
<1>1. h \in Surjection(K, T)
  BY DEF Surjection
<1>2. IsFiniteSet(T)
  <2> HIDE DEF T, h
  <2> QED BY <1>1, FS_Surjection
<1> QED BY <1>2, FS_UNION

\* The numbers from one to before another.
LEMMA Span ==
    ASSUME NEW a \in Int, NEW b \in Int
    PROVE  /\ IsFiniteSet(a..b - 1)
           /\ a <= b => Cardinality(a..b - 1) = b - a
           /\ b <= a => a..b - 1 = {}
<1>1. b - 1 \in Int
  OBVIOUS
<1>2. /\ IsFiniteSet(a..b - 1)
      /\ Cardinality(a..b - 1) = IF a > b - 1 THEN 0 ELSE (b - 1) - a + 1
  BY <1>1, FS_Interval
<1>3. a <= b => Cardinality(a..b - 1) = b - a
  BY <1>2
<1>4. b <= a => a..b - 1 = {}
  OBVIOUS
<1> QED BY <1>2, <1>3, <1>4

\* What UsedTime says of one booking: its time within the hours, or how far they are off.
LEMMA TimeOfOne ==
    ASSUME FloorTypeOK, NEW i \in DOMAIN bookings
    PROVE  /\ IsFiniteSet(Sat({i})) /\ IsFiniteSet(Off({i}))
           /\ UsedTime(room, bookings[i]) = Cardinality(Sat({i})) - Cardinality(Off({i}))
<1> DEFINE b == bookings[i]
           from == b.from
           to == b.to
           open == room.open
           close == room.close
           hours == {t \in Units : Overlap(b, t, t + 1)}
           gap == (to..open - 1) \cup (close..from - 1)
           lo == IF from >= open THEN from ELSE open
           hi == IF to <= close THEN to ELSE close
<1>1. /\ from \in Int /\ to \in Int /\ from < to
      /\ open \in Int /\ close \in Int /\ open < close
  BY BookingTimes, FloorAssumption DEF FloorTypeOK
<1>2. UsedTime(room, b) = hi - lo
  BY <1>1, MinPair, MaxPair DEF UsedTime
<1>3. Sat({i}) = {i} \X hours /\ Off({i}) = {i} \X gap
  <2>1. Sat({i}) = UNION {{i} \X hours} /\ Off({i}) = UNION {{i} \X gap}
    BY DEF Sat, Off
  <2> HIDE DEF hours, gap
  <2> QED BY <2>1
<1>4. hours = {t \in open..close - 1 : from < t + 1 /\ t < to}
  BY DEF Units, Overlap
<1> HIDE DEF b, from, to, open, close, hours
<1>5. hours = lo..hi - 1
  BY <1>1, <1>4
<1>6. lo \in Int /\ hi \in Int
  BY <1>1
<1>7. /\ IsFiniteSet(hours) /\ IsFiniteSet(gap)
      /\ hi - lo = Cardinality(hours) - Cardinality(gap)
  <2>1. CASE open < to /\ from < close
    <3>1. gap = {} /\ lo <= hi
      BY <1>1, <2>1
    <3> HIDE DEF lo, hi, gap
    <3>2. IsFiniteSet(hours) /\ Cardinality(hours) = hi - lo
      BY <1>5, <1>6, <3>1, Span
    <3>3. IsFiniteSet(gap) /\ Cardinality(gap) = 0
      BY <3>1, FS_EmptySet
    <3> QED BY <1>6, <3>2, <3>3
  <2>2. CASE to <= open
    <3>1. hours = {} /\ gap = to..open - 1 /\ hi - lo = to - open
      BY <1>1, <1>5, <2>2
    <3> HIDE DEF lo, hi, gap
    <3>2. IsFiniteSet(gap) /\ Cardinality(gap) = open - to
      BY <1>1, <2>2, <3>1, Span
    <3>3. IsFiniteSet(hours) /\ Cardinality(hours) = 0
      BY <3>1, FS_EmptySet
    <3> QED BY <1>1, <3>1, <3>2, <3>3
  <2>3. CASE close <= from
    <3>1. hours = {} /\ gap = close..from - 1 /\ hi - lo = close - from
      BY <1>1, <1>5, <2>3
    <3> HIDE DEF lo, hi, gap
    <3>2. IsFiniteSet(gap) /\ Cardinality(gap) = from - close
      BY <1>1, <2>3, <3>1, Span
    <3>3. IsFiniteSet(hours) /\ Cardinality(hours) = 0
      BY <3>1, FS_EmptySet
    <3> QED BY <1>1, <3>1, <3>2, <3>3
  <2> QED BY <1>1, <2>1, <2>2, <2>3
<1> HIDE DEF gap, lo, hi
<1>8. /\ IsFiniteSet({i} \X hours) /\ Cardinality({i} \X hours) = Cardinality(hours)
      /\ IsFiniteSet({i} \X gap) /\ Cardinality({i} \X gap) = Cardinality(gap)
  BY <1>7, Paired
<1> QED BY <1>2, <1>3, <1>7, <1>8 DEF b

\* The times of finitely many bookings are finite.
LEMMA TimesFinite ==
    ASSUME FloorTypeOK, NEW K \in SUBSET DOMAIN bookings, IsFiniteSet(K)
    PROVE  /\ IsFiniteSet(Sat(K)) /\ Cardinality(Sat(K)) \in Nat
           /\ IsFiniteSet(Off(K)) /\ Cardinality(Off(K)) \in Nat
<1> DEFINE sat == [i \in K |-> Sat({i})]
           off == [i \in K |-> Off({i})]
<1>1. \A i \in K : IsFiniteSet(sat[i]) /\ IsFiniteSet(off[i])
  BY TimeOfOne
<1>2. Sat(K) = UNION {sat[i] : i \in K} /\ Off(K) = UNION {off[i] : i \in K}
  BY DEF Sat, Off
<1>3. DOMAIN sat = K /\ DOMAIN off = K
  OBVIOUS
<1> HIDE DEF sat, off
<1>4. IsFiniteSet(Sat(K)) /\ IsFiniteSet(Off(K))
  BY <1>1, <1>2, <1>3, FiniteImage
<1> QED BY <1>4, FS_CardinalityType

\* One booking more adds what UsedTime says.
LEMMA TimesAdd ==
    ASSUME FloorTypeOK, NEW K \in SUBSET DOMAIN bookings, IsFiniteSet(K), NEW i \in K
    PROVE  Cardinality(Sat(K)) - Cardinality(Off(K))
             = UsedTime(room, bookings[i])
                 + (Cardinality(Sat(K \ {i})) - Cardinality(Off(K \ {i})))
<1>0. IsFiniteSet(K \ {i}) /\ K \ {i} \in SUBSET DOMAIN bookings
  BY FS_RemoveElement
<1>a. IsFiniteSet(Sat(K \ {i})) /\ IsFiniteSet(Off(K \ {i}))
  BY <1>0, TimesFinite
<1>1. K = {i} \cup (K \ {i})
  OBVIOUS
<1>2. ASSUME NEW x \in Sat({i}), x \in Sat(K \ {i}) PROVE FALSE
  BY <1>2 DEF Sat
<1>3. ASSUME NEW x \in Off({i}), x \in Off(K \ {i}) PROVE FALSE
  BY <1>3 DEF Off
<1>4. Sat(K) = Sat({i}) \cup Sat(K \ {i})
  BY <1>1 DEF Sat
<1>5. Off(K) = Off({i}) \cup Off(K \ {i})
  BY <1>1 DEF Off
<1>6. /\ IsFiniteSet(Sat({i})) /\ IsFiniteSet(Off({i}))
      /\ UsedTime(room, bookings[i]) = Cardinality(Sat({i})) - Cardinality(Off({i}))
  BY TimeOfOne
<1>7. Sat({i}) \cap Sat(K \ {i}) = {} /\ Off({i}) \cap Off(K \ {i}) = {}
  BY <1>2, <1>3
<1>8. /\ IsFiniteSet(Sat(K))
      /\ Cardinality(Sat(K)) = Cardinality(Sat({i})) + Cardinality(Sat(K \ {i}))
  BY <1>4, <1>6, <1>7, <1>a, DisjointUnion
<1>9. /\ IsFiniteSet(Off(K))
      /\ Cardinality(Off(K)) = Cardinality(Off({i})) + Cardinality(Off(K \ {i}))
  BY <1>5, <1>6, <1>7, <1>a, DisjointUnion
<1>10. /\ Cardinality(Sat({i})) \in Nat /\ Cardinality(Sat(K \ {i})) \in Nat
       /\ Cardinality(Off({i})) \in Nat /\ Cardinality(Off(K \ {i})) \in Nat
  BY <1>6, <1>a, FS_CardinalityType
<1> QED BY <1>6, <1>8, <1>9, <1>10

\* What the trend adds up is the time within the hours, less the time they are off.
LEMMA UsedIsTimes ==
    ASSUME FloorTypeOK, IsFiniteSet(CountedBookings(bookings))
    PROVE  Used(room, bookings) = Cardinality(Sat(CountedBookings(bookings)))
                                    - Cardinality(Off(CountedBookings(bookings)))
<1> DEFINE S == CountedBookings(bookings)
           g == [K \in SUBSET S |-> Cardinality(Sat(K)) - Cardinality(Off(K))]
<1>1. S \subseteq DOMAIN bookings
  BY DEF CountedBookings
<1>2. \A K \in SUBSET S : IsFiniteSet(K) /\ K \in SUBSET DOMAIN bookings
  BY <1>1, FS_Subset
<1>3. ASSUME NEW K \in SUBSET S, K # {}
      PROVE  g[K] = UsedTime(room, bookings[CHOOSE i \in K : TRUE])
                      + g[K \ {CHOOSE i \in K : TRUE}]
  <2> DEFINE i == CHOOSE j \in K : TRUE
  <2>1. i \in K
    BY <1>3
  <2> HIDE DEF i
  <2>2. K \ {i} \in SUBSET S
    OBVIOUS
  <2>3. Cardinality(Sat(K)) - Cardinality(Off(K))
          = UsedTime(room, bookings[i])
              + (Cardinality(Sat(K \ {i})) - Cardinality(Off(K \ {i})))
    BY <1>2, <2>1, TimesAdd
  <2>4. g[K] = UsedTime(room, bookings[i]) + g[K \ {i}]
    BY <2>2, <2>3
  <2> QED BY <2>4 DEF i
<1>4. g[{}] = 0
  <2>1. Sat({}) = {} /\ Off({}) = {}
    BY DEF Sat, Off
  <2> QED BY <2>1, FS_EmptySet
<1>5. Sums(g, room, bookings)
  <2>1. g = [K \in SUBSET S |-> g[K]]
    OBVIOUS
  <2> HIDE DEF g
  <2>2. \A K \in SUBSET S :
          g[K] = IF K = {} THEN 0
                 ELSE UsedTime(room, bookings[CHOOSE i \in K : TRUE])
                        + g[K \ {CHOOSE i \in K : TRUE}]
    BY <1>3, <1>4
  <2> QED BY <2>1, <2>2 DEF Sums
<1>6. g[S] = Cardinality(Sat(S)) - Cardinality(Off(S))
  OBVIOUS
<1> HIDE DEF g
<1> QED BY <1>5, <1>6, UsedIsSum

\* A seat that nobody shares is taken for the time its bookings have.
LEMMA SatIsTaken ==
    ASSUME FloorTypeOK, NEW K \in SUBSET DOMAIN bookings, IsFiniteSet(K),
           \A i, j \in K : i # j /\ bookings[i].seat = bookings[j].seat
                             => ~Overlap(bookings[i], bookings[j].from, bookings[j].to)
    PROVE  Cardinality(Sat(K)) = Cardinality(Taken(K))
<1> DEFINE f == [x \in Sat(K) |-> <<bookings[x[1]].seat, x[2]>>]
<1>1. \A x : x \in Sat(K) <=> /\ x = <<x[1], x[2]>> /\ x[1] \in K /\ x[2] \in Units
                               /\ Overlap(bookings[x[1]], x[2], x[2] + 1)
  BY DEF Sat
<1>2. Units \subseteq Int
  BY DEF Units
<1>3. \A i \in K : /\ bookings[i].from \in Int /\ bookings[i].to \in Int
                    /\ bookings[i].seat \in DOMAIN seats
  BY BookingTimes
<1>4. ASSUME NEW x \in Sat(K) PROVE f[x] \in Taken(K)
  <2>1. /\ x[1] \in K /\ x[2] \in Units /\ Overlap(bookings[x[1]], x[2], x[2] + 1)
        /\ bookings[x[1]].seat \in DOMAIN seats
    BY <1>1, <1>3
  <2>2. <<bookings[x[1]].seat, x[2]>> \in Taken(K)
    BY <2>1 DEF Taken
  <2> QED BY <2>2
<1>5. ASSUME NEW st \in Taken(K) PROVE \E x \in Sat(K) : f[x] = st
  <2>1. PICK i \in K : bookings[i].seat = st[1] /\ Overlap(bookings[i], st[2], st[2] + 1)
    BY DEF Taken
  <2>2. st = <<st[1], st[2]>> /\ st[2] \in Units
    BY DEF Taken
  <2>3. <<i, st[2]>> \in Sat(K)
    BY <2>1, <2>2 DEF Sat
  <2>4. f[<<i, st[2]>>] = st
    BY <2>1, <2>2, <2>3
  <2> QED BY <2>3, <2>4
<1>6. ASSUME NEW x \in Sat(K), NEW y \in Sat(K), f[x] = f[y] PROVE x = y
  <2>1. /\ x = <<x[1], x[2]>> /\ x[1] \in K /\ x[2] \in Units
        /\ Overlap(bookings[x[1]], x[2], x[2] + 1)
        /\ y = <<y[1], y[2]>> /\ y[1] \in K
        /\ Overlap(bookings[y[1]], y[2], y[2] + 1)
    BY <1>1
  <2>2. bookings[x[1]].seat = bookings[y[1]].seat /\ x[2] = y[2]
    BY <1>6
  <2>3. x[1] = y[1]
    <3>1. x[2] \in Int
      BY <1>2, <2>1
    <3>2. Overlap(bookings[x[1]], bookings[y[1]].from, bookings[y[1]].to)
      BY <1>3, <2>1, <2>2, <3>1 DEF Overlap
    <3> QED BY <2>1, <2>2, <3>2
  <2> QED BY <2>1, <2>2, <2>3
<1>7. f \in Surjection(Sat(K), Taken(K)) /\ f \in Injection(Sat(K), Taken(K))
  <2>1. f \in [Sat(K) -> Taken(K)]
    BY <1>4
  <2> HIDE DEF f
  <2> QED BY <1>5, <1>6, <2>1 DEF Surjection, Injection, IsInjective
<1> HIDE DEF f
<1>8. IsFiniteSet(Sat(K))
  BY TimesFinite
<1> QED BY <1>7, <1>8, FS_Surjection

\* The hours of the trend, in every state.
LEMMA TrendTells == FloorTypeOK => TrendCounts
<1> SUFFICES ASSUME FloorTypeOK PROVE TrendCounts
  OBVIOUS
<1> DEFINE S == CountedBookings(bookings)
<1>1. IsFiniteSet(S) /\ S \in SUBSET DOMAIN bookings
  <2>1. S \subseteq DOMAIN bookings /\ S \in SUBSET (1..MaxBookings)
    BY DEF FloorTypeOK, CountedBookings
  <2> HIDE DEF S
  <2>2. 1 \in Int /\ MaxBookings \in Int
    BY FloorAssumption
  <2>3. IsFiniteSet(1..MaxBookings)
    BY <2>2, FS_Interval
  <2> QED BY <2>1, <2>3, FS_Subset
<1>2. Used(room, bookings) = Cardinality(Sat(S)) - Cardinality(Off(S))
  BY <1>1, UsedIsTimes
<1>3. ASSUME \A i, j \in S : i # j /\ bookings[i].seat = bookings[j].seat
                               => ~Overlap(bookings[i], bookings[j].from, bookings[j].to)
      PROVE  Cardinality(Sat(S)) = Cardinality(Taken(S))
  <2> HIDE DEF S
  <2> QED BY <1>1, <1>3, SatIsTaken
<1> QED BY <1>2, <1>3 DEF TrendCounts

\* What the statistics tell of any room follows from what happened there: the heat map
\* shows the hours seats were taken; the trend the time of each booking in the hours,
\* less the time the hours are off it.
THEOREM StatisticsRight == FloorSpec => []StatisticsSound
<1>1. FloorTypeOK => StatisticsSound
  BY HeatmapTells, TrendTells DEF StatisticsSound
<1> QED BY <1>1, FloorTypeCorrect, PTL

-------------------------------------------------------------------------------
(* The cache: types *)

\* What a reader, a cache and a writer may hold.
Readings == [pc : {"idle", "store"}, key : Keys, age : Ages, ticks : 0..CallTime]
CacheOK == cache \in [Keys -> [age : Ages, left : Nat]] /\ \A k \in Keys : cache[k].left <= TTL(k)
Writings == [pc : {"idle", "del", "scan"}, todo : SUBSET Stats, found : SUBSET Stats]

\* The bounds are natural numbers, and there is an age for every entry and every call.
LEMMA Bounds ==
    /\ MaxAge \in Nat /\ CallTime <= MaxAge
    /\ Ages \subseteq Int /\ Current \in Ages /\ 0 \in Ages
    /\ \A k \in Keys : TTL(k) \in Nat \ {0} /\ JitterTTL < TTL(k)
BY CacheAssumption DEF MaxAge, Ages, Current, TTL, Keys

\* An age is a number.
LEMMA AgeInt == ASSUME NEW age \in Ages PROVE age \in Int
BY Bounds DEF Ages, Current

\* To be superseded, or older, is an age, and at most a tick more.
LEMMA AgeSteps ==
    ASSUME NEW age \in Ages
    PROVE  /\ Superseded(age) \in Ages /\ Older(age) \in Ages
           /\ Older(age) <= age + 1
           /\ Superseded(age) = age \/ (age = Current /\ Superseded(age) = 0)
BY Bounds DEF Ages, Superseded, Older, Current

\* A function that is given key by key is known by its values.
LEMMA EntryOK ==
    ASSUME TypeOK, NEW k \in Keys
    PROVE  /\ cache[k] \in [age : Ages, left : 0..TTL(k)]
           /\ NoEntry \in [age : Ages, left : 0..TTL(k)]
           /\ [cache[k] EXCEPT !.age = Superseded(@)] \in [age : Ages, left : 0..TTL(k)]
BY Bounds, AgeSteps DEF TypeOK, NoEntry

\* A cache is known by its entries.
LEMMA CacheByKeys ==
    ASSUME cache' = [k \in Keys |-> cache'[k]],
           \A k \in Keys : cache'[k] \in [age : Ages, left : 0..TTL(k)]
    PROVE  CacheOK'
<1>1. \A k \in Keys : cache'[k] \in [age : Ages, left : Nat] /\ cache'[k].left <= TTL(k)
  BY Bounds
<1> QED BY <1>1 DEF CacheOK

\* The first state is well typed.
LEMMA InitTypeOK == Init => TypeOK
<1> SUFFICES ASSUME Init PROVE TypeOK
  OBVIOUS
<1>1. Idle \in Readings /\ Done \in Writings
  BY Bounds, CacheAssumption DEF Idle, Done, Readings, Writings, Keys
<1>2. \A k \in Keys : NoEntry \in [age : Ages, left : 0..TTL(k)]
  BY Bounds DEF NoEntry
<1> QED BY <1>1, <1>2 DEF Init, TypeOK, Readings, Writings

\* Every step keeps the types.
LEMMA NextTypeOK == TypeOK /\ [Next]_vars => TypeOK'
<1> SUFFICES ASSUME TypeOK, [Next]_vars PROVE TypeOK'
  OBVIOUS
<1> USE DEF Readings, Writings
<1>0. /\ reader \in [Readers -> Readings] /\ writer \in [Writers -> Writings]
      /\ Stats \subseteq Keys /\ Rooms \in Keys
  BY DEF TypeOK, Keys
<1>1. ASSUME NEW r \in Readers, NEW k \in Keys, Query(r, k) PROVE TypeOK'
  BY <1>1, Bounds, CacheAssumption DEF Query, TypeOK
<1>2. ASSUME NEW k \in Keys, Serve(k) PROVE TypeOK'
  BY <1>2 DEF Serve, vars, TypeOK
<1>3. ASSUME NEW r \in Readers, Store(r) PROVE TypeOK'
  <2>1. PICK left \in TTL(reader[r].key) - JitterTTL..TTL(reader[r].key) :
          cache' = [cache EXCEPT ![reader[r].key] = [age |-> reader[r].age, left |-> left]]
    BY <1>3 DEF Store
  <2>2. left \in 0..TTL(reader[r].key) /\ reader[r].key \in Keys /\ reader[r].age \in Ages
    BY <1>0, <2>1, Bounds, CacheAssumption
  <2>3. CacheOK'
    <3>1. left \in Nat /\ left <= TTL(reader[r].key)
      BY <2>2, Bounds
    <3>2. [age |-> reader[r].age, left |-> left] \in [age : Ages, left : Nat]
      BY <2>2, <3>1
    <3> QED BY <2>1, <2>2, <3>1, <3>2 DEF TypeOK, CacheOK
  <2>4. Idle \in Readings
    BY Bounds, CacheAssumption DEF Idle, Keys
  <2> QED BY <1>0, <1>3, <2>2, <2>3, <2>4 DEF Store, TypeOK, CacheOK
<1>4. ASSUME NEW r \in Readers, GiveUp(r) PROVE TypeOK'
  <2>1. Idle \in Readings
    BY Bounds, CacheAssumption DEF Idle, Keys
  <2> QED BY <1>4, <2>1 DEF GiveUp, TypeOK
<1>5. ASSUME NEW K \in SUBSET Keys, Supersede(K)
      PROVE  CacheOK' /\ reader' \in [Readers -> Readings]
  <2>1. \A k \in Keys : cache'[k] \in [age : Ages, left : 0..TTL(k)]
    BY <1>5, EntryOK DEF Supersede
  <2>2. cache' = [k \in Keys |-> cache'[k]]
    BY <1>5 DEF Supersede
  <2>3. \A r \in Readers : reader'[r] \in Readings
    BY <1>0, <1>5, AgeSteps DEF Supersede
  <2> QED BY <1>5, <2>1, <2>2, <2>3, CacheByKeys DEF Supersede
<1>6. ASSUME NEW w \in Writers, WriteRoom(w) PROVE TypeOK'
  BY <1>0, <1>5, <1>6 DEF WriteRoom, TypeOK, CacheOK
<1>7. ASSUME NEW w \in Writers, Write(w) PROVE TypeOK'
  BY <1>0, <1>5, <1>7 DEF Write, TypeOK, CacheOK
<1>8. ASSUME NEW K \in SUBSET Keys, Drop(K)
      PROVE  CacheOK' /\ excused' \subseteq Keys
  <2>1. \A k \in Keys : cache'[k] \in [age : Ages, left : 0..TTL(k)]
    BY <1>8, EntryOK DEF Drop
  <2>2. cache' = [k \in Keys |-> cache'[k]]
    BY <1>8 DEF Drop
  <2> QED BY <1>8, <2>1, <2>2, CacheByKeys DEF Drop, TypeOK
<1>9. ASSUME NEW w \in Writers, DelRooms(w) PROVE TypeOK'
  BY <1>0, <1>8, <1>9 DEF DelRooms, TypeOK, CacheOK
<1>10. ASSUME NEW w \in Writers, DelRoomsFails(w) PROVE TypeOK'
  BY <1>0, <1>10 DEF DelRoomsFails, TypeOK
<1>11. ASSUME NEW w \in Writers, NEW k \in Stats, Scan(w, k) PROVE TypeOK'
  BY <1>0, <1>11 DEF Scan, TypeOK
<1>12. ASSUME NEW w \in Writers, Flush(w) PROVE TypeOK'
  <2>1. writer[w].found \in SUBSET Keys /\ Done \in Writings
    BY <1>0 DEF Done
  <2>2. writer' \in [Writers -> Writings]
    BY <1>0, <1>12, <2>1 DEF Flush
  <2> QED BY <1>8, <1>12, <2>1, <2>2 DEF Flush, TypeOK, CacheOK
<1>13. ASSUME NEW w \in Writers, ScanFails(w) PROVE TypeOK'
  <2>1. writer[w].found \in SUBSET Keys /\ writer[w].todo \in SUBSET Keys /\ Done \in Writings
    BY <1>0 DEF Done
  <2> QED BY <1>13, <2>1 DEF ScanFails, TypeOK
<1>14. CASE Tick
  <2>1. ASSUME NEW k \in Keys PROVE cache'[k] \in [age : Ages, left : 0..TTL(k)]
    <3>1. cache[k].age \in Ages /\ cache[k].left \in 0..TTL(k) /\ TTL(k) \in Nat
      BY EntryOK, Bounds
    <3>2. Older(cache[k].age) \in Ages
      BY <3>1, AgeSteps
    <3>3. cache[k].left > 1 => cache[k].left - 1 \in 0..TTL(k)
      BY <3>1
    <3>4. cache'[k] = IF cache[k].left <= 1 THEN NoEntry
                      ELSE [age |-> Older(cache[k].age), left |-> cache[k].left - 1]
      BY <1>14 DEF Tick
    <3>5. cache[k].left <= 1 \/ cache[k].left > 1
      BY <3>1
    <3>6. NoEntry \in [age : Ages, left : 0..TTL(k)]
      BY EntryOK
    <3>7. CASE cache[k].left <= 1
      BY <3>4, <3>6, <3>7
    <3>8. CASE cache[k].left > 1
      <4>1. ~(cache[k].left <= 1)
        BY <3>1, <3>8
      <4>2. cache'[k] = [age |-> Older(cache[k].age), left |-> cache[k].left - 1]
        BY <3>4, <4>1
      <4> QED BY <3>2, <3>3, <3>8, <4>2
    <3> QED BY <3>5, <3>7, <3>8
  <2>2. ASSUME NEW r \in Readers PROVE reader'[r] \in Readings
    <3>1. reader[r] \in Readings
      BY <1>0
    <3>2. reader[r].pc # "idle" => reader[r].ticks + 1 \in 0..CallTime
      <4>1. reader[r].pc = "idle" \/ reader[r].ticks < CallTime
        BY <1>14 DEF Tick
      <4> QED BY <3>1, <4>1, CacheAssumption
    <3>3. Older(reader[r].age) \in Ages
      BY <3>1, AgeSteps
    <3> QED BY <1>14, <3>1, <3>2, <3>3 DEF Tick
  <2>3. cache' = [k \in Keys |-> cache'[k]]
    BY <1>14 DEF Tick
  <2>4. CacheOK'
    BY <2>1, <2>3, CacheByKeys
  <2> QED BY <1>14, <2>2, <2>4 DEF Tick, TypeOK, CacheOK
<1>15. CASE UNCHANGED vars
  BY <1>15 DEF vars, TypeOK
<1>16. CASE Midnight
  <2>1. Daily \subseteq Keys
    BY <1>0, CacheAssumption
  <2> QED BY <1>5, <1>16, <2>1 DEF Midnight, TypeOK, CacheOK
<1> QED
  BY <1>1, <1>2, <1>3, <1>4, <1>6, <1>7, <1>9, <1>10, <1>11, <1>12, <1>13, <1>14, <1>15, <1>16
  DEF Next, WriterStep

\* Types and ranges hold in every state.
THEOREM TypeCorrect == Spec => []TypeOK
BY InitTypeOK, NextTypeOK, PTL DEF Spec

-------------------------------------------------------------------------------
(* How old an answer may be *)

\* A value in a reader's hands was superseded after its first query.
ReadersYoung == \A r \in Readers : reader[r].pc = "store" => reader[r].age <= reader[r].ticks

\* What a reader stores was superseded less than a call ago, and then lives no longer
\* than an entry: the two invariants go together.
StaleInv == TypeOK /\ ReadersYoung /\ BoundedStaleness

\* A change of the truth touches what is current only: nothing gets older by it.
LEMMA SupersedeKeeps ==
    ASSUME StaleInv, NEW K \in SUBSET Keys, Supersede(K)
    PROVE  (ReadersYoung /\ BoundedStaleness)'
<1>1. ASSUME NEW r \in Readers, reader'[r].pc = "store" PROVE reader'[r].age <= reader'[r].ticks
  <2>1. reader[r] \in Readings
    BY DEF StaleInv, TypeOK, Readings
  <2>2. /\ reader[r].pc = "store" => reader[r].age <= reader[r].ticks
        /\ Superseded(reader[r].age) \in Ages
        /\ Superseded(reader[r].age) = reader[r].age \/ Superseded(reader[r].age) = 0
    BY <2>1, AgeSteps DEF StaleInv, ReadersYoung, Readings
  <2>3. /\ reader'[r].pc = reader[r].pc /\ reader'[r].ticks = reader[r].ticks
        /\ reader'[r].age \in {reader[r].age, Superseded(reader[r].age)}
    BY <2>1 DEF Supersede, Readings
  <2> QED BY <1>1, <2>1, <2>2, <2>3, CacheAssumption DEF Readings
<1>2. ASSUME NEW k \in Keys, Hit(k)' PROVE cache'[k].age + cache'[k].left <= TTL(k) + CallTime
  <2>1. cache[k].age \in Ages /\ cache[k].left \in 0..TTL(k) /\ TTL(k) \in Nat /\ CallTime \in Nat
    BY EntryOK, Bounds, CacheAssumption DEF StaleInv
  <2>2. cache'[k].left = cache[k].left /\ cache'[k].age \in {cache[k].age, Superseded(cache[k].age)}
    BY EntryOK DEF Supersede, StaleInv
  <2>3. cache[k].age + cache[k].left <= TTL(k) + CallTime
    BY <1>2, <2>2 DEF StaleInv, BoundedStaleness, Hit
  <2>4. Superseded(cache[k].age) = cache[k].age \/ Superseded(cache[k].age) = 0
    BY <2>1, AgeSteps
  <2> QED BY <2>1, <2>2, <2>3, <2>4, Bounds
<1> QED BY <1>1, <1>2 DEF ReadersYoung, BoundedStaleness

\* An entry that is deleted is not there.
LEMMA DropKeeps ==
    ASSUME StaleInv, NEW K \in SUBSET Keys, Drop(K), UNCHANGED reader
    PROVE  (ReadersYoung /\ BoundedStaleness)'
BY DEF StaleInv, ReadersYoung, BoundedStaleness, Drop, Hit, NoEntry

\* Nobody is shown what was superseded longer ago than an entry lives and a call takes.
THEOREM StalenessBounded == Spec => []BoundedStaleness
<1>1. Init => StaleInv
  <2> SUFFICES ASSUME Init PROVE StaleInv
    OBVIOUS
  <2>1. TypeOK
    BY InitTypeOK
  <2>2. ReadersYoung /\ BoundedStaleness
    BY DEF Init, Idle, NoEntry, Hit, ReadersYoung, BoundedStaleness
  <2> QED BY <2>1, <2>2 DEF StaleInv
<1>2. StaleInv /\ [Next]_vars => StaleInv'
  <2> SUFFICES ASSUME StaleInv, [Next]_vars PROVE (ReadersYoung /\ BoundedStaleness)'
    BY NextTypeOK DEF StaleInv
  <2>0. /\ reader \in [Readers -> Readings] /\ writer \in [Writers -> Writings]
        /\ Stats \subseteq Keys /\ Rooms \in Keys
    BY DEF StaleInv, TypeOK, Readings, Writings, Keys
  <2> USE DEF StaleInv
  <2>1. ASSUME NEW r \in Readers, NEW k \in Keys, Query(r, k) PROVE (ReadersYoung /\ BoundedStaleness)'
    BY <2>0, <2>1 DEF Query, ReadersYoung, BoundedStaleness, Hit, Current
  <2>2. ASSUME NEW r \in Readers, Store(r) PROVE (ReadersYoung /\ BoundedStaleness)'
    <3>1. PICK left \in TTL(reader[r].key) - JitterTTL..TTL(reader[r].key) :
            cache' = [cache EXCEPT ![reader[r].key] = [age |-> reader[r].age, left |-> left]]
      BY <2>2 DEF Store
    <3>2. reader[r].age <= CallTime /\ reader[r].age \in Int /\ reader[r].key \in Keys
      <4>1. reader[r].pc = "store" /\ reader[r] \in Readings
        BY <2>0, <2>2 DEF Store
      <4>2. reader[r].age <= reader[r].ticks
        BY <4>1 DEF ReadersYoung
      <4>3. /\ reader[r].age \in Int /\ reader[r].ticks \in Int /\ CallTime \in Int
            /\ reader[r].ticks <= CallTime /\ reader[r].key \in Keys
        BY <4>1, AgeInt, CacheAssumption DEF Readings
      <4> QED BY <4>2, <4>3
    <3>3. left + reader[r].age <= TTL(reader[r].key) + CallTime
      BY <3>1, <3>2, Bounds, CacheAssumption
    <3>4. ReadersYoung'
      BY <2>0, <2>2 DEF Store, ReadersYoung, Idle
    <3>5. ASSUME NEW k \in Keys, Hit(k)' PROVE cache'[k].age + cache'[k].left <= TTL(k) + CallTime
      <4>1. CASE k = reader[r].key
        <5>1. cache'[k] = [age |-> reader[r].age, left |-> left]
          BY <3>1, <3>2, <4>1 DEF TypeOK, BoundedStaleness, Hit
        <5> QED BY <3>2, <3>3, <4>1, <5>1
      <4>2. CASE k # reader[r].key
        BY <3>1, <3>5, <4>2 DEF BoundedStaleness, Hit
      <4> QED BY <4>1, <4>2
    <3> QED BY <3>4, <3>5 DEF BoundedStaleness
  <2>3. ASSUME NEW r \in Readers, GiveUp(r) PROVE (ReadersYoung /\ BoundedStaleness)'
    BY <2>0, <2>3 DEF GiveUp, ReadersYoung, BoundedStaleness, Hit, Idle
  <2>4. ASSUME NEW w \in Writers, WriteRoom(w) \/ Write(w) PROVE (ReadersYoung /\ BoundedStaleness)'
    BY <2>0, <2>4, SupersedeKeeps DEF WriteRoom, Write
  <2>8. CASE Midnight
    BY <2>0, <2>8, SupersedeKeeps, CacheAssumption DEF Midnight
  <2>5. ASSUME NEW w \in Writers, DelRooms(w) \/ Flush(w) PROVE (ReadersYoung /\ BoundedStaleness)'
    <3>1. writer[w].found \in SUBSET Keys
      BY <2>0 DEF Writings
    <3> QED BY <2>0, <2>5, <3>1, DropKeeps DEF DelRooms, Flush
  <2>6. ASSUME UNCHANGED <<cache, reader>> PROVE (ReadersYoung /\ BoundedStaleness)'
    BY <2>6 DEF ReadersYoung, BoundedStaleness, Hit
  <2>7. CASE Tick
    <3>1. ASSUME NEW r \in Readers, reader'[r].pc = "store" PROVE reader'[r].age <= reader'[r].ticks
      <4>1. reader[r] \in Readings
        BY <2>0
      <4>2. /\ reader[r].pc = "store"
            /\ reader'[r].age = Older(reader[r].age) /\ reader'[r].ticks = reader[r].ticks + 1
        BY <2>7, <3>1, <4>1 DEF Tick, Readings
      <4>3. Older(reader[r].age) \in Ages /\ Older(reader[r].age) <= reader[r].age + 1
        BY <4>1, AgeSteps DEF Readings
      <4>4. reader[r].age <= reader[r].ticks
        BY <4>2 DEF ReadersYoung
      <4>5. reader[r].age \in Int /\ Older(reader[r].age) \in Int /\ reader[r].ticks \in Int
        BY <4>1, <4>3, AgeInt DEF Readings
      <4> QED BY <4>2, <4>3, <4>4, <4>5
    <3>2. ASSUME NEW k \in Keys, Hit(k)' PROVE cache'[k].age + cache'[k].left <= TTL(k) + CallTime
      <4>1. cache[k].age \in Ages /\ cache[k].left \in 0..TTL(k) /\ TTL(k) \in Nat /\ CallTime \in Nat
        BY EntryOK, Bounds, CacheAssumption
      <4>2. cache'[k] = IF cache[k].left <= 1 THEN NoEntry
                        ELSE [age |-> Older(cache[k].age), left |-> cache[k].left - 1]
        BY <2>7 DEF Tick
      <4>3. cache[k].left > 1
        BY <3>2, <4>1, <4>2 DEF Hit, NoEntry
      <4>4. cache'[k] = [age |-> Older(cache[k].age), left |-> cache[k].left - 1]
        BY <4>1, <4>2, <4>3
      <4>5. Older(cache[k].age) \in Ages /\ Older(cache[k].age) <= cache[k].age + 1
        BY <4>1, AgeSteps
      <4>6. cache[k].age + cache[k].left <= TTL(k) + CallTime
        BY <4>1, <4>3 DEF BoundedStaleness, Hit
      <4>7. cache[k].age \in Int /\ Older(cache[k].age) \in Int /\ cache[k].left \in Int
        BY <4>1, <4>5, AgeInt
      <4> QED BY <4>1, <4>4, <4>5, <4>6, <4>7
    <3> QED BY <3>1, <3>2 DEF ReadersYoung, BoundedStaleness
  <2> QED
    BY <2>1, <2>2, <2>3, <2>4, <2>5, <2>6, <2>7, <2>8
    DEF Next, WriterStep, Serve, DelRoomsFails, Scan, ScanFails, vars
<1>3. StaleInv => BoundedStaleness
  BY DEF StaleInv
<1> QED
  BY <1>1, <1>2, <1>3, PTL DEF Spec

-------------------------------------------------------------------------------
(* What the deletions leave behind *)

\* A writer that is not at work has nothing left to visit or to delete.
IdleIsDone == \A w \in Writers : writer[w].pc = "idle" => writer[w] = Done

\* A deletion of k is still to come.
Pending(k) == \E w \in Writers : \/ k \in writer[w].todo \cup writer[w].found
                                 \/ writer[w].pc = "del" /\ k = Rooms
\* An entry that is old is to be deleted, or excused.
RaceInv == TypeOK /\ IdleIsDone /\ OnlyRacesSurvive

\* An old entry nobody is to delete was stored by a reader that raced, or a command failed,
\* or it was put in before midnight.
THEOREM DeletionsWork == Spec => []OnlyRacesSurvive
<1>1. Init => RaceInv
  <2> SUFFICES ASSUME Init PROVE IdleIsDone /\ OnlyRacesSurvive
    BY InitTypeOK DEF RaceInv
  <2> QED BY DEF Init, IdleIsDone, OnlyRacesSurvive, Hit, NoEntry
<1>2. RaceInv /\ [Next]_vars => RaceInv'
  <2> SUFFICES ASSUME RaceInv, [Next]_vars PROVE (IdleIsDone /\ OnlyRacesSurvive)'
    BY NextTypeOK DEF RaceInv
  <2>0. /\ reader \in [Readers -> Readings] /\ writer \in [Writers -> Writings]
        /\ cache \in [Keys -> [age : Ages, left : Nat]]
        /\ Stats \subseteq Keys /\ Rooms \in Keys
    BY DEF RaceInv, TypeOK, Readings, Writings, Keys
  <2>a. \A k \in Keys : Hit(k) /\ cache[k].age # Current => k \in excused \/ Pending(k)
    BY DEF RaceInv, OnlyRacesSurvive, Pending
  <2>b. IdleIsDone
    BY DEF RaceInv
  <2>1. ASSUME NEW r \in Readers, NEW k \in Keys, Query(r, k)
        PROVE  (IdleIsDone /\ OnlyRacesSurvive)'
    BY <2>1 DEF Query, RaceInv, IdleIsDone, OnlyRacesSurvive, Hit
  <2>2. ASSUME NEW r \in Readers, Store(r) PROVE (IdleIsDone /\ OnlyRacesSurvive)'
    <3>1. PICK left \in TTL(reader[r].key) - JitterTTL..TTL(reader[r].key) :
            cache' = [cache EXCEPT ![reader[r].key] = [age |-> reader[r].age, left |-> left]]
      BY <2>2 DEF Store
    <3>2. reader[r].key \in Keys /\ UNCHANGED writer
          /\ excused' = IF reader[r].age = Current THEN excused \ {reader[r].key}
                                                   ELSE excused \cup {reader[r].key}
      BY <2>0, <2>2 DEF Store, Readings
    <3>3. ASSUME NEW k \in Keys, Hit(k)', cache'[k].age # Current
          PROVE  k \in excused' \/ Pending(k)'
      <4>1. CASE k = reader[r].key
        BY <2>0, <3>1, <3>2, <3>3, <4>1
      <4>2. CASE k # reader[r].key
        BY <2>0, <2>a, <3>1, <3>2, <3>3, <4>2 DEF Hit, Pending
      <4> QED BY <4>1, <4>2
    <3> QED BY <2>b, <3>2, <3>3 DEF IdleIsDone, OnlyRacesSurvive, Pending
  <2>3. ASSUME NEW r \in Readers, GiveUp(r) PROVE (IdleIsDone /\ OnlyRacesSurvive)'
    BY <2>3 DEF GiveUp, RaceInv, IdleIsDone, OnlyRacesSurvive, Hit
  <2>4. ASSUME NEW w \in Writers, WriteRoom(w) PROVE (IdleIsDone /\ OnlyRacesSurvive)'
    <3>1. writer' = [writer EXCEPT ![w] = [pc |-> "del", todo |-> Stats, found |-> {}]]
      BY <2>4 DEF WriteRoom
    <3>2. \A k \in Keys : Pending(k)'
      BY <2>0, <3>1 DEF Pending, Keys
    <3>3. IdleIsDone'
      BY <2>0, <2>b, <3>1 DEF IdleIsDone
    <3> QED BY <3>2, <3>3 DEF OnlyRacesSurvive, Pending
  <2>5. ASSUME NEW w \in Writers, Write(w) PROVE (IdleIsDone /\ OnlyRacesSurvive)'
    <3>1. writer' = [writer EXCEPT ![w] = [pc |-> "scan", todo |-> Stats, found |-> {}]]
          /\ UNCHANGED excused /\ writer[w] = Done
      BY <2>5, <2>b DEF Write, IdleIsDone
    <3>2. \A k \in Stats : Pending(k)'
      BY <2>0, <3>1 DEF Pending
    <3>3. cache'[Rooms] = cache[Rooms]
      BY <2>0, <2>5, CacheAssumption DEF Write, Supersede
    <3>4. Pending(Rooms) => Pending(Rooms)'
      BY <2>0, <3>1, CacheAssumption DEF Pending, Done
    <3>5. IdleIsDone'
      BY <2>0, <2>b, <3>1 DEF IdleIsDone
    <3> QED BY <2>a, <3>1, <3>2, <3>3, <3>4, <3>5 DEF OnlyRacesSurvive, Pending, Keys, Hit
  <2>6. ASSUME NEW w \in Writers, NEW k \in Stats, Scan(w, k)
        PROVE  (IdleIsDone /\ OnlyRacesSurvive)'
    <3>1. UNCHANGED <<cache, excused>> /\ writer[w].pc = "scan"
      BY <2>6 DEF Scan
    <3>2. \A v \in Writers : writer'[v].pc = writer[v].pc /\ (v # w => writer'[v] = writer[v])
      BY <2>0, <2>6 DEF Scan, Writings
    <3>3. /\ writer'[w].todo = writer[w].todo \ {k}
          /\ writer'[w].found = IF Hit(k) THEN writer[w].found \cup {k} ELSE writer[w].found
      BY <2>0, <2>6 DEF Scan, Writings
    <3>4. ASSUME NEW j \in Keys, Hit(j), Pending(j) PROVE Pending(j)'
      <4>1. PICK v \in Writers : \/ j \in writer[v].todo \cup writer[v].found
                                 \/ writer[v].pc = "del" /\ j = Rooms
        BY <3>4 DEF Pending
      <4>2. CASE v = w
        BY <3>1, <3>2, <3>3, <3>4, <4>1, <4>2 DEF Pending
      <4>3. CASE v # w
        BY <3>2, <4>1, <4>3 DEF Pending
      <4> QED BY <4>2, <4>3
    <3> QED BY <2>a, <2>b, <3>1, <3>2, <3>4 DEF IdleIsDone, OnlyRacesSurvive, Pending, Hit
  <2>7. ASSUME NEW w \in Writers, NEW K \in SUBSET Keys, Drop(K),
               writer' \in [Writers -> Writings],
               \A v \in Writers \ {w} : writer'[v] = writer[v],
               writer'[w].pc = "idle" => writer'[w] = Done,
               \A j \in Keys \ K : j \in writer[w].todo \cup writer[w].found
                                       \/ (writer[w].pc = "del" /\ j = Rooms)
                                    => j \in writer'[w].todo \cup writer'[w].found
        PROVE  (IdleIsDone /\ OnlyRacesSurvive)'
    <3>1. ASSUME NEW k \in Keys, Hit(k)', cache'[k].age # Current
          PROVE  k \in excused' \/ Pending(k)'
      <4>1. k \notin K /\ cache'[k] = cache[k] /\ excused' = excused \ K
        BY <2>7, <3>1 DEF Drop, Hit, NoEntry
      <4>2. k \in excused \/ Pending(k)
        BY <2>a, <3>1, <4>1 DEF Hit
      <4>3. Pending(k) => Pending(k)'
        BY <2>7, <4>1 DEF Pending
      <4> QED BY <4>1, <4>2, <4>3
    <3> QED BY <2>7, <2>b, <3>1 DEF IdleIsDone, OnlyRacesSurvive, Pending
  <2>8. ASSUME NEW w \in Writers, DelRooms(w) PROVE (IdleIsDone /\ OnlyRacesSurvive)'
    <3>1. writer' = [writer EXCEPT ![w].pc = "scan"] /\ Drop({Rooms})
      BY <2>8 DEF DelRooms
    <3>2. writer' \in [Writers -> Writings] /\ writer'[w].pc = "scan"
          /\ writer'[w].todo = writer[w].todo /\ writer'[w].found = writer[w].found
      BY <2>0, <3>1 DEF Writings
    <3> QED BY <2>0, <2>7, <3>1, <3>2
  <2>9. ASSUME NEW w \in Writers, Flush(w) PROVE (IdleIsDone /\ OnlyRacesSurvive)'
    <3>1. writer[w].found \in SUBSET Keys /\ Drop(writer[w].found) /\ Done \in Writings
          /\ writer[w].pc = "scan"
      BY <2>0, <2>9 DEF Flush, Writings, Done
    <3>2. writer' = [writer EXCEPT ![w] = IF @.todo = {} THEN Done ELSE [@ EXCEPT !.found = {}]]
      BY <2>9 DEF Flush
    <3>3. writer' \in [Writers -> Writings] /\ writer'[w].todo = writer[w].todo
          /\ (writer'[w].pc = "idle" => writer'[w] = Done)
      BY <2>0, <3>1, <3>2 DEF Writings, Done
    <3> QED BY <2>0, <2>7, <3>1, <3>2, <3>3
  <2>10. ASSUME NEW w \in Writers, DelRoomsFails(w) PROVE (IdleIsDone /\ OnlyRacesSurvive)'
    <3>1. UNCHANGED cache /\ excused' = excused \cup {Rooms}
          /\ writer' = [writer EXCEPT ![w].pc = "scan"]
      BY <2>10 DEF DelRoomsFails
    <3>2. \A v \in Writers : /\ writer'[v].todo = writer[v].todo /\ writer'[v].found = writer[v].found
                             /\ (v # w => writer'[v] = writer[v])
      BY <2>0, <3>1 DEF Writings
    <3>3. writer'[w].pc = "scan"
      BY <2>0, <3>1 DEF Writings
    <3>4. \A k \in Keys : Pending(k) => k = Rooms \/ Pending(k)'
      BY <3>2 DEF Pending
    <3> QED BY <2>a, <2>b, <3>1, <3>2, <3>3, <3>4 DEF IdleIsDone, OnlyRacesSurvive, Pending, Hit
  <2>11. ASSUME NEW w \in Writers, ScanFails(w) PROVE (IdleIsDone /\ OnlyRacesSurvive)'
    <3>1. /\ UNCHANGED cache /\ writer[w].pc = "scan"
          /\ excused' = excused \cup writer[w].todo \cup writer[w].found
          /\ writer' = [writer EXCEPT ![w] = Done]
      BY <2>11 DEF ScanFails
    <3>2. \A k \in Keys : Pending(k) => k \in excused' \/ Pending(k)'
      BY <2>0, <3>1 DEF Pending
    <3> QED BY <2>0, <2>a, <2>b, <3>1, <3>2 DEF IdleIsDone, OnlyRacesSurvive, Pending, Hit
  <2>12. CASE Tick
    <3>1. UNCHANGED writer /\ excused' = {k \in excused : cache[k].left > 1}
      BY <2>12 DEF Tick
    <3>2. ASSUME NEW k \in Keys, Hit(k)', cache'[k].age # Current
          PROVE  k \in excused' \/ Pending(k)'
      <4>1. cache'[k] = IF cache[k].left <= 1 THEN NoEntry
                        ELSE [age |-> Older(cache[k].age), left |-> cache[k].left - 1]
        BY <2>12 DEF Tick
      <4>2. cache[k].left > 1 /\ cache[k].left \in Nat /\ cache'[k].age = Older(cache[k].age)
        BY <2>0, <3>2, <4>1 DEF Hit, NoEntry
      <4>3. cache[k].age # Current
        BY <3>2, <4>2 DEF Older
      <4>4. k \in excused \/ Pending(k)
        BY <2>a, <4>2, <4>3 DEF Hit
      <4> QED BY <3>1, <4>2, <4>4 DEF Pending
    <3> QED BY <2>b, <3>1, <3>2 DEF IdleIsDone, OnlyRacesSurvive, Pending
  <2>13. CASE UNCHANGED vars
    BY <2>13, <2>a, <2>b DEF vars, IdleIsDone, OnlyRacesSurvive, Pending, Hit
  <2>14. CASE Midnight
    <3>1. excused' = excused \cup Daily /\ UNCHANGED writer
          /\ \A k \in Keys \ Daily : cache'[k] = cache[k]
      BY <2>14 DEF Midnight, Supersede
    <3> QED BY <2>a, <2>b, <3>1 DEF IdleIsDone, OnlyRacesSurvive, Pending, Hit
  <2> QED
    BY <2>1, <2>2, <2>3, <2>4, <2>5, <2>6, <2>8, <2>9, <2>10, <2>11, <2>12, <2>13, <2>14
    DEF Next, WriterStep, Serve
<1>3. RaceInv => OnlyRacesSurvive
  BY DEF RaceInv
<1> QED
  BY <1>1, <1>2, <1>3, PTL DEF Spec
===============================================================================
