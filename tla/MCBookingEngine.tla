--------------------------- MODULE MCBookingEngine ---------------------------
(* Small instances of BookingEngine. Slots a and b overlap.            *)
EXTENDS BookingEngine, TLC

CONSTANTS q1, q2, u1, u2, seat1, seat2, a, b

SlotBegins == [t \in Slots |-> IF t = a THEN 0 ELSE 1]
SlotEnds == [t \in Slots |-> SlotBegins[t] + 2]
SlotDay == [t \in Slots |-> 0]

Sym == Permutations(Requests) \cup Permutations(Users) \cup Permutations(Seats)
===============================================================================
