--------------------------------- MODULE MCFloor ---------------------------------
(* A small instance of Floor. An hour has two units; the hours may be moved so *)
(* that the room is open for half an hour only.                                *)
EXTENDS Floor, TLC

CONSTANTS alice, bob, a1, a2

MCGrids == {<<1, 2>>, <<2, 1>>}
MCOpeningHours == {[open |-> 0, close |-> 4], [open |-> 3, close |-> 4]}
MCSlots == {<<0, 2>>, <<1, 4>>}
MCRequests == {[zone |-> "quiet", power |-> FALSE, window |-> TRUE],
               [zone |-> "none", power |-> TRUE, window |-> FALSE]}
MCProposals == {<<<<1, 1>>, <<1, 1>>, <<1, 2>>, <<2, 1>>>>, <<<<2, 1>>, <<1, 1>>>>}

Symmetry == Permutations({alice, bob}) \cup Permutations({a1, a2})
===============================================================================
