------------------------ MODULE MCReservationLifecycle ------------------------
(* Small instances of ReservationLifecycle. One unit is 15 minutes. *)
EXTENDS ReservationLifecycle, TLC

CONSTANTS r1, w1, w2, s1, s2

\* One slot of half an hour that starts at 2.
OneStart == r1 :> 2
OneEnd == r1 :> 4

Sym == Permutations(Workers) \cup Permutations(Schedulers)
===============================================================================
