-------------------------- MODULE MCTimelyScheduler --------------------------
(* Small instances of TimelyScheduler. One unit is 15 minutes; the day of  *)
(* the instances is DayLength units long so that midnight is within reach. *)
EXTENDS TimelyScheduler, TLC

CONSTANTS r1, w1, s1

\* The last slot of the first day.
NightStart == r1 :> 3
NightEnd == r1 :> 5
===============================================================================
