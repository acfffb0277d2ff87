-------------------------- MODULE MCSchedulerLeader --------------------------
(* Small instances of SchedulerLeader: the lease of 30 s and its renewal     *)
(* every 10 s are 3 units and 1.                                             *)
EXTENDS SchedulerLeader, TLC

CONSTANTS i1, i2, t1, t2, t3, t4
===============================================================================
