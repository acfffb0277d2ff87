------------------------------ MODULE MCWaitlist ------------------------------
(* Small instances of Waitlist: two entries are tried in a round. *)
EXTENDS Waitlist, TLC

CONSTANTS u1, u2, c1, c2, s1, s2
===============================================================================
