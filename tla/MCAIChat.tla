-------------------------------- MODULE MCAIChat --------------------------------
(* A small instance of AIChat: a user with two tabs and two conversations. *)
EXTENDS AIChat

CONSTANTS alice, t1, t2
===============================================================================
