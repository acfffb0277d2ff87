------------------------------ MODULE MCSessions ------------------------------
(* A small instance of Sessions: one name and two calls at a time. *)
EXTENDS Sessions

CONSTANTS user, c1, c2
===============================================================================
