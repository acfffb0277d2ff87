---------------------------- MODULE MCCreditLedger ----------------------------
(* Small instances of CreditLedger: 5 points, threshold 3, -2, -1, +1. *)
EXTENDS CreditLedger, TLC

CONSTANT u1
===============================================================================
