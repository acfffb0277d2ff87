------------------------------ MODULE SeatLedger ------------------------------
(***************************************************************************)
(* What booking promises: a ledger of claims (who sits where, when) in     *)
(* which no seat is claimed twice for overlapping times and no user is in  *)
(* two places at once, however the claims got there.                       *)
(***************************************************************************)
EXTENDS Integers

CONSTANTS Users, Seats, Slots,
          Begins, Ends      \* the two ends of each slot

VARIABLE ledger             \* the claims in force

Claims == [user : Users, seat : Seats, slot : Slots]

\* Half-open ranges, as those of PostgreSQL: a slot may begin where another ends.
Overlap(a, b) == Begins[a] < Ends[b] /\ Begins[b] < Ends[a]

Clash(b, c) == Overlap(b.slot, c.slot) /\ (b.seat = c.seat \/ b.user = c.user)

LedgerInit == ledger = {}

Grant(c) == /\ \A b \in ledger : ~Clash(b, c)
            /\ ledger' = ledger \cup {c}

Release(c) == c \in ledger /\ ledger' = ledger \ {c}

LedgerNext == \E c \in Claims : Grant(c) \/ Release(c)

LedgerSpec == LedgerInit /\ [][LedgerNext]_ledger

\* No two claims in force clash.
Exclusive == \A b, c \in ledger : Clash(b, c) => b = c
===============================================================================
