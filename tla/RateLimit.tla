------------------------------- MODULE RateLimit -------------------------------
(***************************************************************************)
(* The limiter in front of login, booking and chat                         *)
(* (middleware/ratelimit.go), for one key: a counter in Redis that lives   *)
(* for a window from the first request it counts. While Redis does not     *)
(* answer everybody passes. Time runs in ticks.                            *)
(***************************************************************************)
EXTENDS Integers, FiniteSets

CONSTANTS
    Limit,      \* requests let through by one counter
    Window      \* ticks a counter lives

ASSUME LimitAssumption == Limit \in Nat \ {0} /\ Window \in Nat \ {0}

VARIABLES
    counter,    \* the key: its count, and the ticks left of its life (0: no key)
    passed      \* the requests of one window that were counted and passed (history):
                \* how many ticks ago, and as which of its counter

limitVars == <<counter, passed>>

\* Above the limit the count is of no more interest.
Counted(n) == IF n > Limit THEN Limit + 1 ELSE n
NoKey == [n |-> 0, left |-> 0]

\* Mutant of Incr: PEXPIRE after every INCR.
IncrSliding == [n |-> Counted(counter.n + 1), left |-> Window]

\* INCR, and PEXPIRE for the first: one script, which nothing interrupts.
Incr ==
    [n |-> Counted(counter.n + 1),
     left |-> IF counter.n = 0 THEN Window ELSE counter.left]

\* Mutant of Pass: the count before the request is compared.
PassBefore ==
    /\ counter' = Incr
    /\ counter.n <= Limit
    /\ passed' = passed \cup {[ago |-> 0, nth |-> counter'.n]}

\* A request passes after it was counted, or is turned away. No two have the same
\* number of one counter, which is what tells them apart in passed.
Pass ==
    /\ counter' = Incr
    /\ counter'.n <= Limit
    /\ passed' = passed \cup {[ago |-> 0, nth |-> counter'.n]}

TurnAway ==
    /\ counter' = Incr
    /\ counter'.n > Limit
    /\ UNCHANGED passed

\* No answer of Redis: it passes uncounted, or counted when the answer is lost.
PassUnchecked(counts) ==
    /\ counter' = IF counts THEN Incr ELSE counter
    /\ UNCHANGED passed

LimitTick ==
    /\ counter' = IF counter.left <= 1 THEN NoKey ELSE [counter EXCEPT !.left = @ - 1]
    /\ passed' = {[p EXCEPT !.ago = @ + 1] : p \in {q \in passed : q.ago < Window - 1}}

LimitInit == counter = NoKey /\ passed = {}

-------------------------------------------------------------------------------
LimitTypeOK ==
    /\ counter \in [n : 0..Limit + 1, left : 0..Window]
    /\ passed \subseteq [ago : 0..Window - 1, nth : 1..Limit]

\* The price of a fixed window: around its edge twice the limit passes within one
\* window's time, and never more.
AtMostTwice == Cardinality(passed) <= 2 * Limit

\* Whoever keeps trying is not turned away for ever: a counter above the limit goes
\* away though it is asked again and again.
LetInAgain == counter.n > Limit ~> counter.n <= Limit
===============================================================================
