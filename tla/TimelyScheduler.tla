---------------------------- MODULE TimelyScheduler ----------------------------
(***************************************************************************)
(* ReservationLifecycle with what the one-minute ticker of scheduler.go    *)
(* adds to it: some instance begins a round at least every MaxGap units,   *)
(* and a round is short on the scale of the clock. MaxGap is the longest   *)
(* outage of the scheduler (no leader, no Redis at run time, a restart).   *)
(* What bounds an outage is the filter res_date >= CURRENT_DATE - 1 of the *)
(* scans: rows older than that are never looked at again.                  *)
(***************************************************************************)
EXTENDS ReservationLifecycle

CONSTANT MaxGap     \* longest time between the beginnings of two rounds

ASSUME GapAssumption == MaxGap \in Nat \ {0}

\* validateSlot: a slot is a whole number of half hours, the grace period is a
\* quarter of one. The scheduler is never away until a second midnight after
\* the day of the slot: that is when the scans forget the row.
ASSUME OutageAssumption ==
    \A r \in Res : /\ StartAt[r] + CheckinGrace <= EndAt[r]
                   /\ Date(EndAt[r] + MaxGap) <= Date(StartAt[r]) + 1

VARIABLE lastRound  \* when a round last began

timelyVars == <<vars, lastRound>>

TimelyInit == Init /\ lastRound = 0

BeginRound(s) == ExpireNoShows(s) /\ lastRound' = now

TimelyTick ==
    /\ now < lastRound + MaxGap
    /\ \A s \in Schedulers : sch[s].pc = "wait"
    /\ Tick
    /\ UNCHANGED lastRound

TimelyNext ==
    \/ \E s \in Schedulers : BeginRound(s)
    \/ TimelyTick
    \/ /\ Next
       /\ now' = now
       /\ \A s \in Schedulers : ~(sch[s].pc = "wait" /\ sch'[s].pc = "noShows")
       /\ UNCHANGED lastRound

\* Time passes between rounds, however many of them fit in an instant of the
\* model: TimelyTick is disabled during each, hence the strong fairness.
TimelyFairness ==
    /\ \A w \in Workers : WF_timelyVars(RequestStep(w) /\ UNCHANGED lastRound)
    /\ \A s \in Schedulers :
         /\ WF_timelyVars(BeginRound(s))
         /\ WF_timelyVars(RoundStep(s) /\ sch[s].pc # "wait" /\ UNCHANGED lastRound)
    /\ SF_timelyVars(TimelyTick)

TimelySpec == TimelyInit /\ [][TimelyNext]_timelyVars /\ TimelyFairness

-------------------------------------------------------------------------------
(* Properties *)

\* Nobody who stays away keeps a seat from others: a row that was not signed in
\* is closed by the first round after the grace period, and one that is in use
\* by the first round after its slot, across midnight and after an outage too.
SeatReleasedInTime ==
    \A r \in Res :
        /\ status[r] = "pending" => now <= StartAt[r] + CheckinGrace + MaxGap
        /\ status[r] \in {"checked_in", "temp_leave"} => now <= EndAt[r] + MaxGap

\* No reservation stays open for ever.
EventuallyClosed ==
    \A r \in Res : status[r] \in Active ~> status[r] \in Terminal
===============================================================================
