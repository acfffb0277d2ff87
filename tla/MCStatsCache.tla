------------------------------ MODULE MCStatsCache ------------------------------
(* A small instance of StatsCache: two statistics, more than a batch holds. *)
EXTENDS StatsCache, TLC

CONSTANTS rooms, heatmap, overview, r1, w1, w2
===============================================================================
