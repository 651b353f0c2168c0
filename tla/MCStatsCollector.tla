------------------------- MODULE MCStatsCollector -------------------------
(* StatsCollector for TLC. *)
EXTENDS StatsCollector

(* Two boards of one model: the same name, different ids. *)
DistinctIds == [b \in Boards |-> b]
=============================================================================
