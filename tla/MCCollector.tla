---------------------------- MODULE MCCollector -----------------------------
(***************************************************************************)
(* Two Custom Metrics with intervals of 2 and 3 ticks, an update interval  *)
(* of 1 tick and Collects of up to 2, so that updates outlast the ticker;  *)
(* 9 ticks, three times the longest interval.                              *)
(***************************************************************************)
EXTENDS Collector, TLC

MCInterval == "a" :> 2 @@ "b" :> 3

MCSlowInterval == "temperature" :> 2 @@ "services" :> 3 @@ "docker" :> 2
=============================================================================
