------------------------- MODULE MCEvaluationOrder -------------------------
(***************************************************************************)
(* An instance of EvaluationOrder: three sensors, or three attributes of   *)
(* one sensor, two of which end in the same part ("power", "daily_power"). *)
(* The sensor's own formula, which nothing waits for, is walked like an    *)
(* attribute that no other one reads.                                      *)
(***************************************************************************)
EXTENDS EvaluationOrder

MCTail == [n \in Names |-> IF n = "daily_power" THEN "power" ELSE n]
MCTitle == [n \in Names |-> "sensor - " \o n]
=============================================================================
