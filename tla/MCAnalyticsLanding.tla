--------------------------- MODULE MCAnalyticsLanding --------------------------
(* The instance of AnalyticsLanding that TLC checks. *)
EXTENDS AnalyticsLanding

CONSTANTS x, y, z

(* Two requests for one lot name, a lot that shares an artifact with each,    *)
(* and a closed snapshot that covers another of its artifacts.                *)
MCTasks ==
  { [kind |-> "LOT", name |-> "a", artifacts |-> {x}],
    [kind |-> "LOT", name |-> "a", artifacts |-> {x, z}],
    [kind |-> "LOT", name |-> "b", artifacts |-> {x, y}],
    [kind |-> "CLOSED_IMPORTED", name |-> "a", artifacts |-> {y}] }
================================================================================
