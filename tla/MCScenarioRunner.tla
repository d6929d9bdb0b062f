-------------------------- MODULE MCScenarioRunner --------------------------
(* Model checking ScenarioRunner. *)
EXTENDS ScenarioRunner

MCFragile == {1}
=============================================================================
