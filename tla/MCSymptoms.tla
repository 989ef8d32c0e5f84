------------------------------ MODULE MCSymptoms ------------------------------
(* A small instance of Symptoms for TLC: the default thresholds, and five  *)
(* rounds a window, so that one round is 20% and four are 80%.             *)
EXTENDS Symptoms

Every == AllScenarios
=============================================================================
