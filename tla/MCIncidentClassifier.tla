------------------------- MODULE MCIncidentClassifier -------------------------
(* Small instances of IncidentClassifier for TLC.                          *)
EXTENDS IncidentClassifier, TLC

Symmetry == Permutations(Keys) \union Permutations(Processes)
=============================================================================
