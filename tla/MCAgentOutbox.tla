---------------------------- MODULE MCAgentOutbox ----------------------------
(* Small instances of AgentOutbox for TLC.                                 *)
EXTENDS AgentOutbox, TLC

Symmetry == Permutations(Collectors)
=============================================================================
