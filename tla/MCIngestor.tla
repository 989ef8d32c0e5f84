------------------------------ MODULE MCIngestor ------------------------------
(* Small instances of Ingestor for TLC.                                    *)
EXTENDS Ingestor, TLC

Symmetry == Permutations(Consumers) \union Permutations(Partitions)
=============================================================================
