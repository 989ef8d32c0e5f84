--------------------------- MODULE MCStreamProcessor ---------------------------
(* Small instances of StreamProcessor for TLC.                             *)
EXTENDS StreamProcessor
=============================================================================
