---------------------------- MODULE MCDailyWorkflow ----------------------------
(* A small instance of DailyWorkflow for TLC.                              *)
EXTENDS DailyWorkflow

\* Yesterday as scheduled, a day and two days by hand, and half a range.
FewRequests == {<<3, 0, 0>>, <<3, 1, 2>>, <<3, 2, 0>>}

FewCommands == {All}

\* The day before yesterday has been observed, yesterday has not.
Sparse == <<1, 0>>
=============================================================================
