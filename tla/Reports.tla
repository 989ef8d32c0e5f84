------------------------------- MODULE Reports -------------------------------
(***************************************************************************)
(* The readers of the analytics while refreshes commit: clients of the     *)
(* query API and the Tableau export.                                       *)
(***************************************************************************)
EXTENDS QueryPagination, TableauExport

vars == <<factVars, left, paginationVars, exportVars>>

Init == FactsInit /\ PaginationInit /\ ExportInit

Refresh == RefreshCommits /\ WalkSeesRefresh /\ UNCHANGED <<request, exportVars>>

Next ==
  \/ Refresh
  \/ RequestStep /\ UNCHANGED <<factVars, exportVars>>
  \/ ExportStep /\ UNCHANGED <<factVars, paginationVars>>

Spec == Init /\ [][Next]_vars
=============================================================================
