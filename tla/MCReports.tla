------------------------------ MODULE MCReports ------------------------------
EXTENDS Reports

MCSlots == {<<1, 1, 1>>, <<1, 2, 1>>, <<2, 1, 1>>, <<2, 1, 2>>}
MCFilters == {MCSlots, {s \in MCSlots : AgentOf(s) = 1}}
Nothing == [k \in {"refreshes", "requests", "exports", "faults", "crashes"} |-> 0]
MCWorkloads == {
  [Nothing EXCEPT !["refreshes"] = 2, !["requests"] = 5, !["faults"] = 1],
  [Nothing EXCEPT !["refreshes"] = 2, !["exports"] = 2, !["faults"] = 1, !["crashes"] = 1]}
=============================================================================
