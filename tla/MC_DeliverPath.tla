--------------------------- MODULE MC_DeliverPath ---------------------------
(* Instances of DeliverPath: which messages exist together decides how much  *)
(* of the code runs, so each scenario offers the few that one case needs.    *)
EXTENDS DeliverPath, TLC

CONSTANTS d1, d2, d3, d4, d5, d6, m1, m2, m3, r1

MCParts == [m \in Msg |-> IF m = m1 THEN 2 ELSE 1]

MCScenarios ==
  {[offered |-> {d1}, queue |-> TRUE, drop |-> FALSE, acks |-> 1, faults |-> 2],
   [offered |-> {d1, d4}, queue |-> TRUE, drop |-> FALSE, acks |-> 2, faults |-> 0],
   [offered |-> {d1, m1}, queue |-> FALSE, drop |-> FALSE, acks |-> 1, faults |-> 0],
   [offered |-> {d1, d4, d5, d6}, queue |-> FALSE, drop |-> FALSE, acks |-> 1, faults |-> 0],
   [offered |-> {m3}, queue |-> TRUE, drop |-> FALSE, acks |-> 2, faults |-> 2],
   [offered |-> {m1}, queue |-> TRUE, drop |-> TRUE, acks |-> 1, faults |-> 0],
   [offered |-> {m3}, queue |-> TRUE, drop |-> TRUE, acks |-> 1, faults |-> 0],
   [offered |-> {d2, d3}, queue |-> TRUE, drop |-> FALSE, acks |-> 1, faults |-> 0],
   [offered |-> {m2}, queue |-> TRUE, drop |-> FALSE, acks |-> 1, faults |-> 1],
   [offered |-> {r1}, queue |-> TRUE, drop |-> FALSE, acks |-> 1, faults |-> 1]}

MCLiveScenarios ==
  {[offered |-> {d1}, queue |-> TRUE, drop |-> FALSE, acks |-> 1, faults |-> 1],
   [offered |-> {d1}, queue |-> FALSE, drop |-> TRUE, acks |-> 1, faults |-> 0],
   [offered |-> {m3}, queue |-> TRUE, drop |-> FALSE, acks |-> 1, faults |-> 0],
   [offered |-> {r1}, queue |-> TRUE, drop |-> FALSE, acks |-> 1, faults |-> 0]}

=============================================================================
