---------------------------- MODULE MC_RedisStore ----------------------------
(* An instance of RedisStore with one or two messages of a few kinds.        *)
EXTENDS RedisStore, TLC

CONSTANTS o1, t1, r1, r2, d1, acctA, acctB

MCAccountOf == [m \in Msg |-> IF m = r2 THEN acctB ELSE acctA]

MCScenarios ==
  {[offered |-> {o1}, rooms |-> {1}, faults |-> 1],
   [offered |-> {r1}, rooms |-> {1}, faults |-> 1],
   [offered |-> {d1}, rooms |-> {1}, faults |-> 1],
   [offered |-> {o1, t1}, rooms |-> {1}, faults |-> 0],
   [offered |-> {o1, r1}, rooms |-> {1}, faults |-> 0],
   [offered |-> {d1, r1}, rooms |-> {2}, faults |-> 0],
   [offered |-> {r1, r2}, rooms |-> {1}, faults |-> 0]}

=============================================================================
