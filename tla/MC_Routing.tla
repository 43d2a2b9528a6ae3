----------------------------- MODULE MC_Routing -----------------------------
(* Instances of Routing: two versions of a small route table, three messages *)
(* routed by the database, and three by HTTP through two callers.            *)
EXTENDS Routing, TLC

CONSTANTS o1, o2, o3, i1, x1

MCDir == [r \in Req |-> CASE r \in {o1, o2, o3} -> "out" [] r = i1 -> "in" [] OTHER -> "none"]
MCService == [r \in Req |-> IF MCDir[r] = "out" THEN "acct" ELSE NoId]
MCSmscId == [r \in Req |-> IF MCDir[r] = "in" THEN "s1" ELSE NoId]
MCReceiver == [r \in Req |-> IF r = o3 THEN "far" ELSE "near"]
MCSender == [r \in Req |-> IF r = o2 THEN "far" ELSE "near"]

R(dir, smsc, prio, valid, regex, source, from) ==
  [dir |-> dir, system_id |-> "acct", smsc_id |-> smsc, priority |-> prio, cost |-> prio,
   valid |-> valid, regex |-> regex, source |-> source, source_regex |-> from]

\* o1 is taken by priority 3, o2 is declined by 3 and goes by 2, o3 has no route
\* in the first table; in the second o2 is declined only, o3 has a route, and
\* i1 no longer comes from the smsc its route names.
MCTables ==
  0 :> {R("out", "s1", 3, TRUE, {"near"}, "set", {"near"}),
        R("out", "s2", 2, TRUE, {"near"}, "bad", {}),
        R("out", "s2", 4, FALSE, {"near"}, "none", {}),
        R("in", "s1", 1, TRUE, {"near"}, "none", {})}
  @@ 1 :> {R("out", "s2", 2, TRUE, {"near"}, "set", {"near"}),
           R("out", "s1", 1, TRUE, {"far"}, "none", {}),
           R("in", "s2", 3, TRUE, {"near"}, "none", {}),
           R("in", NoId, 4, TRUE, {"near", "far"}, "set", {"far"})}

A(status, cost, error, smsc, service) ==
  [status |-> status, cost |-> cost, error |-> error, smsc_id |-> smsc, service |-> service]

Plain == A("accepted", "valid", "absent", NoId, NoId)
Silent == A("absent", "absent", "absent", NoId, NoId)
AllAnswers ==
  {Plain, Silent, A("accepted", "valid", "absent", "s2", "other"),
   A("accepted", "absent", "absent", "s2", NoId), A("accepted", "invalid", "other", NoId, NoId),
   A("refused", "valid", "zero", NoId, NoId), A("refused", "absent", "other", NoId, "other")}

DatabaseScenario(reqs, rebuilds, failures) ==
  [method |-> "database", offered |-> reqs, max |-> 1, answers |-> {}, rebuilds |-> rebuilds,
   faults |-> failures, stops |-> FALSE]
HttpScenario(reqs, max, answers, stops) ==
  [method |-> "http", offered |-> reqs, max |-> max, answers |-> answers, rebuilds |-> 0,
   faults |-> 0, stops |-> stops]

MCScenarios ==
  {DatabaseScenario({o1, o2}, 2, 1), DatabaseScenario({o1, i1}, 2, 1),
   DatabaseScenario({o2, o3, x1}, 1, 0),
   HttpScenario({o1, i1}, 1, AllAnswers, TRUE), HttpScenario({o2, o3, x1}, 1, {Plain, Silent}, FALSE),
   HttpScenario({o1, o2, o3, i1}, 2, {Silent}, FALSE)}

=============================================================================
