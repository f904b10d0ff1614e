--------------------------- MODULE MCRouteMetrics ----------------------------
(* Two ModelRoutes that share a route name on two openrestys, moved between  *)
(* two API groups: one is a disaggregated release behind a LeaderWorkerSet,  *)
(* in the middle of a surge, the other a plain Service whose owner references *)
(* form a cycle.                                                             *)
EXTENDS RouteMetrics

MCKimi == "kimi-leader"
MCPlain == "plain"
MCServices == {MCKimi, MCPlain}
MCStripped == [s \in MCServices |-> IF s = MCKimi THEN "kimi" ELSE s]
MCGroups == <<"new", "old">>
MCObjs == <<"o1", "o2">>
MCCopy(name, route, openresty, service, lua) ==
  [name |-> name, route |-> route, openresty |-> openresty, service |-> service,
   lua |-> lua, nginx |-> TRUE]
MCConf ==
  [o1 |-> << MCCopy("o1", "r", "b1", MCKimi, TRUE),
             MCCopy("o1", "r", "b2", MCKimi, TRUE),
             MCCopy("o1", "r", None, MCKimi, TRUE) >>,
   o2 |-> << MCCopy("r", None, None, MCPlain, TRUE),
             [MCCopy("o2", None, None, None, TRUE) EXCEPT !.nginx = FALSE],
             MCCopy("o2", "r", "b2", MCKimi, TRUE) >>]
MCCopies == [new |-> [o1 |-> {Gone, 2, 3}, o2 |-> {Gone}],
             old |-> [o1 |-> {Gone, 1}, o2 |-> {Gone, 1, 2, 3}]]
MCEndpointStates ==
  [s \in MCServices |-> IF s = MCKimi
     THEN {[ip \in {"p1", "p2"} |-> TRUE], [ip \in {"p1"} |-> FALSE]}
     ELSE {[ip \in {"p3"} |-> TRUE], Empty}]
MCPodOf == [s \in MCServices |-> IF s = MCKimi THEN "pod1" ELSE "pod2"]
MCOwner == [pod1 |-> "sts", sts |-> "lws", lws |-> None, pod2 |-> "x", x |-> "x"]
MCTopOf == [s \in MCServices |-> IF s = MCKimi THEN "lws" ELSE None]
MCCounts == [w \in DOMAIN MCOwner |-> IF w = "lws" THEN {1, 2} ELSE {}]
MCReporting == [n |-> 1, ready |-> 1, spec |-> 1]
MCSilent == [n |-> 1, ready |-> 0, spec |-> None]
MCSliceStates == [i1 |-> {MCReporting, MCSilent}, i2 |-> {MCReporting}]
MCBudget(c, p, j, s) == [cluster |-> c, pages |-> p, rejects |-> j, restarts |-> s]
MCBudgets == {MCBudget(2, 0, 0, 0), MCBudget(1, 1, 0, 0), MCBudget(0, 1, 2, 1)}
MCInitCluster ==
  [crs |-> [new |-> [o1 |-> Gone, o2 |-> Gone], old |-> [o1 |-> 1, o2 |-> 1]],
   served |-> {"new", "old"}, lws |-> TRUE,
   eps |-> [s \in MCServices |-> CHOOSE e \in MCEndpointStates[s] : \A ip \in DOMAIN e : e[ip]],
   spec |-> [pod1 |-> None, sts |-> 3, lws |-> 1, pod2 |-> None, x |-> None],
   slices |-> [i \in Slices |-> MCReporting]]
=============================================================================
