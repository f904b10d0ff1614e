--------------------------- MODULE MCRouteTimers ---------------------------
(***************************************************************************)
(* The two halves of a route's background timers for TLC: the AIMD step    *)
(* that the elected worker runs (AdaptiveCC), and the election that says   *)
(* which worker that is (TimerElection).  They share no state: the step    *)
(* works on tps_dict, the election on one entry of lc_locks.  So one run   *)
(* checks them side by side: a behaviour belongs to one half, the other    *)
(* half rests in an initial state of its own, and TLC explores the sum of  *)
(* the two state spaces instead of their product.                          *)
(***************************************************************************)
EXTENDS AdaptiveCC, TimerElection

CONSTANTS w1, w2, w3

VARIABLE side   \* the half this behaviour belongs to

routeVars == <<vars, electionVars, side>>

\* One slot is 4 units.  min 2, init 3 and max 5 slots.
Wide   == [maxcc |-> 5, min |-> None, minPct |-> 40, init |-> 3, initPct |-> None,
           hold |-> FALSE]
Held   == [Wide EXCEPT !.hold = TRUE]
\* min and init are configured for a bigger pool: both come out at 2.  A reload
\* between the two peer lists, of 5 and 2 slots, moves the whole band.
Narrow == [maxcc |-> 2, min |-> 3, minPct |-> 40, init |-> None, initPct |-> 30,
           hold |-> TRUE]
AllPools == {Wide, Held, Narrow}

RouteInit ==
  /\ Init /\ ElectionInit
  /\ \/ side = "limit" /\ state = [w \in Workers |-> "dead"]
     \/ side = "election" /\ conf = ConfigOf(Wide)

InLimit    == side = "limit" /\ UNCHANGED <<side, electionVars>>
InElection == side = "election" /\ UNCHANGED <<side, vars>>

RouteNext ==
  \/ InLimit /\ Tick
  \/ InLimit /\ (Reject \/ Traffic \/ Measure)
  \/ InLimit /\ (Elapse \/ RejExpire \/ Reload)
  \/ InElection /\ Pass
  \/ InElection /\ \E w \in Workers : Timer(w) \/ Exit(w) \/ Spawn(w) \/ Stall(w) \/ Resume(w)

\* ngx.timer fires and its callback runs to the end.
RouteSpec ==
  /\ RouteInit /\ [][RouteNext]_routeVars
  /\ WF_routeVars(InLimit /\ Tick) /\ WF_routeVars(InLimit /\ Elapse)
=============================================================================
