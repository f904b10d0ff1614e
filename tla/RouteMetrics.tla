---------------------------- MODULE RouteMetrics -----------------------------
(***************************************************************************)
(* The exporter's openresty poller (bodylog-exporter-go/openresty_poll.go) *)
(* beside the route resolver it takes its targets from.  A cycle clears    *)
(* the gauges, copies the resolver's targets, asks each of them for its    *)
(* four status pages and at the end says of each whether all four came.    *)
(* The rejection counter is carried over from openresty's own count, which *)
(* starts at zero whenever openresty does.  One page of gauges stands      *)
(* for the three and one reason of rejection for the three: each is        *)
(* treated alike and apart from the others.                                *)
(***************************************************************************)
EXTENDS RouteResolver

CONSTANTS
  Bases, Routes,  \* the openrestys and the routes they serve
  Fallback        \* OPENRESTY_POLL_URL

ASSUME PollerAssumption ==
  /\ Fallback \in Bases /\ IsFiniteSet(Bases) /\ IsFiniteSet(Routes)
  /\ \A o \in ObjSet : \A v \in DOMAIN Conf[o] :
       /\ RouteName(Conf[o][v]) \in Routes \cup {None}
       /\ OpenrestyBase(Conf[o][v]) \in Bases \cup {None}

VARIABLES
  hits,       \* openresty's count of rejections, per openresty and route
  turned,     \* history: every rejection there ever was
  restarted,  \* history: an openresty has restarted
  ppc,        \* where the poll goroutine is
  cycle,      \* the targets of the cycle, how many were asked, which failed
  prev,       \* the count seen last, per openresty and route
  rejected,   \* the exported counter, per series
  pollUp,     \* the exported verdict per label
  answers     \* history: who was asked in the cycle and whether all came

pollerVars == <<hits, turned, restarted, ppc, cycle, prev, rejected,
                pollUp, answers>>
vars == <<resolverVars, pollerVars>>
unspent == <<cluster, rpc, round, pdSkip, snap, filled, gauge, up, touched,
             stale, held>>   \* all of the resolver's but the budget

Pages == {"gauges", "429_status"}
Label(t) == <<IF t.service = None THEN "unknown" ELSE t.service, t.route>>
BaseOf(t) == IF t.base = None THEN Fallback ELSE t.base
Key(t) == <<BaseOf(t), t.route>>
Zero == [k \in Bases \X Routes |-> 0]
NoCycle == [targets |-> <<>>, next |-> 1, failed |-> {}]

Init ==
  /\ ResolverInit
  /\ hits = Zero /\ turned = 0 /\ restarted = FALSE
  /\ ppc = "idle" /\ cycle = NoCycle /\ prev = Zero
  /\ rejected = Empty /\ pollUp = Empty
  /\ answers = {}

-----------------------------------------------------------------------------
(* openresty (external): a rejection, and a restart that forgets them. *)

Reject == \E k \in Bases \X Routes :
  /\ Spend("rejects")
  /\ hits' = [hits EXCEPT ![k] = @ + 1]
  /\ turned' = turned + 1
  /\ UNCHANGED <<unspent, restarted, ppc, cycle, prev, rejected,
                 pollUp, answers>>

Restart == \E b \in Bases :
  /\ Spend("restarts")
  /\ restarted' = TRUE
  /\ hits' = [k \in DOMAIN hits |-> IF k[1] = b THEN 0 ELSE hits[k]]
  /\ UNCHANGED <<unspent, turned, ppc, cycle, prev, rejected, pollUp, answers>>

-----------------------------------------------------------------------------
(* pollOnce *)

PollBegin ==
  /\ ppc = "idle"
  /\ ppc' = "poll"
  /\ cycle' = [NoCycle EXCEPT !.targets = snap.targets]
  /\ pollUp' = Empty /\ answers' = {}
  /\ UNCHANGED <<resolverVars, hits, turned, restarted, prev, rejected>>

\* openresty lists a route only once it has rejected something.
Increase(k) == IF hits[k] >= prev[k] THEN hits[k] - prev[k] ELSE hits[k]
Add(counter, l, n) ==
  Over([x \in {l} |-> n + IF l \in DOMAIN counter THEN counter[l] ELSE 0], counter)
\* variant: the count seen last is kept per route, for all openrestys
CountRejectionsPerRoute(t) ==
  LET k == Key(t)
  IN  IF hits[k] = 0
      THEN rejected' = Add(rejected, Label(t), 0) /\ UNCHANGED prev
      ELSE /\ rejected' = Add(rejected, Label(t), Increase(k))
           /\ prev' = [x \in DOMAIN prev |-> IF x[2] = k[2] THEN hits[k]
                                            ELSE prev[x]]
CountRejections(t) ==
  LET k == Key(t)
  IN  IF hits[k] = 0
      THEN rejected' = Add(rejected, Label(t), 0) /\ UNCHANGED prev
      ELSE /\ rejected' = Add(rejected, Label(t), Increase(k))
           /\ prev' = [prev EXCEPT ![k] = hits[k]]

\* variant: a page that did not come marks every target
FailedByAll(t, bad) == IF bad = {} THEN {} ELSE Bases \X Routes
\* fail: a page that did not come marks its own openresty and route.
FailedBy(t, bad) == IF bad = {} THEN {} ELSE {Key(t)}

PollTarget == \E bad \in SUBSET Pages :
  /\ ppc = "poll" /\ cycle.next <= Len(cycle.targets)
  /\ IF bad = {} THEN UNCHANGED budget ELSE Spend("pages")
  /\ LET t == cycle.targets[cycle.next]
     IN  /\ IF "429_status" \in bad THEN UNCHANGED <<rejected, prev>>
            ELSE CountRejections(t)
         /\ cycle' = [cycle EXCEPT !.next = @ + 1,
                                   !.failed = @ \cup FailedBy(t, bad)]
         /\ answers' = answers \cup {[label |-> Label(t), key |-> Key(t),
                                   ok |-> bad = {}]}
  /\ UNCHANGED <<unspent, hits, turned, restarted, ppc, pollUp>>

Ok(t) == Key(t) \notin cycle.failed

\* The verdicts, written target by target: of two with one label the last stays.
Verdict(l) ==
  Ok(cycle.targets[Max({k \in 1..Len(cycle.targets) : Label(cycle.targets[k]) = l})])

PollEnd ==
  /\ ppc = "poll" /\ cycle.next > Len(cycle.targets)
  /\ ppc' = "idle"
  /\ pollUp' = [l \in {Label(t) : t \in ToSet(cycle.targets)} |-> Verdict(l)]
  /\ cycle' = NoCycle
  /\ UNCHANGED <<resolverVars, hits, turned, restarted, prev, rejected,
                 answers>>

PollerStep == PollBegin \/ PollTarget \/ PollEnd

Next ==
  \/ (ClusterChange \/ ResolverStep) /\ UNCHANGED pollerVars
  \/ Reject \/ Restart \/ PollerStep

Spec ==
  /\ Init /\ [][Next]_vars
  /\ WF_vars(ResolverStep /\ UNCHANGED pollerVars)
  /\ WF_vars(PollerStep)

-----------------------------------------------------------------------------
\* Every variable stays in its type; in particular a counter is a natural number.
TypeOK ==
  /\ rpc \in {"idle", "list", "items", "walk", "fill"} /\ ppc \in {"idle", "poll"}
  /\ pdSkip \in 0..PdRetryRounds /\ round.depth \in 0..OwnerWalkMaxDepth
  /\ round.gi \in 1..Len(Groups) + 1 /\ up \in BOOLEAN
  /\ ToSet(round.targets) \cup ToSet(snap.targets) \subseteq
       [base : Bases \cup {None}, route : Routes, service : Range(Stripped) \cup {None}]
  /\ hits \in [Bases \X Routes -> Nat] /\ prev \in [Bases \X Routes -> Nat]
  /\ \A l \in DOMAIN rejected : rejected[l] \in Nat
  /\ \A l \in DOMAIN pollUp : pollUp[l] \in BOOLEAN

(***************************************************************************)
(* The exported counter counts a rejection at most once, however the       *)
(* openrestys restart and whichever of them share a route name; and as     *)
(* long as none restarted it is exactly what the polls saw.                *)
(***************************************************************************)
RejectionsCountedOnce ==
  /\ SumOf(rejected) <= turned
  /\ ~restarted => SumOf(rejected) = SumOf(prev)

\* The same with the types: no target without a route, no walk beyond the
\* bound, no counter below zero.
CountersSound == TypeOK /\ RejectionsCountedOnce

(***************************************************************************)
(* Between cycles openresty_poll_up of a label is the verdict on an        *)
(* openresty and route that carries it: 1 if all pages of that route came  *)
(* from there, and then its counter is there, 0 if one did not.  A route   *)
(* that fails darkens no other route and no other openresty.               *)
(***************************************************************************)
PollUpHonest ==
  ppc = "idle" => \A l \in DOMAIN pollUp :
    /\ \E a \in answers :
         /\ a.label = l
         /\ pollUp[l] <=> \A b \in answers : b.key = a.key => b.ok
    /\ pollUp[l] => l \in DOMAIN rejected

Watched == {c \in Current : Polled(c)}

(***************************************************************************)
(* When the cluster comes to rest and the API server answers again, the    *)
(* exporter shows the cluster as it is: the poller's verdicts are those of *)
(* the ModelRoutes that exist, gone ones vanish, and the backend counts    *)
(* are the current ones, per role where the roles can be read.             *)
(***************************************************************************)
Heals ==
  /\ []<>(\/ cluster.served = {}
          \/ /\ ppc = "idle"
             /\ DOMAIN pollUp \subseteq {Label(Target(c)) : c \in Watched}
             /\ \A c \in Watched : \E d \in Watched :
                  SamePlace(c, Target(d)) /\ Label(Target(d)) \in DOMAIN pollUp)
  /\ []<>(\/ cluster.served = {}
          \/ /\ rpc = "idle" /\ up
             /\ {<<l, gauge.total[l]>> : l \in DOMAIN gauge.total} = ExpectedTotal)
=============================================================================
