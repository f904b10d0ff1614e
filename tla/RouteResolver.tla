---------------------------- MODULE RouteResolver ----------------------------
(***************************************************************************)
(* The exporter's route resolver (bodylog-exporter-go/route_endpoints.go   *)
(* and pd_roles.go).  Once per interval it lists the ModelRoutes of every  *)
(* configured API group, the engines of the disaggregated releases, the    *)
(* endpoints of each discovered Service and the workload above one of its  *)
(* pods.  These are separate GETs, so the cluster may change or the API    *)
(* server may fail between any two.  A round that could not list a group   *)
(* is thrown away; any other round replaces the snapshot the poller and    *)
(* the log enrichment read, and rewrites the three replica gauges one      *)
(* write at a time.                                                        *)
(***************************************************************************)
EXTENDS Integers, FiniteSets, Sequences, SequencesExt

CONSTANTS
  Groups,         \* the ModelRoute API groups, in configuration order
  Objs,           \* the ModelRoutes, in the order a list returns them
  Conf,           \* what each version of a ModelRoute says
  Copies,         \* [Groups -> [Objs -> the versions it may have there]]
  Services,       \* the discovery Services
  Stripped,       \* [Services -> names]: the name without "-leader"
  EndpointStates, \* [Services -> set of functions from pod IP to readiness]
  PodOf, Owner,   \* the pod of a Service's endpoints; controller owners
  TopOf,          \* [Services -> the workload at the top of that chain]
  Counts,         \* [Workloads -> the replica counts it may ask for]
  Slices,         \* the LeaderWorkerSets of the disaggregated release
  SliceStates,    \* [Slices -> what it may report: n, ready, spec]
  Disaggregated,  \* the name of the release they belong to
  NginxService,   \* OPENRESTY_SERVICE, or AllServices
  InitCluster,    \* the cluster before the exporter starts
  OwnerWalkMaxDepth, PdRetryRounds,
  Gone, None, AllServices,
  Budgets         \* how often each kind of event may happen: a set of bounds

GroupSet == ToSet(Groups)
ObjSet == ToSet(Objs)
Workloads == DOMAIN Owner
Readiness == UNION {EndpointStates[s] : s \in Services}
Reports == UNION {SliceStates[i] : i \in Slices}

\* What the API server can hold.
ClusterOK(c) ==
  /\ c \in [crs : [GroupSet -> [ObjSet -> {Gone} \cup UNION {DOMAIN Conf[o] : o \in ObjSet}]],
            served : SUBSET GroupSet, lws : BOOLEAN, eps : [Services -> Readiness],
            spec : [Workloads -> Nat \cup {None}], slices : [Slices -> Reports]]
  /\ \A g \in GroupSet, o \in ObjSet : c.crs[g][o] \in {Gone} \cup DOMAIN Conf[o]

ASSUME ResolverAssumption ==
  /\ OwnerWalkMaxDepth \in Nat \ {0} /\ PdRetryRounds \in Nat
  /\ Budgets \subseteq [cluster : Nat, pages : Nat, rejects : Nat, restarts : Nat]
  /\ Groups \in Seq(GroupSet) /\ Groups # <<>> /\ Objs \in Seq(ObjSet)
  /\ \A o \in ObjSet : \A v \in DOMAIN Conf[o] : Conf[o][v].service \in Services \cup {None}

\* The cluster: slices report no more ready replicas than replicas.
ASSUME ClusterAssumption ==
  /\ ClusterOK(InitCluster) /\ IsFiniteSet(Slices) /\ DOMAIN Stripped = Services
  /\ \A g \in GroupSet, o \in ObjSet : Copies[g][o] \subseteq {Gone} \cup DOMAIN Conf[o]
  /\ \A e \in Readiness : IsFiniteSet(DOMAIN e)
  /\ \A r \in Reports : r.n \in Nat /\ r.ready \in 0..r.n /\ r.spec \in Nat \cup {None}
  /\ \A w \in Workloads : Counts[w] \subseteq Nat /\ Owner[w] \in Workloads \cup {None}
  /\ None \notin Nat /\ None \notin Workloads /\ Disaggregated \notin Workloads

\* The controller owners above a pod end in TopOf, or in a cycle.
ASSUME ChainAssumption ==
  \A s \in Services : \E C \in SUBSET Workloads :
    PodOf[s] \in C /\ \A w \in C : IF Owner[w] = None THEN w = TopOf[s] ELSE Owner[w] \in C

VARIABLES
  cluster,        \* what the API server would answer
  budget,         \* how often each kind of event may still happen
  rpc,            \* where the refresh goroutine is
  round,          \* the results of the round being built
  pdSkip,         \* rounds until the LeaderWorkerSet API is asked again
  snap,           \* the installed snapshot: byIP and targets
  filled,         \* how many of its gauge writes the round has done
  gauge,          \* the replica gauges: total, ready and desired
  up,             \* the last round succeeded
  touched, stale, \* history: what changed since the round, the snapshot, began
  held            \* history: committed counts since the round began

resolverVars == <<cluster, budget, rpc, round, pdSkip, snap, filled,
                  gauge, up, touched, stale, held>>

Empty == [x \in {} |-> None]

\* The entries of f written over those of g.
Over(f, g) == [x \in DOMAIN f \cup DOMAIN g |-> IF x \in DOMAIN f THEN f[x] ELSE g[x]]

\* normalizeServiceLabel: a Service "kimi-leader" is shown as "kimi".
NormalizeServiceLabel(s) == Stripped[s]
PdKey(s) == Stripped[s]

\* routeName: None is a monitor-only ModelRoute.
RouteName(c) ==
  IF c.route # None THEN c.route ELSE IF c.nginx THEN c.name ELSE None

\* openrestyBase: the openresty the ModelRoute names; None stands for
\* OPENRESTY_POLL_URL, which only the poller resolves.
OpenrestyBase(c) == c.openresty

\* What build polls: routes of the lua engine on the configured openresty.
Polled(c) ==
  /\ RouteName(c) # None
  /\ c.lua
  /\ NginxService \in {AllServices, c.openresty}

Target(c) == [base |-> OpenrestyBase(c), route |-> RouteName(c),
              service |-> IF c.service = None THEN None
                          ELSE NormalizeServiceLabel(c.service)]
RouteInfo(c) == [route |-> Target(c).route, service |-> Target(c).service]

\* The counts of the engines, over all the slices of the release.
SumOf(f) == SumFunction(f)
DesiredOK(slices) == slices # Empty /\ \A i \in DOMAIN slices : slices[i].spec # None
RoleRep(slices) ==
  [n |-> SumOf([i \in DOMAIN slices |-> slices[i].n]),
   ready |-> SumOf([i \in DOMAIN slices |-> slices[i].ready]),
   desired |-> IF DesiredOK(slices)
               THEN SumOf([i \in DOMAIN slices |-> slices[i].spec]) ELSE None]

\* The count an operator has committed to, for a workload or the engines.
CommittedTo(c, w) ==
  IF w = Disaggregated THEN RoleRep(c.slices).desired ELSE c.spec[w]

NoRound == [gi |-> 1, any |-> FALSE, items |-> <<>>, engines |-> None,
            byIP |-> Empty, targets |-> <<>>, reps |-> <<>>,
            cache |-> Empty, at |-> None, depth |-> 0]

ResolverInit ==
  /\ cluster = InitCluster
  /\ budget \in Budgets
  /\ rpc = "idle" /\ round = NoRound /\ pdSkip = 0
  /\ snap = [byIP |-> Empty, targets |-> <<>>]
  /\ filled = 0
  /\ gauge = [total |-> Empty, ready |-> Empty, desired |-> Empty]
  /\ up = FALSE
  /\ touched = {} /\ stale = ObjSet \cup Services
  /\ held = [w \in Workloads \cup {Disaggregated} |-> {}]

-----------------------------------------------------------------------------
(* The cluster (external): one object changes at a time. *)

Spend(kind) == budget[kind] > 0 /\ budget' = [budget EXCEPT ![kind] = @ - 1]

Change(c, what) ==
  /\ Spend("cluster")
  /\ cluster' = c
  /\ touched' = touched \cup what
  /\ stale' = stale \cup what
  /\ held' = [w \in DOMAIN held |-> held[w] \cup {CommittedTo(c, w)}]
  /\ UNCHANGED <<rpc, round, pdSkip, snap, filled, gauge, up>>

ChangeModelRoute == \E g \in GroupSet, o \in ObjSet : \E v \in Copies[g][o] :
  cluster.crs[g][o] # v /\ Change([cluster EXCEPT !.crs[g][o] = v], {o})

ChangeServed == \E g \in GroupSet :
  Change([cluster EXCEPT !.served = SymDiff(@, {g})],
         {o \in ObjSet : cluster.crs[g][o] # Gone})

ChangeEndpoints == \E s \in Services : \E e \in EndpointStates[s] :
  cluster.eps[s] # e /\ Change([cluster EXCEPT !.eps[s] = e], {s})

Scale == \E w \in Workloads : \E k \in Counts[w] :
  cluster.spec[w] # k /\ Change([cluster EXCEPT !.spec[w] = k], {})

ChangeSlice == \E i \in Slices : \E e \in SliceStates[i] :
  cluster.slices[i] # e /\ Change([cluster EXCEPT !.slices[i] = e], {})

ChangePermission == Change([cluster EXCEPT !.lws = ~@], {})

ClusterChange ==
  ChangeModelRoute \/ ChangeServed \/ ChangeEndpoints \/ Scale \/ ChangeSlice
  \/ ChangePermission

-----------------------------------------------------------------------------
(* One round. *)

\* A GET either answers or fails (time-out, 5xx, an answer that does not parse).
Answers == UNCHANGED budget
Fails == Spend("cluster")

Begin ==
  /\ rpc = "idle"
  /\ rpc' = "list"
  /\ round' = NoRound
  /\ pdSkip' = IF pdSkip > 0 THEN pdSkip - 1 ELSE 0
  /\ touched' = {}
  /\ held' = [w \in DOMAIN held |-> {CommittedTo(cluster, w)}]
  /\ UNCHANGED <<cluster, budget, snap, filled, gauge, up, stale>>

\* build returned an error: the last snapshot and the gauges stay.
Abandon ==
  /\ rpc' = "idle" /\ up' = FALSE
  /\ UNCHANGED <<cluster, round, pdSkip, snap, filled, gauge, touched,
                 stale, held>>

\* The objects of a group that no earlier group had, as the API lists them.
Unseen(g) == {o \in ObjSet : cluster.crs[g][o] # Gone}
               \ {it.obj : it \in ToSet(round.items)}
Listings(K) ==
  {s \in Bijection(1..Cardinality(K), K) :
     \A i, j \in DOMAIN s : i < j =>
       \E a, b \in DOMAIN Objs : a < b /\ s[i] = Objs[a] /\ s[j] = Objs[b]}
ItemsOf(s, g) ==
  [k \in DOMAIN s |-> [obj |-> s[k], conf |-> Conf[s[k]][cluster.crs[g][s[k]]]]]

InList == rpc = "list" /\ round.gi <= Len(Groups)

ListGroup ==
  /\ InList /\ Answers
  /\ LET g == Groups[round.gi]
     IN  IF g \in cluster.served
         THEN \E s \in Listings(Unseen(g)) :
                round' = [round EXCEPT !.gi = @ + 1, !.any = TRUE,
                                       !.items = @ \o ItemsOf(s, g)]
         ELSE round' = [round EXCEPT !.gi = @ + 1]
  /\ UNCHANGED <<cluster, rpc, pdSkip, snap, filled, gauge, up, touched,
                 stale, held>>

\* variant: a group that fails is skipped like one that is not served
ListFailsSkips ==
  /\ InList /\ Fails
  /\ round' = [round EXCEPT !.gi = @ + 1]
  /\ UNCHANGED <<cluster, rpc, pdSkip, snap, filled, gauge, up, touched,
                 stale, held>>
ListFails ==
  /\ InList /\ Fails
  /\ Abandon

NothingServed ==
  /\ rpc = "list" /\ round.gi > Len(Groups) /\ ~round.any
  /\ Abandon /\ UNCHANGED budget

\* pdRoles: None is the nil map of a round without an answer.
PdRoles ==
  /\ rpc = "list" /\ round.gi > Len(Groups) /\ round.any
  /\ rpc' = "items"
  /\ \/ pdSkip > 0 /\ UNCHANGED <<pdSkip, budget, round>>
     \/ /\ pdSkip = 0 /\ ~cluster.lws
        /\ pdSkip' = PdRetryRounds /\ UNCHANGED <<budget, round>>
     \/ /\ pdSkip = 0 /\ cluster.lws
        /\ \/ Answers /\ round' = [round EXCEPT !.engines = cluster.slices]
           \/ Fails /\ UNCHANGED round
        /\ UNCHANGED pdSkip
  /\ UNCHANGED <<cluster, snap, filled, gauge, up, touched, stale, held>>

\* The poll list: one target per openresty and route, the first seen.
AddTarget(targets, c) ==
  IF /\ Polled(c)
     /\ \A t \in ToSet(targets) : t.base # OpenrestyBase(c) \/ t.route # RouteName(c)
  THEN Append(targets, Target(c)) ELSE targets

Rep(label, role, total, ready, desired) ==
  [label |-> <<label.service, label.route, role>>,
   total |-> total, ready |-> ready, desired |-> desired]

\* The series of one ModelRoute: its engines, if the release has any, then itself.
RepsOf(c, e, desired) ==
  LET eng == round.engines
      split == eng # None /\ eng # Empty /\ PdKey(c.service) = Disaggregated
      self(role) == Rep(Target(c), role, Cardinality(DOMAIN e),
                        Cardinality({ip \in DOMAIN e : e[ip]}), desired)
      engines == RoleRep(eng)
  IN  IF split THEN <<Rep(Target(c), "prefill", engines.n, engines.ready,
                          engines.desired), self("router")>>
      ELSE <<self("")>>

Item == Head(round.items).conf
InItem == rpc = "items" /\ round.items # <<>>

\* A ModelRoute without a route, or without a Service, ends here.
NoBackend(c) == RouteName(c) = None \/ c.service = None

ItemPolledOnly ==
  /\ InItem /\ NoBackend(Item)
  /\ round' = [round EXCEPT !.targets = AddTarget(@, Item), !.items = Tail(@)]
  /\ UNCHANGED <<cluster, budget, rpc, pdSkip, snap, filled, gauge, up,
                 touched, stale, held>>

\* podIPsForService answered: map every address, then walk up from one pod.
ItemEndpoints ==
  /\ InItem /\ ~NoBackend(Item) /\ Answers
  /\ LET e == cluster.eps[Item.service]
         info == [ip \in DOMAIN e |-> RouteInfo(Item)]
     IN  /\ rpc' = "walk"
         /\ round' = [round EXCEPT
              !.targets = AddTarget(@, Item), !.byIP = Over(info, @), !.depth = 0,
              !.at = [ips |-> e, obj |-> IF e = Empty THEN None
                                         ELSE PodOf[Item.service]]]
  /\ UNCHANGED <<cluster, pdSkip, snap, filled, gauge, up, touched,
                 stale, held>>

ItemFails ==
  /\ InItem /\ ~NoBackend(Item) /\ Fails
  /\ round' = [round EXCEPT !.targets = AddTarget(@, Item), !.items = Tail(@)]
  /\ touched' = touched \cup {Item.service}
  /\ UNCHANGED <<cluster, rpc, pdSkip, snap, filled, gauge, up, stale, held>>

\* desiredForPod ends with a count, or with None when it cannot know.
Walked(cache, desired) ==
  /\ rpc' = "items"
  /\ round' = [round EXCEPT !.items = Tail(@), !.at = None, !.cache = cache,
                            !.reps = @ \o RepsOf(Item, round.at.ips, desired)]

InWalk == rpc = "walk" /\ round.at.obj # None /\ round.depth < OwnerWalkMaxDepth

\* variant: stop at the first object that has a replica count
AtTopFirst(w) == Owner[w] = None \/ cluster.spec[w] # None
\* the workload itself: no controller owns it
AtTop(w) == Owner[w] = None

\* variant: the walk is not counted
DeeperNot(d) == d
Deeper(d) == d + 1

\* getOwnerObj: each object is read once per round.
WalkUp ==
  /\ InWalk /\ Answers
  /\ LET w == round.at.obj
         cache == Over(round.cache, [x \in {w} |-> cluster.spec[w]])
     IN  IF AtTop(w) THEN Walked(cache, cache[w])
         ELSE /\ round' = [round EXCEPT !.at.obj = Owner[w], !.cache = cache,
                                        !.depth = Deeper(@)]
              /\ UNCHANGED rpc
  /\ UNCHANGED <<cluster, pdSkip, snap, filled, gauge, up, touched,
                 stale, held>>

WalkFails ==
  /\ InWalk /\ round.at.obj \notin DOMAIN round.cache /\ Fails
  /\ Walked(round.cache, None)
  /\ UNCHANGED <<cluster, pdSkip, snap, filled, gauge, up, touched,
                 stale, held>>

WalkEnds ==
  /\ rpc = "walk"
  /\ round.at.obj = None \/ round.depth >= OwnerWalkMaxDepth
  /\ Walked(round.cache, None)
  /\ UNCHANGED <<cluster, budget, pdSkip, snap, filled, gauge, up,
                 touched, stale, held>>

\* The gauge writes of refresh: three Resets, then three series per rep, where
\* a count that is not known is not written.
Vecs == <<"total", "ready", "desired">>
Writes(reps) == 3 * (Len(reps) + 1)
Shown(vec, rep) == IF rep[vec] = None THEN Empty ELSE [l \in {rep.label} |-> rep[vec]]
\* variant: the ready gauge is not cleared
WrittenKeepReady(g, reps, k) ==
  LET vec == Vecs[((k - 1) % 3) + 1]
  IN  [g EXCEPT ![vec] = IF k > 3 THEN Over(Shown(vec, reps[(k - 1) \div 3]), @)
                         ELSE IF vec = "ready" THEN @ ELSE Empty]
Written(g, reps, k) ==
  LET vec == Vecs[((k - 1) % 3) + 1]
  IN  [g EXCEPT ![vec] = IF k > 3 THEN Over(Shown(vec, reps[(k - 1) \div 3]), @)
                         ELSE Empty]

Install ==
  /\ rpc = "items" /\ round.items = <<>>
  /\ rpc' = "fill"
  /\ snap' = [byIP |-> round.byIP, targets |-> round.targets]
  /\ filled' = 0
  /\ stale' = touched
  /\ UNCHANGED <<cluster, budget, round, pdSkip, gauge, up, touched, held>>

Fill ==
  /\ rpc = "fill" /\ filled < Writes(round.reps)
  /\ filled' = filled + 1
  /\ gauge' = Written(gauge, round.reps, filled')
  /\ UNCHANGED <<cluster, budget, rpc, round, pdSkip, snap, up, touched,
                 stale, held>>

Finish ==
  /\ rpc = "fill" /\ filled = Writes(round.reps)
  /\ rpc' = "idle" /\ up' = TRUE
  /\ round' = NoRound /\ filled' = 0
  /\ UNCHANGED <<cluster, budget, pdSkip, snap, gauge, touched, stale, held>>

ResolverStep ==
  \/ Begin \/ ListGroup \/ ListFails \/ NothingServed \/ PdRoles
  \/ ItemPolledOnly \/ ItemEndpoints \/ ItemFails
  \/ WalkUp \/ WalkFails \/ WalkEnds
  \/ Install \/ Fill \/ Finish

\* Lookup: what a finished request served by a pod is attributed to.
Lookup(ip) == IF ip \in DOMAIN snap.byIP THEN snap.byIP[ip] ELSE None

-----------------------------------------------------------------------------
(* What the cluster holds right now, merged as the resolver merges it. *)

Holders(o) == {k \in 1..Len(Groups) :
                 Groups[k] \in cluster.served /\ cluster.crs[Groups[k]][o] # Gone}
Winner(o) == Conf[o][cluster.crs[Groups[Min(Holders(o))]][o]]
Present == {o \in ObjSet : Holders(o) # {}}
Current == {Winner(o) : o \in Present}
SamePlace(c, t) == OpenrestyBase(c) = t.base /\ RouteName(c) = t.route

(***************************************************************************)
(* The snapshot agrees with the cluster on everything that has not changed *)
(* since the round that built it began and that this round could read:     *)
(* every polled ModelRoute is a target of its openresty under the service  *)
(* label of a ModelRoute that claims it, every pod of its Service is       *)
(* attributed to a ModelRoute of that Service, and nothing else is in it.  *)
(* Half a list is never installed, an API error keeps the last snapshot,   *)
(* and one Service that fails costs no other its attribution.              *)
(***************************************************************************)
SnapshotCurrent ==
  /\ \A o \in Present \ stale : LET c == Winner(o) IN
       /\ Polled(c) => \E t \in ToSet(snap.targets) : SamePlace(c, t)
       /\ ~NoBackend(c) /\ c.service \notin stale =>
            \A ip \in DOMAIN cluster.eps[c.service] :
              /\ ip \in DOMAIN snap.byIP
              /\ stale = {} => \E d \in Current : /\ ~NoBackend(d)
                                                /\ ip \in DOMAIN cluster.eps[d.service]
                                                /\ Lookup(ip) = RouteInfo(d)
  /\ stale = {} =>
       /\ \A t \in ToSet(snap.targets) :
            \E c \in Current : Polled(c) /\ t = Target(c)
       /\ \A ip \in DOMAIN snap.byIP : \E c \in Current :
            ~NoBackend(c) /\ ip \in DOMAIN cluster.eps[c.service]

\* Two ModelRoutes may carry the series: a route of one Service that is served
\* by two openrestys.
Series(c) == <<Target(c).service, RouteName(c)>>
Carries(o, l) == \E v \in DOMAIN Conf[o] : Series(Conf[o][v]) = <<l[1], l[2]>>
Shared(l) == \E o, p \in ObjSet : o # p /\ Carries(o, l) /\ Carries(p, l)

(***************************************************************************)
(* No series shows more ready backends than backends, which the rule       *)
(* ready < total relies on, and neither does it at any moment of a refill: *)
(* ready and total counts that are exported under the same labels at the   *)
(* same moment are of one round and one ModelRoute.  Only a series that    *)
(* two ModelRoutes share may differ, while it is being rewritten: the      *)
(* Service is read once for each.  A scrape that collects the two vectors  *)
(* one after the other, across a refill, may still pair two rounds.        *)
(***************************************************************************)
ComparableSeries ==
  \A l \in DOMAIN gauge.ready \cap DOMAIN gauge.total :
    gauge.ready[l] <= gauge.total[l] \/ (rpc = "fill" /\ Shared(l))

(***************************************************************************)
(* After a successful round a desired count is one that was committed to   *)
(* during that round: the replicas of the workload at the top of the       *)
(* chain, never of a StatefulSet that a surge raised, and for the engines  *)
(* the sum over every slice, never over those that happened to report.     *)
(***************************************************************************)
DesiredIsCommitted ==
  rpc = "idle" /\ up =>
    \A l \in DOMAIN gauge.desired :
      gauge.desired[l] \in
        IF l[3] = "prefill" THEN held[Disaggregated]
        ELSE UNION {held[TopOf[s]] :
                 s \in {x \in Services : Stripped[x] = l[1] /\ TopOf[x] # None}}

\* The series the gauges should show if the cluster stays as it is.
ExpectedTotal ==
  UNION {LET split == cluster.lws /\ PdKey(c.service) = Disaggregated
             series(role, n) == <<<<Target(c).service, RouteName(c), role>>, n>>
             n == Cardinality(DOMAIN cluster.eps[c.service])
         IN  IF split THEN {series("router", n),
                            series("prefill", RoleRep(cluster.slices).n)}
             ELSE {series("", n)}
         : c \in {d \in Current : ~NoBackend(d)}}
=============================================================================
