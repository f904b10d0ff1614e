----------------------------- MODULE Admission -----------------------------
(***************************************************************************)
(* Admission, peer selection, retry and release of one route's pool, as    *)
(* nginx workers run them: do_route, do_balancer and do_log_release of     *)
(* lua/access.lua on assess_pool and pick_from of lua/route.lua.           *)
(*                                                                         *)
(* Workers are processes that share nothing but the shared dicts.  A dict  *)
(* operation is atomic, a handler is not: every write of active_conns, and *)
(* every read the gate sums up, is a step of its own; the reads that only  *)
(* rank peers (the least_conn scan, the fallback sort) are one step.       *)
(* Inside one worker a handler runs to its next yield (Running), and the   *)
(* only yield between the assessment of the pool and the increment is the  *)
(* wait for the least_conn lock.                                           *)
(*                                                                         *)
(* Peers are positions in opts.peers, so the order of a Lua loop is the    *)
(* order of the numbers.  A request's session id, share and probe bit are  *)
(* constants of the request.                                               *)
(***************************************************************************)
EXTENDS Integers, Sequences, FiniteSets, FiniteSetsExt, Functions

CONSTANTS
  Workers,          \* nginx worker processes
  Requests,         \* the requests of a behaviour
  NPeers,           \* number of peers of the pool
  Priority,         \* peer -> tier, p[4]
  MaxConc,          \* peer -> max_concurrency, p[5]
  Sids,             \* session ids
  SidOf,            \* request -> session id or NoSid
  Hash,             \* session id -> peer -> 32-bit prefix of md5(sid|peer)
  IsProbe,          \* request -> is its uri /v1/models or /health
  SharePct,         \* request -> 100 * rt_limit_factor * share of its turn bucket
  MaxMoreTries,     \* opts.max_more_tries
  CrossTier,        \* opts.cross_tier_fallback
  InterceptErrors,  \* the route sends upstream 4xx to @return_501
  Adaptive,         \* opts.adaptive_cc and the tps feature on
  CCValues,         \* values the AIMD timer may store (AdaptiveCC)
  InitCC,           \* route.derive_initcc
  ResetValues,      \* values an operator may set through /_active_conns_set
  MaxCrashes,       \* bound: worker crashes in a behaviour
  MaxResets,        \* bound: operator corrections in a behaviour
  MaxBans,          \* bound: number of peers banned at the same time
  NoSid, NoPeer, NoCC, NoWorker

Peers == 1..NPeers

ASSUME SetsAssumption ==
  /\ IsFiniteSet(Requests)
  /\ NPeers \in Nat \ {0}
  /\ NoPeer \notin Peers
  /\ NoSid \notin Sids
  /\ NoWorker \notin Workers
ASSUME RouteAssumption ==
  /\ Priority \in [Peers -> Nat]
  /\ MaxConc \in [Peers -> Nat \ {0}]
  /\ Hash \in [Sids -> [Peers -> Nat]]
  /\ MaxMoreTries \in Nat \ {0}
  /\ CrossTier \in BOOLEAN
  /\ InterceptErrors \in BOOLEAN
  /\ Adaptive \in BOOLEAN
ASSUME RequestAssumption ==
  /\ SidOf \in [Requests -> Sids \cup {NoSid}]
  /\ IsProbe \in [Requests -> BOOLEAN]
  /\ SharePct \in [Requests -> Nat \ {0}]
ASSUME BoundAssumption ==
  /\ CCValues \subseteq Nat \ {0}
  /\ InitCC \in Nat \ {0}
  /\ NoCC \notin Nat
  /\ ResetValues \subseteq Nat
  /\ MaxCrashes \in Nat
  /\ MaxResets \in Nat
  /\ MaxBans \in Nat

VARIABLES
  active,   \* shared dict active_conns: peer -> counter
  banned,   \* shared dict bad_peers: the peers with a live entry
  cc,       \* shared dict tps_stat: the adaptive_cc entry, or NoCC
  lcLock,   \* shared dict lc_locks: is there a least_conn_pick entry
  pc,       \* request -> where its handler is
  on,       \* request -> the worker that runs it
  healthy,  \* request -> healthy_all of its assessment
  cursor,   \* request -> next peer whose counter route.inflight reads
  rtSum,    \* request -> rt_sum so far
  mode,     \* request -> how its peer was picked
  chosen,   \* request -> first peer; also nginx var $routed_peer
  key,      \* request -> ngx.ctx.peer_counter_key, the peer that counts it
  fb,       \* request -> ngx.ctx.fallback_peers
  attempt,  \* request -> retries so far
  clamp,    \* request -> key it decremented below zero and must set to 0
  limit,    \* request -> do_route's local limit, once its gate has let it pass
  tried,    \* history: request -> peers it was sent to, in order
  leaked,   \* history: peer -> counts left behind by crashed workers
  unseen,   \* history: request -> how often a request was counted in on a
            \* peer whose counter this one had already read
  crashes, resets

reqVars == <<pc, on, healthy, cursor, rtSum, mode, chosen, key, fb, attempt,
             clamp, tried>>
history == <<limit, unseen, leaked, crashes, resets>>
vars    == <<active, banned, cc, lcLock, reqVars, history>>

PCs == {"idle", "sum", "gate", "pick", "lockwait", "scan", "scanLocked", "incr",
        "proxy", "clampRetry", "retry", "log", "log501", "clampLog", "done"}
\* States in which the handler holds its worker's thread (no yield inside).
Running == {"sum", "gate", "pick", "scan", "scanLocked", "incr", "clampRetry",
            "retry", "clampLog"}
Modes == {"none", "hash", "hash_fallback", "least_conn"}

Free(w)    == \A r \in Requests : on[r] = w => pc[r] \notin Running
SomeFree   == \E w \in Workers : Free(w)
-----------------------------------------------------------------------------
(***************************************************************************)
(* Pool arithmetic of route.assess_pool.                                   *)
(***************************************************************************)
ActiveLevel(H)  == Max({Priority[p] : p \in H})
Level(H, l)     == {p \in H : Priority[p] = l}
HealthyPeers(H) == Level(H, ActiveLevel(H))
CapByPrio(H, l) == SumFunctionOnSet(MaxConc, Level(H, l))
PoolLimit(H)    == Max({CapByPrio(H, Priority[p]) : p \in H})

\* limit of do_route: the static capacity, or the AIMD value capped by it.
Limit(H, c) ==
  IF Adaptive THEN Min({IF c = NoCC THEN InitCC ELSE c, PoolLimit(H)})
              ELSE PoolLimit(H)

HitRt(r, sum, lim) == sum * 100 >= lim * SharePct[r]

\* Variant: the scheme README.md describes, crc32(sid) % #peers over the
\* healthy list.
IsModulo(s, S, p) ==
  /\ p \in S
  /\ Cardinality({q \in S : q < p}) = Hash[s][1] % Cardinality(S)

(***************************************************************************)
(* util.pick_rendezvous: the peer with the largest hash wins, the first of *)
(* the list on a tie.                                                      *)
(***************************************************************************)
IsRendezvous(s, S, p) ==
  /\ p \in S
  /\ \A q \in S : Hash[s][q] < Hash[s][p] \/ (Hash[s][q] = Hash[s][p] /\ p <= q)

(***************************************************************************)
(* pick_least_conn_locked: smallest active/max ratio, ties at random.      *)
(***************************************************************************)
LeastLoaded(S) ==
  {p \in S : \A q \in S : active[p] * MaxConc[q] <= active[q] * MaxConc[p]}

(***************************************************************************)
(* The fallback list: every other peer of the active tier and, across      *)
(* tiers, one least loaded representative of each lower tier; sorted by    *)
(* tier, then by load.  table.sort leaves equal loads in any order.        *)
(***************************************************************************)
FallbackMembers(H, p) ==
  LET lvl  == ActiveLevel(H)
      rest == (IF CrossTier THEN H ELSE HealthyPeers(H)) \ {p}
  IN {K \in SUBSET rest :
        /\ Level(rest, lvl) \subseteq K
        /\ \A q \in rest : Priority[q] # lvl =>
             \E k \in Level(K, Priority[q]) :
               /\ Level(K, Priority[q]) = {k}
               /\ active[k] <= active[q]}

\* Variant: the comparator of the sort compares loads only.
FallbackListsByLoad(H, p) ==
  {s \in UNION {Injection(1..Cardinality(K), K) : K \in FallbackMembers(H, p)} :
     \A i, j \in DOMAIN s : i < j => active[s[i]] <= active[s[j]]}

FallbackLists(H, p) ==
  {s \in UNION {Injection(1..Cardinality(K), K) : K \in FallbackMembers(H, p)} :
     \A i, j \in DOMAIN s : i < j =>
       \/ Priority[s[i]] > Priority[s[j]]
       \/ Priority[s[i]] = Priority[s[j]] /\ active[s[i]] <= active[s[j]]}

\* balancer.set_more_tries of the first attempt.
MoreTries(r) == IF MaxMoreTries <= Len(fb[r]) THEN MaxMoreTries ELSE Len(fb[r])

\* Handlers between the gate and the increment, and those that have read the
\* counter of p and not yet counted themselves in.
PastGate == {"pick", "lockwait", "scan", "scanLocked", "incr"}
HasRead(r, p) == (pc[r] \in {"sum", "gate"} /\ p < cursor[r]) \/ pc[r] \in PastGate

\* dict:incr(p, 1, 0) for request r, unseen by whoever has read p before.
CountIn(r, p) ==
  /\ active' = [active EXCEPT ![p] = @ + 1]
  /\ key' = [key EXCEPT ![r] = p]
  /\ unseen' = [q \in Requests |-> IF q = r THEN 0
                                 ELSE IF HasRead(q, p) THEN unseen[q] + 1
                                 ELSE unseen[q]]
-----------------------------------------------------------------------------
Init ==
  /\ active  = [p \in Peers |-> 0]
  /\ banned  = {}
  /\ cc      = NoCC
  /\ lcLock  = FALSE
  /\ pc      = [r \in Requests |-> "idle"]
  /\ on      = [r \in Requests |-> NoWorker]
  /\ healthy = [r \in Requests |-> {}]
  /\ cursor  = [r \in Requests |-> 1]
  /\ rtSum   = [r \in Requests |-> 0]
  /\ mode    = [r \in Requests |-> "none"]
  /\ chosen  = [r \in Requests |-> NoPeer]
  /\ key     = [r \in Requests |-> NoPeer]
  /\ fb      = [r \in Requests |-> <<>>]
  /\ attempt = [r \in Requests |-> 0]
  /\ clamp   = [r \in Requests |-> NoPeer]
  /\ limit   = [r \in Requests |-> 0]
  /\ tried   = [r \in Requests |-> <<>>]
  /\ unseen  = [r \in Requests |-> 0]
  /\ leaked  = [p \in Peers |-> 0]
  /\ crashes = 0
  /\ resets  = 0

Goto(r, l) == pc' = [pc EXCEPT ![r] = l]

(***************************************************************************)
(* do_route                                                                *)
(***************************************************************************)
\* 500, 401, the model list, a reject rule or an unknown model: the handler
\* leaves before the pool is assessed.  The log phase still runs.
EarlyExit(r, w) ==
  /\ pc[r] = "idle" /\ Free(w)
  /\ on' = [on EXCEPT ![r] = w]
  /\ Goto(r, "log")
  /\ UNCHANGED <<active, banned, cc, lcLock, healthy, cursor, rtSum, mode,
                 chosen, key, fb, attempt, clamp, tried, history>>

\* First half of assess_pool: the ban list.  No healthy peer: 503.
AssessBans(r, w) ==
  /\ pc[r] = "idle" /\ Free(w)
  /\ on' = [on EXCEPT ![r] = w]
  /\ healthy' = [healthy EXCEPT ![r] = Peers \ banned]
  /\ Goto(r, IF Peers \subseteq banned THEN "log" ELSE "sum")
  /\ UNCHANGED <<active, banned, cc, lcLock, cursor, rtSum, mode, chosen, key,
                 fb, attempt, clamp, tried, history>>

\* Variant: only the healthy peers are summed.
ReadInflightHealthy(r) ==
  /\ pc[r] = "sum"
  /\ rtSum' = [rtSum EXCEPT ![r] =
                 @ + IF cursor[r] \in healthy[r] THEN active[cursor[r]] ELSE 0]
  /\ cursor' = [cursor EXCEPT ![r] = @ + 1]
  /\ Goto(r, IF cursor[r] = NPeers THEN "gate" ELSE "sum")
  /\ UNCHANGED <<active, banned, cc, lcLock, on, healthy, mode, chosen, key, fb,
                 attempt, clamp, tried, history>>

\* route.inflight reads one counter per step, banned peers included.
ReadInflight(r) ==
  /\ pc[r] = "sum"
  /\ rtSum' = [rtSum EXCEPT ![r] = @ + active[cursor[r]]]
  /\ cursor' = [cursor EXCEPT ![r] = @ + 1]
  /\ Goto(r, IF cursor[r] = NPeers THEN "gate" ELSE "sum")
  /\ UNCHANGED <<active, banned, cc, lcLock, on, healthy, mode, chosen, key, fb,
                 attempt, clamp, tried, history>>

\* The concurrency gate, then the latency gates (any verdict, see
\* SessionPrio); probe requests pass all of them.  rt_sum goes out of use.
GateAdmits(r) == IsProbe[r] \/ ~HitRt(r, rtSum[r], Limit(healthy[r], cc))

Gate(r) ==
  /\ pc[r] = "gate"
  /\ \/ /\ GateAdmits(r) /\ Goto(r, "pick")
        /\ limit' = [limit EXCEPT ![r] = Limit(healthy[r], cc)]
        /\ UNCHANGED unseen
     \/ /\ ~IsProbe[r] /\ Goto(r, "log")
        /\ unseen' = [unseen EXCEPT ![r] = 0]
        /\ UNCHANGED limit
  /\ cursor' = [cursor EXCEPT ![r] = 1]
  /\ rtSum' = [rtSum EXCEPT ![r] = 0]
  /\ UNCHANGED <<active, banned, cc, lcLock, on, healthy, mode, chosen, key, fb,
                 attempt, clamp, tried, leaked, crashes, resets>>

(***************************************************************************)
(* pick_from.  A session id pins the request to its rendezvous peer unless *)
(* that peer is saturated; everything else is least_conn under the lock.   *)
(***************************************************************************)
PickHash(r) ==
  /\ pc[r] = "pick" /\ SidOf[r] # NoSid
  /\ \E p \in HealthyPeers(healthy[r]) :
       /\ IsRendezvous(SidOf[r], HealthyPeers(healthy[r]), p)
       /\ active[p] < MaxConc[p]
       /\ chosen' = [chosen EXCEPT ![r] = p]
  /\ mode' = [mode EXCEPT ![r] = "hash"]
  /\ Goto(r, "incr")
  /\ UNCHANGED <<active, banned, cc, lcLock, on, healthy, cursor, rtSum, key, fb,
                 attempt, clamp, tried, history>>

\* lock:lock succeeds at once on a free lock and sleeps (a yield) otherwise.
TryLock(r) ==
  \/ ~lcLock /\ lcLock' = TRUE /\ Goto(r, "scanLocked")
  \/ lcLock /\ UNCHANGED lcLock /\ Goto(r, "lockwait")

PickLeastConn(r) ==
  /\ pc[r] = "pick"
  /\ \/ SidOf[r] = NoSid /\ mode' = [mode EXCEPT ![r] = "least_conn"]
     \/ /\ SidOf[r] # NoSid
        /\ \E p \in HealthyPeers(healthy[r]) :
             /\ IsRendezvous(SidOf[r], HealthyPeers(healthy[r]), p)
             /\ active[p] >= MaxConc[p]
        /\ mode' = [mode EXCEPT ![r] = "hash_fallback"]
  /\ TryLock(r)
  /\ UNCHANGED <<active, banned, cc, on, healthy, cursor, rtSum, chosen, key, fb,
                 attempt, clamp, tried, history>>

\* A sleeping waiter retries the lock, or gives up after 0.5s and picks
\* without it.
LockAcquire(r) ==
  /\ pc[r] = "lockwait" /\ Free(on[r])
  /\ ~lcLock /\ lcLock' = TRUE
  /\ Goto(r, "scanLocked")
  /\ UNCHANGED <<active, banned, cc, on, healthy, cursor, rtSum, mode, chosen,
                 key, fb, attempt, clamp, tried, history>>

\* Variant: a lock without a timeout.
LockTimeoutNever(r) == pc[r] = "lockwait" /\ FALSE /\ UNCHANGED vars

LockTimeout(r) ==
  /\ pc[r] = "lockwait" /\ Free(on[r])
  /\ lcLock
  /\ Goto(r, "scan")
  /\ UNCHANGED <<active, banned, cc, lcLock, on, healthy, cursor, rtSum, mode,
                 chosen, key, fb, attempt, clamp, tried, history>>

\* The scan of the tier and the unlock, which deletes the entry whoever made
\* it.  The lock is gone before the picked peer's counter is incremented.
ScanLeastConn(r) ==
  /\ pc[r] \in {"scan", "scanLocked"}
  /\ \E p \in LeastLoaded(HealthyPeers(healthy[r])) :
       chosen' = [chosen EXCEPT ![r] = p]
  /\ lcLock' = (lcLock /\ pc[r] = "scan")
  /\ Goto(r, "incr")
  /\ UNCHANGED <<active, banned, cc, on, healthy, cursor, rtSum, mode, key, fb,
                 attempt, clamp, tried, history>>

\* dict:incr(peer_key, 1, 0), the fallback list, and do_balancer's first
\* attempt.
Admit(r) ==
  /\ pc[r] = "incr"
  /\ CountIn(r, chosen[r])
  /\ limit' = [limit EXCEPT ![r] = 0]
  /\ \E s \in FallbackLists(healthy[r], chosen[r]) : fb' = [fb EXCEPT ![r] = s]
  /\ tried' = [tried EXCEPT ![r] = <<chosen[r]>>]
  /\ Goto(r, "proxy")
  /\ UNCHANGED <<banned, cc, lcLock, on, healthy, cursor, rtSum, mode, chosen,
                 attempt, clamp, leaked, crashes, resets>>
-----------------------------------------------------------------------------
(***************************************************************************)
(* do_balancer on a retry: take the request off the old peer, put it on    *)
(* the next fallback.  Two dict operations, and a third when the first     *)
(* goes below zero.                                                        *)
(***************************************************************************)
\* Variant: no reset of a negative counter.
DecrementOnly(r, k, next, clampAt) ==
  /\ active' = [active EXCEPT ![k] = @ - 1]
  /\ Goto(r, next)
  /\ UNCHANGED clamp

\* d:incr(k, -1, 0); when the result is negative, d:set(k, 0) is still to come.
Decrement(r, k, next, clampAt) ==
  /\ active' = [active EXCEPT ![k] = @ - 1]
  /\ IF active[k] - 1 < 0
       THEN clamp' = [clamp EXCEPT ![r] = k] /\ Goto(r, clampAt)
       ELSE UNCHANGED clamp /\ Goto(r, next)

\* The upstream attempt ends in error, timeout, 502 or 503 and nginx has
\* tries left.
RetryRelease(r) ==
  /\ pc[r] = "proxy" /\ Free(on[r])
  /\ attempt[r] < MoreTries(r)
  /\ Decrement(r, key[r], "retry", "clampRetry")
  /\ key' = [key EXCEPT ![r] = NoPeer]
  /\ UNCHANGED <<banned, cc, lcLock, on, healthy, cursor, rtSum, mode, chosen,
                 fb, attempt, tried, history>>

RetryAcquire(r) ==
  /\ pc[r] = "retry"
  /\ LET new == fb[r][Min({attempt[r] + 1, Len(fb[r])})] IN
       /\ CountIn(r, new)
       /\ tried' = [tried EXCEPT ![r] = Append(@, new)]
  /\ attempt' = [attempt EXCEPT ![r] = @ + 1]
  /\ Goto(r, "proxy")
  /\ UNCHANGED <<banned, cc, lcLock, on, healthy, cursor, rtSum, mode, chosen,
                 fb, clamp, limit, leaked, crashes, resets>>

\* The last attempt ends, in a response or in an error nginx does not retry.
Respond(r) ==
  /\ pc[r] = "proxy"
  /\ \/ Goto(r, "log")
     \/ InterceptErrors /\ Goto(r, "log501")
  /\ UNCHANGED <<active, banned, cc, lcLock, on, healthy, cursor, rtSum, mode,
                 chosen, key, fb, attempt, clamp, tried, history>>

\* Variant: the peer of the first attempt is given back, whoever served last.
LogReleaseFirst(r) ==
  /\ pc[r] = "log" /\ Free(on[r])
  /\ \/ /\ key[r] = NoPeer
        /\ Goto(r, "done")
        /\ UNCHANGED <<active, key, clamp>>
     \/ /\ key[r] # NoPeer
        /\ Decrement(r, chosen[r], "done", "clampLog")
        /\ key' = [key EXCEPT ![r] = NoPeer]
  /\ UNCHANGED <<banned, cc, lcLock, on, healthy, cursor, rtSum, mode, chosen,
                 fb, attempt, tried, history>>

(***************************************************************************)
(* do_log_release: give the counter back.  A request that was never        *)
(* counted has no key.                                                     *)
(***************************************************************************)
LogRelease(r) ==
  /\ pc[r] = "log" /\ Free(on[r])
  /\ \/ /\ key[r] = NoPeer
        /\ Goto(r, "done")
        /\ UNCHANGED <<active, key, clamp>>
     \/ /\ key[r] # NoPeer
        /\ Decrement(r, key[r], "done", "clampLog")
        /\ key' = [key EXCEPT ![r] = NoPeer]
  /\ UNCHANGED <<banned, cc, lcLock, on, healthy, cursor, rtSum, mode, chosen,
                 fb, attempt, tried, history>>

\* log_by_lua of @return_501: ngx.ctx is gone, the handler decrements the
\* peer that nginx var $routed_peer names, and do_route alone sets that var.
LogRelease501(r) ==
  /\ pc[r] = "log501" /\ Free(on[r])
  /\ Decrement(r, chosen[r], "done", "clampLog")
  /\ key' = [key EXCEPT ![r] = NoPeer]
  /\ UNCHANGED <<banned, cc, lcLock, on, healthy, cursor, rtSum, mode, chosen,
                 fb, attempt, tried, history>>

\* if v < 0 then d:set(k, 0)
ClampToZero(r) ==
  /\ pc[r] \in {"clampRetry", "clampLog"}
  /\ active' = [active EXCEPT ![clamp[r]] = 0]
  /\ clamp' = [clamp EXCEPT ![r] = NoPeer]
  /\ Goto(r, IF pc[r] = "clampRetry" THEN "retry" ELSE "done")
  /\ UNCHANGED <<banned, cc, lcLock, on, healthy, cursor, rtSum, mode, chosen,
                 key, fb, attempt, tried, history>>
-----------------------------------------------------------------------------
(***************************************************************************)
(* The rest of the system.                                                 *)
(***************************************************************************)
\* Health probe: a failed connect or a bad answer bans the peer, 200 unbans
\* it; a ban also expires.  A timeout or a 429 changes nothing.
Ban(p) ==
  /\ SomeFree
  /\ p \notin banned /\ Cardinality(banned) < MaxBans
  /\ banned' = banned \cup {p}
  /\ UNCHANGED <<active, cc, lcLock, reqVars, history>>

Unban(p) ==
  /\ SomeFree
  /\ p \in banned
  /\ banned' = banned \ {p}
  /\ UNCHANGED <<active, cc, lcLock, reqVars, history>>

\* The AIMD timer stores a limit (AdaptiveCC says which), or it expires.
AdaptiveTick ==
  /\ Adaptive /\ SomeFree
  /\ cc' \in (CCValues \cup {NoCC}) \ {cc}
  /\ UNCHANGED <<active, banned, lcLock, reqVars, history>>

\* exptime = 2: the holder of least_conn_pick is stalled or dead.
LockExpire ==
  /\ lcLock
  /\ lcLock' = FALSE
  /\ UNCHANGED <<active, banned, cc, reqVars, history>>

\* A killed worker: its requests end without a log phase, the shared dicts
\* survive, the master starts a new worker in its place.
WorkerCrash(w) ==
  LET lost == {r \in Requests : on[r] = w /\ pc[r] # "done"} IN
  /\ crashes < MaxCrashes
  /\ lost # {}
  /\ crashes' = crashes + 1
  /\ leaked' = [p \in Peers |->
                  leaked[p] + Cardinality({r \in lost : key[r] = p})]
  /\ pc' = [r \in Requests |-> IF r \in lost THEN "done" ELSE pc[r]]
  /\ key' = [r \in Requests |-> IF r \in lost THEN NoPeer ELSE key[r]]
  /\ clamp' = [r \in Requests |-> IF r \in lost THEN NoPeer ELSE clamp[r]]
  /\ UNCHANGED <<active, banned, cc, lcLock, on, healthy, cursor, rtSum, mode,
                 chosen, fb, attempt, tried, limit, unseen, resets>>

\* /_active_conns_set: one peer to a value (delete reads back as 0), or all
\* to zero.
OperatorSet ==
  /\ resets < MaxResets /\ SomeFree
  /\ resets' = resets + 1
  /\ \/ \E p \in Peers, v \in ResetValues : active' = [active EXCEPT ![p] = v]
     \/ active' = [p \in Peers |-> 0]
  /\ UNCHANGED <<banned, cc, lcLock, reqVars, limit, unseen, leaked, crashes>>

\* The steps of a request that its worker or a timeout carries out.
Advance(r) ==
  \/ ReadInflight(r) \/ Gate(r) \/ PickHash(r) \/ PickLeastConn(r)
  \/ LockAcquire(r) \/ LockTimeout(r) \/ ScanLeastConn(r) \/ Admit(r)
  \/ RetryRelease(r) \/ RetryAcquire(r) \/ Respond(r)
  \/ LogRelease(r) \/ LogRelease501(r) \/ ClampToZero(r)

Next ==
  \/ \E r \in Requests, w \in Workers : EarlyExit(r, w) \/ AssessBans(r, w)
  \/ \E r \in Requests : Advance(r)
  \/ \E p \in Peers : Ban(p) \/ Unban(p)
  \/ AdaptiveTick
  \/ LockExpire
  \/ \E w \in Workers : WorkerCrash(w)
  \/ OperatorSet

Spec == Init /\ [][Next]_vars

\* nginx's event loop serves every request it holds; upstream timeouts end
\* every attempt.
FairSpec == Spec /\ \A r \in Requests : WF_vars(Advance(r))
-----------------------------------------------------------------------------
(***************************************************************************)
(* Properties                                                              *)
(***************************************************************************)
TypeOK ==
  /\ active \in [Peers -> Int]
  /\ banned \in SUBSET Peers
  /\ cc \in CCValues \cup {NoCC}
  /\ lcLock \in BOOLEAN
  /\ pc \in [Requests -> PCs]
  /\ on \in [Requests -> Workers \cup {NoWorker}]
  /\ healthy \in [Requests -> SUBSET Peers]
  /\ cursor \in [Requests -> 1..(NPeers + 1)]
  /\ rtSum \in [Requests -> Int]
  /\ mode \in [Requests -> Modes]
  /\ chosen \in [Requests -> Peers \cup {NoPeer}]
  /\ key \in [Requests -> Peers \cup {NoPeer}]
  /\ fb \in [Requests -> Seq(Peers)]
  /\ attempt \in [Requests -> 0..MaxMoreTries]
  /\ clamp \in [Requests -> Peers \cup {NoPeer}]
  /\ limit \in [Requests -> Int]
  /\ tried \in [Requests -> Seq(Peers)]
  /\ unseen \in [Requests -> Nat]
  /\ leaked \in [Peers -> Nat]
  /\ crashes \in 0..MaxCrashes
  /\ resets \in 0..MaxResets

Counted(p) == {r \in Requests : key[r] = p}

\* active_conns is exact: whatever the interleaving of admissions, retries
\* and releases, a peer's counter is the number of requests the peer serves
\* plus what crashed workers left behind, until an operator overwrites it.
CounterConservation ==
  resets = 0 => \A p \in Peers : active[p] = Cardinality(Counted(p)) + leaked[p]

\* "if v < 0 then d:set(key, 0)": after an operator's correction a counter
\* may go negative, but only while the handler that took it there has still
\* to reset it.
NoNegativeAtRest ==
  crashes = 0 => \A p \in Peers : active[p] < 0 => \E r \in Requests : clamp[r] = p

\* The retry chain of do_balancer over the fallback list of do_route: no peer
\* twice, at most max_more_tries retries, the whole active tier before any
\* lower tier, tiers in descending order and one peer per lower tier.
RetryChain ==
  \A r \in Requests :
    LET t == tried[r]  lvl == ActiveLevel(healthy[r]) IN
    /\ Len(t) <= MaxMoreTries + 1
    /\ \A i, j \in DOMAIN t : i < j =>
         /\ t[i] # t[j]
         /\ \/ Priority[t[i]] > Priority[t[j]]
            \/ Priority[t[i]] = lvl /\ Priority[t[j]] = lvl
    /\ \A i \in DOMAIN t : Priority[t[i]] # lvl =>
         \A p \in Level(healthy[r], lvl) : \E j \in 1..i : t[j] = p

\* Session affinity survives bans of other peers: two requests of a session
\* that were both routed by hash went to the same peer whenever each one's
\* peer was also available to the other.
AffinityStable ==
  \A r, q \in Requests :
    (/\ SidOf[r] = SidOf[q]
     /\ mode[r] = "hash" /\ mode[q] = "hash"
     /\ chosen[r] \in HealthyPeers(healthy[q])
     /\ chosen[q] \in HealthyPeers(healthy[r])) => chosen[r] = chosen[q]

\* The gate's check of rt_sum and the increment are far apart, and a worker
\* may do anything in between.  Whatever it does, a request that passed the
\* gate sees its ceiling reached only by requests that were counted in on a
\* peer behind its reading: a count that was there to be read, on a banned
\* peer or carried from peer to peer by a retry, is never overlooked.
OnlyUnseenOverLimit ==
  resets = 0 =>
    \A r \in Requests :
      (pc[r] \in PastGate /\ ~IsProbe[r]) =>
         ~HitRt(r, SumFunction(active) - unseen[r], limit[r])

\* README.md:144-145, "In-flight counts live in a shared dict, so the pool limit
\* is enforced across workers": the requests in flight that are not probes stay
\* within what the pool holds with every peer healthy.
PoolLimitEnforced ==
  Cardinality({r \in Requests : key[r] # NoPeer /\ ~IsProbe[r]}) <= PoolLimit(Peers)

\* Every request that entered the access phase reaches the end of its log
\* phase: the least_conn lock, the retries and the clamp block nobody.
Drains == \A r \in Requests : pc[r] # "idle" ~> pc[r] = "done"
=============================================================================
