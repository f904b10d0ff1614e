# llm-openresty: a TLA+ verification project

llm-openresty is a session-affinity router for LLM inference backends (OpenResty,
`lua/`), with a body-log collector (`bodylog-listener-go/`) and a metrics
exporter (`bodylog-exporter-go/`). This directory models the parts of it whose
correctness depends on interleavings, failures and clocks, model-checks them
with TLC and proves the central properties with TLAPS. Paths below are relative
to the repository root (`src/` in `PROJECT.json`).

Commands, from this directory:

    tlc -workers 2 -config AdmissionCounters.cfg MCAdmission   # one run
    tlapm AdmissionProofs.tla                                  # one module of proofs

`PROJECT.json` lists the components, the runs with their expected result, a
mutant for every checked property (a plausible bug under which TLC must find the
property violated), the map from definitions to source lines, the hazards, the
findings and the theorems.

## 1. The system

| Component | State it keeps | Operations | Hard behaviour |
|---|---|---|---|
| pool assessment, peer selection (`route.lua`, `util.lua`) | shared dicts `bad_peers`, `active_conns`, `lc_locks` | `assess_pool`, `pick_from`, least_conn under `resty.lock` | dict operations are atomic, handlers are not; the lock times out and expires |
| admission (`access.lua do_route`) | `active_conns`, `ngx.ctx`, nginx variables | gates, increment, fallback list | check-then-increment across workers |
| retry (`do_balancer`) and release (`do_log_release`, `@return_501`) | `active_conns`, `ngx.ctx` | moving the counter between peers, releasing it once | `ngx.ctx` is lost at an internal redirect, workers die |
| adaptive concurrency (`timers.lua`) | `tps_stat`: limit with TTL, rejection counter | one AIMD step per interval | read-modify-write against workers that count; reloads change the band |
| timer election (`route.lua register_route`) | `lc_locks` entry with a TTL | start, renew, check and retry | owner dies, owner stalls, entry expires |
| health timer | `bad_peers` | ban, unban | acts between the steps of a request |
| TTFT/TPS windows, session turn priority | shared dicts of histograms, EWMAs, flags | sample, fold, assess, probe budget | fold lock, flag with a TTL, budgets |
| API keys, request transform, reject rules, response filter | per-worker caches | pure decisions | mostly string work |
| log shipping (`bodylog.lua`, `vendor/resty/logger`) | a send buffer | append, flush, resend | whole-buffer resend duplicates, drop limit |
| frame pipeline (listener `main`) | connections and their registry, frame queue, writer pool | accept, read, queue, write, shut down | accept against shutdown, close of the queue, resends after a timeout |
| minute aggregator (listener) | active and archived buckets, per-day files | ingest, flush, append, reload | late entries, restarts, failed appends |
| day archive (listener) | day directories, tar.gz archives | write, housekeep, pack, verify | midnight races, crashes inside the pack |
| details store (listener) | per-day jsonl and parquet | write, rotate | crash inside the conversion |
| retention (listener) | archives, disk usage, time of the last batch | list, prune by age and by disk | space that is freed late, files being converted, restarts |
| tailer, checkpoint, recovery (exporter) | offset checkpoint | tail, switch day, recover | rotation under the reader, partial recovery |
| route resolver (exporter `route_endpoints.go`, `pd_roles.go`) | snapshot of routes and pods, replica gauges | one round of GETs, install, refill | the cluster changes and requests fail between any two GETs; gauges are refilled under a scrape |
| openresty poller (exporter) | gauges, rejection counter, counts seen last | clear, poll each target, verdicts | openrestys restart, share route names, fail one by one |
| metric families (exporter) | histograms and counters | updates | I/O bound |

How they interact. Nginx workers are processes that share only the shared
dicts. A request runs access, balancer and log handlers on one worker; the
timers of the elected worker change bans and limits under it. Every finished
request is shipped as a frame to the listener, whose writer pool feeds the day
archive, the details store and the aggregator; retention deletes what housekeep
has finished; the exporter tails the details, labels them by the resolver's
snapshot and polls the openrestys that snapshot names.

What makes each part correct: counters equal the requests in flight; the pool
limit holds, up to requests that raced past the gate; sessions stay on their
peer; the retry chain visits each tier in order and nobody twice; every request drains; the adaptive limit stays in its
band and reacts only to what it was told; one owner per route and never none
for long; no request is counted twice or dropped between ingestion and the
files; no logged line is deleted before it is archived; what the listener read
it writes before it ends; no more history is deleted than the disk needs, and
none that is being converted; what the exporter shows is a state the cluster was
in, and becomes the present one.

## 2. Plan

Order of work; a module composes the ones it names.

| # | Module | Subject | State |
|---|---|---|---|
| 1 | `Admission` | one route's request path on shared dicts | done, proved |
| 2 | `AdaptiveCC` | the AIMD step of the pool limit | done, proved |
| 3 | `TimerElection` | who runs a route's timers | done, proved |
| 4 | `MinuteAggregator` | minute buckets, deltas, reload | done, proved |
| 5 | `DayArchive` | hour files, housekeep, archives, prune of archives | done, proved |
| 6 | `DetailsStore`, `DetailsExport` | per-request details from the writer to the exporter's counters; `DetailsExport` extends `DetailsStore` | done, proved |
| 7 | `FramePipeline`, `FrameSink` | socket logger, connections, frame queue, writer pool, shutdown; `FrameSink` is the abstract specification it implements | done, proved |
| 8 | `Retention` | what prune deletes by age and by disk usage, beside housekeep | done, proved |
| 9 | `RouteResolver`, `RouteMetrics` | the exporter's route resolver; `RouteMetrics` extends it with the poller | done, proved |

"Proved" means every invariant and action property a passing run checks of that
module; what is left to TLC is liveness (section 5).

## 3. Modules and code

Every definition that models code has its lines in `PROJECT.json`, `map`. An
operator named as a variant or a mutant is a plausible bug that a property is
tested against; no specification uses it.

**Admission** (`lua/access.lua`, `lua/route.lua`, `lua/util.lua`,
`router_locations.inc`). `pc[r]` is the place of request r in its handlers,
`on[r]` its worker. `active`, `banned`, `cc` and `lcLock` are the shared dicts;
`key`, `fb`, `attempt` are `ngx.ctx`, `chosen` is also the nginx variable
`$routed_peer`; `limit` is the local that `do_route` compares the counters with.
`leaked` and `unseen` are history: counts that crashed workers left behind, and
how often another request was counted in on a peer this one had already read. `EarlyExit` stands for every answer given before the pool is
assessed. `AssessBans`, `ReadInflight` (one counter a step), `Gate`, `PickHash` /
`PickLeastConn` / the lock actions and `Admit` are `do_route`; `RetryRelease`,
`RetryAcquire` are `do_balancer`; `LogRelease`, `LogRelease501`, `ClampToZero`
the log phase. `Ban`, `Unban`, `AdaptiveTick`, `OperatorSet`, `WorkerCrash` and
`LockExpire` act between any two steps. A dict operation is atomic, a handler is
not; inside one worker a handler runs to its next yield, and the only yield
between assessment and increment is the wait for the least_conn lock. Tiers,
capacities, hashes and session ids are constants, so the theorems hold for every
pool. The verdict of the latency gates is a free choice, so what is shown holds
for every verdict.

**AdaptiveCC** (`do_adaptive_cc_loop`, `lua/timers.lua`). A tick is three steps
(`TickRead` with the idle case `TickIdle`, `TickClear`, `TickWrite`), because
other workers count rejections between the dict operations. Limits are integers
in units of 1/`Unit` slot, so the code's floats are rounded down; the order of
the branches, the clamping and the TTLs are the code's. `Reload` installs one of
`Options`. `MCRouteTimers` puts this module and the next side by side in one run;
the two share no state, and a behaviour belongs to one of them.

**TimerElection** (end of `register_route`). One dict entry with an age, and per
worker the time until its timer. `Pass` is time and cannot skip a due timer of a
worker that is not stalled. `Exit`, `Spawn`, `Stall`, `Resume` are the
environment.

**MinuteAggregator** (`bodylog-listener-go/main.go`). Maps of buckets are
functions on cells (minute, key, field). A flush is `Flush` under the mutex and
then two appends outside it, `AppendClosed` and `AppendDirty`, each of which may
fail; `Restart` forgets memory and reloads the files.

**DayArchive** (the same file, `retention.go`). Every file operation of
`housekeep` is a step; a write is the read of the clock and then one step under
the writer's mutex. `slips` counts the midnights that pass between a read of the
clock and its use.

**DetailsStore** (`detailsWriter`, `rotateDetails`) and **DetailsExport**
(`bodylog-exporter-go/tail.go`, `checkpoint.go`, `recovery.go`, and
`metricsHandler` of the listener's `httpapi.go`). The exporter's process is one
variable `ex` ("down", "recover", "loop", "read") with the locals of `run`,
`tailLoop` and `readFrom`. A file that is removed while the exporter has it open
stays readable (`held`). `ckpt` is the checkpoint file. `ever`, `told`, `missed`
are history: rows observed in any life, and rows passed over; `early` are the
rows a recovery took from the file of a later day than the one its tailer starts
on. `FirstTime` is where the clock starts.

**FramePipeline** (`main`, `handleConn`, `readFrame`, `processFrame` of the
listener, and `vendor/resty/logger/socket.lua`). A frame is its number, a copy on
the wire is a frame and the attempt it was sent in, since the logger sends its
whole buffer again after any error. `flight` is the send in progress. A
connection is in the backlog, accepted, read, blocked on the queue (`push`) or
done (`hnd`); `main` is the accept loop up to its wait for handlers and writers;
`closer` and `todo` are the shutdown goroutine inside `conns.Range`, which may
or may not meet connections stored while it runs. Closing a connection keeps
what `bufio` has read ahead, any prefix of what is on the wire. `taken` and
`settled` are history. **FrameSink** is what the pipeline promises: a copy that was
read is settled before the listener ends by itself, and only a kill forgets
copies. The mapping is the identity on `settled`, `taken` for `accepted`, and
"up", "exited" or "killed" for the place of `main`.

**Retention** (`retention.go`; `housekeep`, `rotateDetails` as far as they meet
it). A file is a kind and a day. `PassBegin` reads the directories, `List` looks
at the names later, `AgeRemove`, `Measure`, `DiskRemove` and `BatchEnd` are the
rest of `prune`; a conversion is two steps between which its output is half
written. A deleted file stays in `pending` until statfs stops counting it.
`CooldownAssumption` keeps this delay shorter than the cooldown, which is what
the pause after a batch relies on (`retention.go:20`). Whether DuckDB is there (`duckDB`) is chosen
again at each start; `raced` records that `rotateDetails` took a file a pass had
listed.
Packing a day is one step here (`DayArchive` has its steps).

**RouteResolver** (`route_endpoints.go`, `pd_roles.go`). Every GET of a round is a
step that answers or fails: one per API group, one for the LeaderWorkerSets, one
per Service, one per object of an owner chain. `round` is what `build` has so
far, `snap` the installed snapshot, `filled` how many of its gauge writes (three
resets, then one series at a time: `Writes`) it has done. `cluster` is what the
API server would answer and changes between any two steps. Two assumptions are
about it: a LeaderWorkerSet reports no more ready replicas than replicas
(`ClusterAssumption`), and the controller owners above a pod end in one workload,
`TopOf`, or in a cycle (`ChainAssumption`). OPENRESTY_POLL_PER_SERVICE is on. **RouteMetrics** (`openresty_poll.go`) adds the
poll goroutine: `PollBegin`, one `PollTarget` per target, `PollEnd`.

## 4. Runs

Times are for two to four TLC workers.

| Run | Instance | What it shows |
|---|---|---|
| `AdmissionCounters` | 2 workers, 2 requests of one session (one probe), one with a quarter share, flat pool of 3, one ban, crash, operator reset and retry | `CounterConservation`, `NoNegativeAtRest`, `AffinityStable`, and a request past its gate is over its ceiling only by requests counted in behind its reading (`OnlyUnseenOverLimit`) (1.1M states, 30 s) |
| `AdmissionSingle` | 1 worker, 2 requests, 2 tiers, least_conn, 2 retries, 501 rewrite, moving limit, crash | `RetryChain`, liveness `Drains` (190k states) |
| `AdmissionIntercept` | one retried request, 501 rewrite | violation: `CounterConservation` |
| `AdmissionPoolLimit` | 2 workers, 2 requests, one peer of one slot | violation: `PoolLimitEnforced` |
| `RouteTimers` | `AdaptiveCC` with limits in quarter slots, 5- and 2-slot pools, reloads between three configurations; `TimerElection` with 3 slots, 2 exits, 1 stall, the code's 60/20/30 s | band, TTL, rejections, what a step may do (`OnlyOverloadBelowInit`; `TicksJustified`: an overload never raises the limit, a fall keeps the headroom), and that the limit climbs back and ages out (`LimitRecovers`); `AtMostOneOwner`, and a dead owner is replaced within TTL + RETRY_SEC (`TakeoverInTime`, a bound in ticks of the model's clock, so that an owner comes back whenever time goes on) (200k states, 25 s) |
| `MinuteAggregator` | 2 minutes with midnight between them, 2 keys, 3 entries, a restart, a failed append | files equal memory, no request vanishes, the window is complete |
| `DayArchive` | 3 lines, 3 days of 2 hours, a crash, a failure, a prune, a slip | no line lost, the open file is linked, past days are packed |
| `DayArchiveMidnight` | one slip | violation: `LinesKept` |
| `DetailsExport` | 2 rows, ticks 2 to 6 of days of 3 ticks, so the ends of three days, one failure or listener crash, one end of the exporter | rows stay readable, counted once per life except for `early` ones, checkpoint never ahead (`CheckpointSound`), no loss other than those listed (2.8M states, 60 s) |
| `FramePipeline` | 3 frames (the last refused), 2 connections, queue of 1, 2 writers, 2 attempts, one signal or kill | no send to a closed queue (`QueueSafe`), no silent loss, duplicates only by a resend, a shutdown ends, the pipeline implements `FrameSink` (360k states, 95 s) |
| `Retention` | 5 days, retention of 2 and 3 days, an archive, a legacy file and a details file, cooldown of 2 passes, space one tick late, one failure, restart or change | no space freed twice, all or nothing (`BatchSound`), no half-written file deleted, archives first, a full disk is relieved (390k states, 30 s) |
| `RouteMetrics` | 2 ModelRoutes with one route name in 2 API groups on 2 openrestys, which may come to share a Service; a disaggregated release in a surge, an owner cycle; two changes or failures of the cluster, or one of each kind, or two rejections with a restart and a failed page | the snapshot is current, ready and total are comparable as exported at one moment (`ComparableSeries`; a series that two ModelRoutes share is excepted during a refill), desired counts were committed to, rejections counted once (`CountersSound`), `poll_up` honest, everything heals (460k states, 2 min) |

A run's property is often the conjunction of two or three named parts that
belong together, defined next to it in the module. The type invariants of
`Admission`, `AdaptiveCC`, `TimerElection`, `MinuteAggregator` and `DayArchive`,
and `OneBucket` of the aggregator, are in no cfg; the others are conjuncts of a
property that is. They are proved for every value of the constants (section 5).

**Why the bounds are enough.** Every counter race needs two requests; a third
peer is what separates "the other tier", "the rest of the tier" and "a ban of
somebody else". One crash, one reset and one failure at any point give every
order of a fault against the rest; two faults of the same kind meet only through
state that one leaves behind, which the runs start from anyway. Two minutes are
one that closes and one that is open; three days are the packed one, the one
that is packed, and today, and they are needed for the recovery's margin of a
day. A clock that is carried over midnight (`MaxSlips`) is set to 0 in
`DetailsExport` for size; with 1, and four ticks in days of two, it also passes
(7.5M states). Its clock starts in the last tick of a day and runs into the day
after next: a row that ends before midnight, is written after it and read by a
recovery that is still running is the case `early` stands for. The page of
`/metrics` holds one row, so a two-row recovery has a page boundary. Two
connections are one that drains and one that slips into a shutdown; a queue of
one slot is full as soon as a writer is slow; two attempts are a send and its
resend, with a frame logged in between. One archive over the limit is enough for
a batch, a second batch inside the delay of the first is what the cooldown is
for, and five days put a conversion across the end of the retention.
`RouteMetrics` is the union of three small instances (`Budgets`), because a
change of the cluster, a failed page and an openresty restart meet only through
the snapshot and the counts seen last. The theorems remove the bounds where they
exist.

`DayArchive`, `DetailsExport`, `FramePipeline` and `Retention` switch deadlock
checking off: the clock stops at its bound, a logger with nothing to send waits,
and a system with nothing to do may stop. The others never stop.

**Fairness.** `Admission`: weak fairness of each request's own steps; nginx's
event loop serves a ready handler, upstream timeouts end an attempt, and
`resty.lock` gives up after its timeout. The steps of bans, crashes, operators
and timers get none. `AdaptiveCC` (in `RouteTimers`): the timer fires and
its callback finishes (`ngx.timer`), entries expire. `TimerElection` needs none: `Pass` waits for due
timers, and the takeover is a bound. `FramePipeline`: some goroutine of the
listener that can run does (Go scheduler; its file and socket calls return);
nothing is assumed of the logger, the network or the operator. `Retention`: the
ticker of `runPrune` fires, a pass goes on, and the file system frees the space
of deleted files in the end. `RouteMetrics`: the refresh and the poll goroutine
each go on (their tickers fire, every GET has a time-out). The aggregator, the
day archive and the details path have no liveness property; what must eventually
be packed is stated as the safety property `PastDaysPacked`.

## 5. Proofs

`tlapm` checks eight modules; every theorem holds for all values of the constants
that satisfy the named assumptions of its module. In each module the type
invariant comes first, then one inductive invariant per property or group of
properties, with one lemma per action or group of actions that disturbs it.

| Module | Theorems | Argument |
|---|---|---|
| `AdmissionProofs` | `TypeCorrect`, `CountersExact`, `SessionAffinity`, `NegativeOnlyInPassing`, `RetriesInOrder`, `LimitButForUnseen` | `IInv` = types + what each place of a handler implies about the request's locals (`Phases`). `CountersExact` adds the equation itself and counts `Counted(p)` with lemmas for adding and removing one request; the place between release and acquire of a retry needs `key` to be empty there. It assumes `InterceptErrors = FALSE` (the other case is a finding). `SessionAffinity` adds that a hash pick is the minimum over what its request saw as healthy. `NInv` adds that a handler names a counter to reset only while it is about to (`NoStaleClamp`). `KInv` adds `Chain`: what the fallback list, the peers tried and the budget are to each other from admission on; it rests on the active tier being the highest one with a healthy peer (`ActiveLevelHighest`) and on a sorted list of a set (`FallbackOrdered`). `RInv` adds to the counter equation, for one request at a time, that the counters up to its cursor, less those counted in behind it, are no more than what it has summed (`ReadingOf`); a release only lowers them, and only `CountIn` raises one, on a peer the request either reads later or has in `unseen`. `LimitButForUnseen` holds for any number of workers and assumes `InterceptErrors = FALSE` like `CountersExact`. |
| `TimerProofs` | `AdaptiveTypeCorrect`, `LimitInBand`, `HoldReachesTTL`, `NoRejectionUnheard`, `BelowInitOnlyByOverload`, `TicksAreJustified`; `ElectionTypeCorrect`, `OneOwner`, `Takeover` | Of `AdaptiveCC`: `CCInv` adds to the properties what the tick's locals hold between its steps (`InTick`). Lemmas on rounding and products bound each branch of the step (`FollowHeadroom`: a fall stops at the headroom); `ConfigBand` shows min <= init <= max for every configuration. Of `TimerElection`: `LInv`: until a stall, an owner's age plus wait is exactly `RenewSec`, so its entry cannot expire before the renewal (2 * RenewSec < TTL). `GInv`: while the entry exists the gap is no longer than its age, and once it has expired every waiting worker looks again before the bound (`ChecksInTime`); stalls do not matter here. |
| `MinuteAggregatorProofs` | `AggregatorTypeCorrect`, `OneBucketPerMinute`, `RequestsConserved`, `LinesAddUp`, `SummaryComplete` | `SInv` is inductive for all runs, `RInv` for a process that was not restarted: a clean cell's snapshot equals its archive, a file plus what is still to append equals the snapshot. |
| `DayArchiveProofs` | `ArchiveTypeCorrect`, `ArchiveKeepsLines`, `ArchiveLeavesWriter`, `ArchivePacksPastDays` | `KInv`: while no clock was carried over midnight, stamps are today's (`Clock`), a pass only visits past days (`Visited`), the open file is linked (`Linked`), and what has been packed is covered by the archive before anything is removed (`Packed`, `Covered`). `LinesKept` alone is not inductive: removing a directory is safe only because of `Covered`. `PInv`: while no pass waits, the running one took its list after the last change of day, so a directory older than the day being written is in `todo` or at work (`Sweep`), and the pack of such a directory cannot fail by a write to it (`Still`). This one holds for any number of clock readings carried over midnight. |
| `DetailsExportProofs` | `RowsStayReadable`, `RowsCountedOnce`, `CheckpointNeverAhead`, `NothingElseLost` | `SInv` is about the store: a row is in one file, once, and only past days are converted. `XInv` adds the exporter's types and where each row it has observed lies. `Once`: what a recovery has observed is at or before its cursor, what the tailer has observed is behind it, in `seen`, or in `early`. `Saved`: the saved position and that of the tailer cover only observed rows, also of a file that is gone. `Acc`: a row neither observed nor listed as lost is still to come from each of the three positions. |
| `FramePipelineProofs` | `PipelineQueueSafe`, `ImplementsSink`, `CopiesOnlyByResend`, `FramesKept` | `TInv` ties each handler and writer to what it holds and the place of `main` to the places of the handlers (`MainOK`). `RInv` adds that what is in memory was taken and what is settled was taken, which maps every step to a step of `FrameSink` or a stutter. `OInv` orders the buffer, the rest of the send in progress and the copies by attempt and frame. `NInv`: while nobody stops the listener a connection is closed on its side only behind a refused frame, so whatever was sent is covered. |
| `RetentionProofs` | `BatchFreesEnough`, `HalfWrittenKept`, `ArchivesBeforeDetails`, `DamageOnlyByRestart` | `PInv`: a listed output has lost its source for good, a listed jsonl can no longer be converted (`ListedOK`, `ConvOK`), and what is freed plus what is left reaches the need (`Reaches`). `DInv`: either fewer batches than restarts asked for too much, or as many and nothing of an earlier batch still shows when the cooldown is over (`Paid`). |
| `RouteMetricsProofs` | `SnapshotAgrees`, `DesiredCommitted`, `SeriesCompare`, `RejectionsSound`, `VerdictsHonest` | `Types` is the shape of both processes' locals. `SnapInv`: what an unfinished round has read of a ModelRoute or Service that has not changed since it began is what the cluster says; list calls give the first group that has an object its say (`ListSound`), items turn into targets and pods (`Covered`), nothing comes from elsewhere (`Backed`), and a pod is the first item's that names it. `touched` becomes `stale` when the snapshot is installed. `HeldInv`: whatever the round has put aside, in the reps, the workload cache or the engines, was committed to since it began (`RoundHeld`), and a walk in progress is on the chain of its pod (`InChain`), so that a top it finds is `TopOf`. `SeriesInv`: items are distinct, so two reps have one series only if two ModelRoutes share it; during a refill the two gauges of a series are of the rep that wrote it last (`FillSound`). `CountInv`: what is exported, plus what each openresty has counted since the poller looked (`Due`), is at most the rejections there were, and equal to the counts seen last until a restart. `VerdictInv`: the answers of a cycle agree with the verdicts exported so far. |

Some facts are about data: that a finite set of numbers has a greatest element,
that a sum over a finite set does not depend on the order in which the fold takes
its elements, that a sequence without repetitions is no longer than its range has
elements. They are proved by a smallest counterexample (`SmallestSet` and the
well-foundedness of strict inclusion on finite sets, or
`FS_Injection`), since an induction theorem that takes a predicate as a parameter
cannot be instantiated here.

Only model-checked: the liveness properties (`Drains`, `LimitRecovers`,
`ShutdownCompletes`, `Relief`, `Heals`), which are out of the prover's reach
like everything that needs ENABLED. Every invariant and action property of a
passing run is stated by a theorem.

Three properties changed because their proof failed. `OncePerLife` without `early`
is not an invariant, and the former bounds were too small to show it;
`BatchSuffices` without `raced` is not one either, nor is `ComparableSeries`
without `Shared`, which the former instance, where no two ModelRoutes could
share a Service, did not show. All three cases are observations in section 6.

## 6. Findings

Each has a run that reaches it; the quotation of the text it contradicts is in
`PROJECT.json`.

1. `AdmissionIntercept`: a retried request whose last answer is rewritten to 501
   is taken off its first peer twice and never off its last
   (`router_locations.inc:296`).
2. `AdmissionPoolLimit`: the gate and the increment are two steps
   (`access.lua:208`, `:468`), so two workers can both read the counters before
   either counts itself in; README.md:144-145 says "the pool limit is enforced
   across workers", and `nginx.conf:1` runs 20 of them. What holds instead, on any
   number of workers, is `OnlyUnseenOverLimit`.
3. `DayArchiveMidnight`: a line stamped before midnight and written after its hour
   file was packed is deleted with the directory, because the archive is checked
   by member names only (`main.go:924`).

Two more that TLC reaches from the given modules with another configuration
(the passing runs state what holds beside them):

- `reload` leaves `archiveLastWritten` empty, so the first late entry after a
  restart writes the whole bucket again (`main.go:1583`); the comment at
  `main.go:1450` says the delta prevents that. `DeltasAddUp` with one restart;
  without a restart it holds (`FilesMatchMemory`).
- SIGTERM during the recovery replaces the checkpoint that marks the gap
  (`tail.go:84`, `:112`), and the rest of the gap is never counted; the comment at
  `tail.go:76` says nothing is ever missed. `RecoveryComplete` with two ends of the
  exporter, lag 0 and no failures; `OnlyKnownLosses` counts this loss in `missed`.

Observations without a run of their own:

- A listener that dies inside DuckDB's COPY leaves a partial parquet under the
  final name; the next pass of `rotateDetails` removes the jsonl because the
  parquet exists (`main.go:815`). `RowsKept` holds at every other point
  and excludes this one (`torn`).
- A recovery ends at now minus `RECOVERY_LAG_SECONDS`, and the tailer goes on from
  the head of today's file. Just after midnight the last seconds of yesterday
  are in neither (`missed` in `DetailsExport`). A resumed tailer that was down
  over a whole day goes from its old file straight to today's (`told`).
- A recovery that runs past midnight reads the new day's file as well
  (`PageDays` goes one day past its end), and the tailer, which starts on the old
  day, forgets what the recovery saw when it changes files (`tail.go:121`, `:130`;
  the comment at `tail.go:23` says the overlap is skipped). Such a row is counted
  twice in one life (`early` in `OncePerLife`).
- After a stall two workers may own a route's timers side by side
  (`route.lua:509`; README.md:139 says one worker per route).
- README.md:134 describes the hash as crc32 modulo the number of peers; the code
  uses rendezvous hashing (`util.lua:26`), and it is that which makes
  `AffinityStable` true.
- The first-chunk sums are missing from the literal of the delta line
  (`main.go:1460`), so a late entry's share of them never reaches the files.

- A frame that `readFrame` refuses ends its connection, and the frames the logger
  sent behind it are lost without a trace on either side (`main.go:579`;
  `NoSilentLoss` excepts them).
- When passes of prune are closer together than the file system's delay, a later
  pass counts the space of an earlier age step again: it is taken off only in
  its own pass (`retention.go:225`). The cooldown covers batches only.
- `rotateDetails` of a process without DuckDB removes a jsonl whose parquet exists
  (`main.go:815`), also one that a pass of prune has listed; the batch then frees
  less than it set out to (`raced`; `retention.go:36` says the two never touch the
  same file).
- A conversion that spans midnight at the end of the retention can lose its files
  to prune while it runs (`retention.go:36` says the two never touch the same
  file); the data had expired. A failed or interrupted gzip of a legacy file
  leaves both the .gz and the .jsonl for ever: housekeep skips it because the .gz
  exists, prune because the .jsonl does (`main.go:766`, `retention.go:114`).
- In a round in which the LeaderWorkerSets cannot be listed the router series of
  a disaggregated release changes its role from "router" to ""; the comment at
  `pd_roles.go:96` calls it unaffected.
- A ModelRoute that moves from a later group to an earlier one between the two
  list calls is missing for one round (`route_endpoints.go:441`).
- Two ModelRoutes of one Service and route, on two openrestys, share a replica
  series. The Service is read once for each, so a scrape in the middle of a refill
  can meet the total of the first reading and the ready count of the second
  (`route_endpoints.go:224`), and ready may exceed total for that moment (`Shared`
  in `ComparableSeries`). Once the refill is over the pair is of one reading.
- `ComparableSeries` speaks of what is exported at one moment. A scrape collects
  the gauge vectors one after another, so one that overlaps a refill can pair the
  total of one round with the ready count of another; that is not modelled.
- Two targets with the same service and route on different openrestys overwrite
  each other's `poll_up`; during a cycle the series is absent.
- The rejection counter falls short when an openresty restarts and passes its old
  count before the next poll that sees it (`openresty_poll.go:363`).

## 7. Not modelled

- TTFT and TPS windows and session turn priority: smoothed floating-point
  estimates with budgets around them. No exact promise is made
  about them that a model could check; `Admission` leaves the verdict of the
  gates that use them free.
- The cluster average: a timer samples the pool's own in-flight count into a ring
  of ten slots; the gate that used the average is switched off (`access.lua:210`).
- API keys, request transform, content rules: decisions on strings, taken before
  the state that the models keep is touched (`EarlyExit`).
- Response post-processing: text filtering of a stream.
- Prometheus metric updates, one library call per row.
- Dispatcher and configuration, the command line and manifests.
- The read-only endpoints of the listener's HTTP API other than `/metrics`, and
  the filters of that one.

Inside the modelled parts, the abstractions are stated at the head of each
module.
