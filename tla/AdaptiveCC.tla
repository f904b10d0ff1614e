----------------------------- MODULE AdaptiveCC -----------------------------
(***************************************************************************)
(* The AIMD controller of one pool's concurrency limit: step_one of        *)
(* do_adaptive_cc_loop (lua/timers.lua), the shared dict entries it reads  *)
(* and writes (tps_dict: adaptive_cc with its TTL, rej), and the workers   *)
(* that change them meanwhile.                                             *)
(*                                                                         *)
(* Limits are kept in units of 1/Unit slot, the factors DEC and INC and    *)
(* the fractions in percent, so the code's floats become integers rounded  *)
(* down.  The timer runs in one worker and does not yield, but the other   *)
(* workers go on rejecting and counting requests between its dict          *)
(* operations: reading the rejections, clearing them and writing the limit *)
(* are three steps.                                                        *)
(***************************************************************************)
EXTENDS Integers, FiniteSetsExt

CONSTANTS
  Unit,         \* units per slot
  DecPct,       \* 100 * adaptive_cc_dec
  IncPct,       \* 100 * adaptive_cc_inc
  PressurePct,  \* 100 * adaptive_cc_pressure_frac
  SlackPct,     \* 100 * adaptive_cc_slack_frac
  Abs,          \* adaptive_cc_abs, slots
  Options,      \* what a reload may install, see OptionAssumption
  CCTTL,        \* adaptive_cc_ttl, in intervals
  SharePct,     \* 100 * rt_limit_factor * smallest share of a turn bucket
  MaxInflight,  \* bound: requests in flight
  MaxRej,       \* bound: rejections counted
  None, Never   \* no stored limit; a TTL of 0, which never expires

ASSUME ScaleAssumption ==
  /\ Unit \in Nat \ {0}
  /\ DecPct \in 0..100
  /\ IncPct \in Nat /\ IncPct >= 100
\* What register_route validates.
ASSUME FracAssumption ==
  /\ SlackPct \in Nat \ {0} /\ PressurePct \in 1..100 /\ SlackPct < PressurePct
  /\ Abs \in Nat
\* Slots and percentages of a route: the static capacity of its peer list,
\* adaptive_cc_min and _init (None when not set), their fractions, the switch.
ASSUME OptionAssumption ==
  Options \subseteq [maxcc : Nat \ {0}, min : (Nat \ {0}) \cup {None}, minPct : 1..100,
                    init : (Nat \ {0}) \cup {None}, initPct : (1..100) \cup {None},
                    hold : BOOLEAN]
ASSUME BoundAssumption ==
  /\ CCTTL \in Nat \ {0}
  /\ SharePct \in Nat
  /\ MaxInflight \in Nat
  /\ MaxRej \in Nat \ {0}
  /\ None \notin Nat /\ Never \notin Nat

VARIABLES
  cc,      \* tps_dict <pool>:adaptive_cc, or None
  ttl,     \* intervals until it expires, or Never
  rej,     \* tps_dict <pool>:rej, rejections since it was last cleared
  conc,    \* requests in flight (route.pool_inflight)
  signal,  \* what tps_assess and ttft_assess report
  conf,    \* the configuration the timer runs with
  due,     \* has an interval passed since the last tick
  pc,      \* where the timer callback is
  cur,     \* its local cur
  seen,    \* its local rej
  over,    \* its locals ta.has_threshold, ta.hit and ttft_over: the signal read
  asked,   \* history: a rejection no tick has taken into account yet
  since    \* history: what the timer did since its configuration was loaded

timer == <<pc, cur, seen, over>>
vars == <<cc, ttl, rej, conc, signal, conf, due, timer, asked, since>>

\* none: the TPS EWMA has expired.  nothr: no threshold to compare it with.
Signals == {"none", "nothr", "ok", "over"}
-----------------------------------------------------------------------------
\* derive_mincc and derive_initcc, from the static capacity only.
DeriveMin(o) ==
  LET mn == IF o.min # None THEN o.min ELSE Max({1, (o.maxcc * o.minPct) \div 100})
  IN Min({mn, o.maxcc})
DeriveInit(o, mn) ==
  LET it == IF o.init # None THEN o.init
            ELSE IF o.initPct # None THEN Max({1, (o.maxcc * o.initPct) \div 100})
            ELSE mn
  IN Min({Max({it, mn}), o.maxcc})
ConfigOf(o) ==
  [min  |-> DeriveMin(o) * Unit,
   init |-> DeriveInit(o, DeriveMin(o)) * Unit,
   max  |-> o.maxcc * Unit,
   hold |-> o.hold]
Configs == {ConfigOf(o) : o \in Options}

Dec(x) == (x * DecPct) \div 100
Inc(x) == (x * IncPct) \div 100

\* The limit a pool with k requests in flight should have:
\* max(conc / mid, conc + ABS).
Desired(k) == Max({(k * Unit * 200) \div (PressurePct + SlackPct), (k + Abs) * Unit})

AtPressure(x, k) == k * Unit * 100 >= x * PressurePct \/ x - k * Unit < Abs * Unit
AtSlack(x, k)    == k * Unit * 100 < x * SlackPct /\ x - k * Unit > Abs * Unit

\* Variant: low traffic shrinks to the headroom, past init.
FollowPastInit(x, k, c) ==
  IF AtPressure(x, k) THEN Min({Inc(x), Desired(k)})
  ELSE IF AtSlack(x, k) /\ ~c.hold THEN Max({Dec(x), Desired(k)})
  ELSE x

\* Variant: no climb back to init.
FollowStuck(x, k, c) ==
  IF AtPressure(x, k) THEN Min({Inc(x), Desired(k)})
  ELSE IF AtSlack(x, k) /\ x > c.init /\ ~c.hold
         THEN Max({Dec(x), Desired(k), c.init})
  ELSE x

\* Healthy and nothing rejected: follow the requests in flight, and climb
\* back to init from below.
Follow(x, k, c) ==
  LET y == IF AtPressure(x, k) THEN Min({Inc(x), Desired(k)})
           ELSE IF AtSlack(x, k) /\ x > c.init /\ ~c.hold
                  THEN Max({Dec(x), Desired(k), c.init})
                  ELSE x
  IN IF x < c.init THEN Max({y, Min({Inc(x), c.init})}) ELSE y

\* Variant: clamped from above only.
ClampTop(x, c) == Min({c.max, x})

Clamp(x, c) == Max({c.min, Min({c.max, x})})

\* Variant: demand the pool rejected outranks overload.
AIMDDemandFirst(x, k, s, n, c) ==
  CASE s = "nothr"                -> x
    [] s # "nothr" /\ n > 0       -> Inc(x)
    [] s = "over" /\ n = 0        -> Dec(x)
    [] s = "ok" /\ n = 0          -> Follow(x, k, c)

\* The new limit from the old one: k in flight, signal s, n rejections.
AIMD(x, k, s, n, c) ==
  CASE s = "nothr"           -> x
    [] s = "over"            -> Dec(x)
    [] s = "ok" /\ n > 0     -> Inc(x)
    [] s = "ok" /\ n = 0     -> Follow(x, k, c)

\* The limit do_route enforces before the pool's healthy capacity caps it.
Effective(v, c) == IF v = None THEN c.init ELSE v
-----------------------------------------------------------------------------
Init ==
  /\ cc = None /\ ttl = Never
  /\ rej = 0
  /\ conc = 0
  /\ signal = "none"
  /\ conf \in Configs
  /\ due = FALSE
  /\ pc = "idle" /\ cur = 0 /\ seen = 0 /\ over = "none"
  /\ asked = FALSE
  /\ since = "reload"

(***************************************************************************)
(* step_one                                                                *)
(***************************************************************************)
\* Variant: a tick without a signal leaves the entry alone.
TickIdleNothing ==
  /\ pc = "idle" /\ due /\ signal = "none"
  /\ due' = FALSE
  /\ since' = IF since = "reload" THEN "idle" ELSE since
  /\ UNCHANGED <<cc, ttl, rej, conc, signal, conf, timer, asked>>

\* No signal: only the kind of TTL follows hold_when_idle.
TickIdle ==
  /\ pc = "idle" /\ due /\ signal = "none"
  /\ ttl' = IF cc = None THEN ttl
            ELSE IF conf.hold THEN Never
            ELSE IF ttl = Never THEN CCTTL ELSE ttl
  /\ due' = FALSE
  /\ since' = IF since = "reload" THEN "idle" ELSE since
  /\ UNCHANGED <<cc, rej, conc, signal, conf, timer, asked>>

\* The verdicts, the stored limit and the rejections.
TickRead ==
  /\ pc = "idle" /\ due /\ signal # "none"
  /\ over' = signal
  /\ cur' = Effective(cc, conf)
  /\ seen' = rej
  /\ pc' = "clear"
  /\ due' = FALSE
  /\ UNCHANGED <<cc, ttl, rej, conc, signal, conf, asked, since>>

\* Variant: the rejections are deleted whether or not any were read.
TickClearAlways ==
  /\ pc = "clear"
  /\ rej' = 0
  /\ pc' = "write"
  /\ UNCHANGED <<cc, ttl, conc, signal, conf, due, cur, seen, over, asked, since>>

\* if rej > 0 then td:delete(rej)
TickClear ==
  /\ pc = "clear"
  /\ rej' = IF seen > 0 THEN 0 ELSE rej
  /\ pc' = "write"
  /\ UNCHANGED <<cc, ttl, conc, signal, conf, due, cur, seen, over, asked, since>>

TickWrite ==
  /\ pc = "write"
  /\ cc' = Clamp(AIMD(cur, conc, over, seen, conf), conf)
  /\ ttl' = IF conf.hold THEN Never ELSE CCTTL
  /\ asked' = IF seen > 0 THEN rej > 0 ELSE asked
  /\ since' = "signal"
  /\ pc' = "idle" /\ cur' = 0 /\ seen' = 0 /\ over' = "none"
  /\ UNCHANGED <<rej, conc, signal, conf, due>>

Tick == TickIdle \/ TickRead \/ TickClear \/ TickWrite
-----------------------------------------------------------------------------
(***************************************************************************)
(* The workers, the clock and the operator.                                *)
(***************************************************************************)
\* do_route answers 429 at the concurrency gate and counts it.
Reject ==
  /\ conc * Unit * 100 >= Effective(cc, conf) * SharePct
  /\ rej < MaxRej
  /\ rej' = rej + 1
  /\ asked' = TRUE
  /\ UNCHANGED <<cc, ttl, conc, signal, conf, due, timer, since>>

\* Requests are admitted and end.
Traffic ==
  /\ conc' \in 0..MaxInflight /\ conc' # conc
  /\ UNCHANGED <<cc, ttl, rej, signal, conf, due, timer, asked, since>>

\* The EWMAs move, appear and expire.
Measure ==
  /\ signal' \in Signals /\ signal' # signal
  /\ UNCHANGED <<cc, ttl, rej, conc, conf, due, timer, asked, since>>

\* An interval passes, never while a callback runs (the callback does not
\* yield and nginx caches the time); a limit whose TTL runs out is gone.
Elapse ==
  /\ pc = "idle" /\ ~due
  /\ due' = TRUE
  /\ IF cc = None \/ ttl = Never THEN UNCHANGED <<cc, ttl>>
     ELSE IF ttl = 1 THEN cc' = None /\ ttl' = Never
     ELSE ttl' = ttl - 1 /\ UNCHANGED cc
  /\ UNCHANGED <<rej, conc, signal, conf, timer, asked, since>>

\* rej has a TTL of its own, three intervals or more.
RejExpire ==
  /\ pc = "idle" /\ rej > 0
  /\ rej' = 0 /\ asked' = FALSE
  /\ UNCHANGED <<cc, ttl, conc, signal, conf, due, timer, since>>

\* After a reload the timer of a new worker takes over, with the new peer
\* list and options; the shared dict keeps the limit.
Reload ==
  /\ pc = "idle"
  /\ conf' \in Configs /\ conf' # conf
  /\ since' = "reload"
  /\ UNCHANGED <<cc, ttl, rej, conc, signal, due, timer, asked>>

Next == Tick \/ Reject \/ Traffic \/ Measure \/ Elapse \/ RejExpire \/ Reload

Spec == Init /\ [][Next]_vars

\* ngx.timer fires and its callback runs to the end.
FairSpec == Spec /\ WF_vars(Tick) /\ WF_vars(Elapse)
-----------------------------------------------------------------------------
(***************************************************************************)
(* Properties                                                              *)
(***************************************************************************)
TypeOK ==
  /\ cc \in Nat \cup {None}
  /\ ttl \in (1..CCTTL) \cup {Never}
  /\ rej \in 0..MaxRej
  /\ conc \in 0..MaxInflight
  /\ signal \in Signals
  /\ conf \in Configs
  /\ due \in BOOLEAN
  /\ pc \in {"idle", "clear", "write"}
  /\ cur \in Nat
  /\ seen \in 0..MaxRej
  /\ over \in Signals
  /\ asked \in BOOLEAN
  /\ since \in {"reload", "idle", "signal"}

\* "It moves within [adaptive_cc_min, static max]": from the first tick with
\* a signal after a reload on, the stored limit is in the band of the peer
\* list the timer runs with, however far the old limit was from it.
InBand == since = "signal" /\ cc # None => conf.min <= cc /\ cc <= conf.max

\* A switch of hold_when_idle reaches the stored value even when no write
\* follows: after any tick the limit never expires if and only if the
\* switch is on.
HoldMatchesTTL == since # "reload" /\ cc # None => (ttl = Never <=> conf.hold)

\* A rejected request is never cleared unheard: once it is gone from the
\* counter, the tick that is running has read the counter as positive.
RejectionsHeard == asked /\ rej = 0 => pc \in {"clear", "write"} /\ seen > 0

\* "Only overload pushes the limit below init": no other step of the timer
\* and no expiry takes the enforced limit from init or above to below it.
OnlyOverloadBelowInit ==
  [][(/\ UNCHANGED conf
      /\ Effective(cc, conf) >= conf.init
      /\ Effective(cc', conf) < conf.init) => pc = "write" /\ over = "over"]_vars

\* Overload has priority over demand: a tick that saw overload never raises
\* a limit that is in the band, rejections or not.
OverloadNeverGrows ==
  [][(pc = "write" /\ pc' = "idle" /\ over = "over" /\ since = "signal")
       => Effective(cc', conf) <= Max({Effective(cc, conf), conf.min})]_vars

\* A tick that lowers the limit of a healthy pool leaves adaptive_cc_abs
\* free slots above the requests in flight, unless the static maximum does
\* not have them.
HeadroomKept ==
  [][(pc = "write" /\ pc' = "idle" /\ over = "ok" /\ cc' < cur)
       => cc' >= Min({(conc + Abs) * Unit, conf.max})]_vars

\* What a tick may do to the limit of a pool, overloaded or healthy: both of
\* the above.
TicksJustified == OverloadNeverGrows /\ HeadroomKept

\* "once the backend is healthy again the limit climbs back to init ... even
\* under light traffic": as long as the signal stays healthy and nothing is
\* reloaded, a limit below init gets there.
ClimbsBack ==
  \A c \in Configs :
    <>[](signal = "ok" /\ conf = c) => <>[](Effective(cc, c) >= c.init)

\* hold off and no signal: the limit ages out instead of being kept alive by
\* the ticks.
IdleAgesOut == <>[](signal = "none" /\ ~conf.hold) => <>[](cc = None)

\* A limit that an overload lowered does not stay for ever, with traffic or
\* without: both of the above.
LimitRecovers == ClimbsBack /\ IdleAgesOut
=============================================================================
