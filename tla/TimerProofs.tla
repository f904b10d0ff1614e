---------------------------- MODULE TimerProofs -----------------------------
(***************************************************************************)
(* Proofs about the two background timers of a route: the adaptive_cc      *)
(* tick (AdaptiveCC), for every set of options, every factor and fraction  *)
(* register_route accepts and any number of requests; and the election of  *)
(* the worker whose timers run at all (TimerElection): without stalls the  *)
(* entry of lc_locks elects at most one worker, and a dead owner is        *)
(* replaced in time, with or without stalls.                               *)
(***************************************************************************)
EXTENDS AdaptiveCC, TimerElection, TLAPS

(***************************************************************************)
(* Arithmetic.                                                             *)
(***************************************************************************)
LEMMA MaxPair ==
  ASSUME NEW a \in Int, NEW b \in Int
  PROVE  Max({a, b}) \in {a, b} /\ Max({a, b}) >= a /\ Max({a, b}) >= b
<1>1. \E x \in {a, b} : \A y \in {a, b} : x >= y
  BY SMT
<1>2. Max({a, b}) \in {a, b} /\ \A y \in {a, b} : Max({a, b}) >= y
  BY <1>1 DEF Max
<1> QED BY <1>2

LEMMA MaxTriple ==
  ASSUME NEW a \in Int, NEW b \in Int, NEW c \in Int
  PROVE  /\ Max({a, b, c}) \in {a, b, c}
         /\ Max({a, b, c}) >= a /\ Max({a, b, c}) >= b /\ Max({a, b, c}) >= c
<1>1. \E x \in {a, b, c} : \A y \in {a, b, c} : x >= y
  BY SMT
<1>2. Max({a, b, c}) \in {a, b, c} /\ \A y \in {a, b, c} : Max({a, b, c}) >= y
  BY <1>1 DEF Max
<1> QED BY <1>2

LEMMA MinPair ==
  ASSUME NEW a \in Int, NEW b \in Int
  PROVE  Min({a, b}) \in {a, b} /\ Min({a, b}) <= a /\ Min({a, b}) <= b
<1>1. \E x \in {a, b} : \A y \in {a, b} : x <= y
  BY SMT
<1>2. Min({a, b}) \in {a, b} /\ \A y \in {a, b} : Min({a, b}) <= y
  BY <1>1 DEF Min
<1> QED BY <1>2

\* A product of naturals is monotone in each factor.
LEMMA ProductMono ==
  ASSUME NEW x \in Nat, NEW a \in Nat, NEW b \in Nat, a <= b
  PROVE  x * a <= x * b /\ x * a \in Nat /\ x * b \in Nat
<1>1. PICK d \in Nat : b = a + d
  BY SMT
<1>2. x * b = x * a + x * d
  BY <1>1
<1>3. x * d >= 0 /\ x * a >= 0 /\ x * d \in Int /\ x * a \in Int
  BY <1>1
<1> QED BY <1>2, <1>3

LEMMA DivBounds ==
  ASSUME NEW n \in Nat, NEW d \in Nat \ {0}
  PROVE  /\ n \div d \in Nat
         /\ \A q \in Nat : n <= q * d => n \div d <= q
         /\ \A q \in Nat : n >= q * d => n \div d >= q
<1>1. n \div d \in Nat
  BY SMT
<1>2. ASSUME NEW q \in Nat, n <= q * d PROVE n \div d <= q
  BY <1>2, SMT
<1>3. ASSUME NEW q \in Nat, n >= q * d PROVE n \div d >= q
  BY <1>3, SMT
<1> QED BY <1>1, <1>2, <1>3

\* DEC never raises a limit, INC never lowers one.
LEMMA DecType ==
  ASSUME NEW x \in Nat
  PROVE  Dec(x) \in Nat /\ Dec(x) <= x
<1>1. x * DecPct <= x * 100 /\ x * DecPct \in Nat
  BY ProductMono, ScaleAssumption
<1> QED BY <1>1, DivBounds DEF Dec

LEMMA IncType ==
  ASSUME NEW x \in Nat
  PROVE  Inc(x) \in Nat /\ Inc(x) >= x
<1>1. x * 100 <= x * IncPct /\ x * IncPct \in Nat
  BY ProductMono, ScaleAssumption
<1> QED BY <1>1, DivBounds DEF Inc

LEMMA DesiredType ==
  ASSUME NEW k \in Nat
  PROVE  Desired(k) \in Nat /\ Desired(k) >= (k + Abs) * Unit
         /\ Desired(k) >= (k * Unit * 200) \div (PressurePct + SlackPct)
<1> DEFINE a == (k * Unit * 200) \div (PressurePct + SlackPct)
           b == (k + Abs) * Unit
<1>1. k * Unit \in Nat
  BY ProductMono, ScaleAssumption
<1>2. k * Unit * 200 \in Nat /\ PressurePct + SlackPct \in Nat \ {0}
  BY <1>1, FracAssumption
<1>3. a \in Nat
  BY <1>2, DivBounds
<1>4. b \in Nat
  BY ProductMono, ScaleAssumption, FracAssumption
<1> HIDE DEF a, b
<1>5. Max({a, b}) \in {a, b} /\ Max({a, b}) >= a /\ Max({a, b}) >= b
  BY <1>3, <1>4, MaxPair
<1>6. Max({a, b}) \in Nat
  BY <1>3, <1>4, <1>5
<1> QED BY <1>5, <1>6 DEF Desired, a, b

\* At pressure the target is not below the limit: this is where slack_frac
\* < pressure_frac is needed.
LEMMA PressureTarget ==
  ASSUME NEW x \in Nat, NEW k \in Nat, AtPressure(x, k)
  PROVE  Desired(k) >= x
<1> DEFINE u == k * Unit
           d == PressurePct + SlackPct
<1>1. u \in Nat /\ d \in Nat \ {0} /\ Unit \in Nat /\ Abs \in Nat
  BY ProductMono, ScaleAssumption, FracAssumption
<1>2. CASE u * 100 >= x * PressurePct
  <2>1. d <= 2 * PressurePct /\ PressurePct \in Nat
    BY FracAssumption
  <2>2. x * d <= x * (2 * PressurePct) /\ x * d \in Nat
    BY <1>1, <2>1, ProductMono
  <2>3. x * (2 * PressurePct) = 2 * (x * PressurePct) /\ x * PressurePct \in Int
    BY <2>1
  <2>4. u * 200 >= x * d
    BY <1>1, <1>2, <2>2, <2>3
  <2>5. (u * 200) \div d >= x
    BY <1>1, <2>4, DivBounds
  <2>6. Desired(k) \in Nat /\ Desired(k) >= (u * 200) \div d /\ (u * 200) \div d \in Nat
    <3>1. Desired(k) \in Nat /\ Desired(k) >= (u * 200) \div d
      BY DesiredType
    <3>2. u * 200 \in Nat
      BY <1>1
    <3>3. (u * 200) \div d \in Nat
      BY <1>1, <3>2, DivBounds
    <3> QED BY <3>1, <3>3
  <2> QED BY <2>5, <2>6
<1>3. CASE x - u < Abs * Unit
  <2>1. (k + Abs) * Unit = u + Abs * Unit /\ Abs * Unit \in Int
    BY <1>1
  <2>2. Desired(k) \in Nat /\ Desired(k) >= (k + Abs) * Unit
    BY DesiredType
  <2> QED BY <1>1, <1>3, <2>1, <2>2
<1> QED BY <1>2, <1>3 DEF AtPressure

Band(c) == /\ c.min \in Nat \ {0} /\ c.init \in Nat \ {0} /\ c.max \in Nat \ {0}
           /\ c.min <= c.init /\ c.init <= c.max
           /\ c.hold \in BOOLEAN

\* Whatever the options, derive_mincc and derive_initcc give a proper band:
\* 1 <= min <= init <= max.
LEMMA ConfigBand == \A c \in Configs : Band(c)
<1> SUFFICES ASSUME NEW o \in Options PROVE Band(ConfigOf(o))
  BY DEF Configs
<1>1. /\ o.maxcc \in Nat \ {0} /\ o.min \in (Nat \ {0}) \cup {None} /\ o.minPct \in 1..100
      /\ o.init \in (Nat \ {0}) \cup {None} /\ o.initPct \in (1..100) \cup {None}
      /\ o.hold \in BOOLEAN
  BY OptionAssumption
<1>2. ASSUME NEW pct \in 1..100
      PROVE  Max({1, (o.maxcc * pct) \div 100}) \in Nat \ {0}
  <2> DEFINE q == (o.maxcc * pct) \div 100
  <2>1. q \in Nat
    BY <1>1, ProductMono, DivBounds
  <2> HIDE DEF q
  <2>2. Max({1, q}) \in {1, q} /\ Max({1, q}) >= 1
    BY <2>1, MaxPair
  <2>3. Max({1, q}) \in Nat \ {0}
    BY <2>1, <2>2
  <2> QED BY <2>3 DEF q
<1> DEFINE mn == IF o.min # None THEN o.min ELSE Max({1, (o.maxcc * o.minPct) \div 100})
           it == IF o.init # None THEN o.init
                 ELSE IF o.initPct # None THEN Max({1, (o.maxcc * o.initPct) \div 100})
                 ELSE DeriveMin(o)
<1>3. mn \in Nat \ {0}
  BY <1>1, <1>2
<1>4. DeriveMin(o) = Min({mn, o.maxcc})
  BY DEF DeriveMin
<1> HIDE DEF mn
<1>5. DeriveMin(o) \in Nat \ {0} /\ DeriveMin(o) <= o.maxcc
  <2>1. mn \in Int /\ o.maxcc \in Int
    BY <1>1, <1>3
  <2>2. Min({mn, o.maxcc}) \in {mn, o.maxcc} /\ Min({mn, o.maxcc}) <= o.maxcc
    BY <2>1, MinPair, Zenon
  <2> QED BY <1>1, <1>3, <1>4, <2>2
<1>6. it \in Nat \ {0}
  BY <1>1, <1>2, <1>5
<1>7. DeriveInit(o, DeriveMin(o)) = Min({Max({it, DeriveMin(o)}), o.maxcc})
  BY DEF DeriveInit
<1> HIDE DEF it
<1>8. Max({it, DeriveMin(o)}) \in Nat \ {0} /\ Max({it, DeriveMin(o)}) >= DeriveMin(o)
  BY <1>5, <1>6, MaxPair
<1>9. /\ DeriveInit(o, DeriveMin(o)) \in Nat \ {0}
      /\ DeriveInit(o, DeriveMin(o)) >= DeriveMin(o)
      /\ DeriveInit(o, DeriveMin(o)) <= o.maxcc
  <2> DEFINE z == Max({it, DeriveMin(o)})
  <2>1. z \in Int /\ o.maxcc \in Int
    BY <1>1, <1>8
  <2>2. Min({z, o.maxcc}) \in {z, o.maxcc} /\ Min({z, o.maxcc}) <= o.maxcc
    BY <2>1, MinPair, Zenon
  <2>3. z \in Nat \ {0} /\ z >= DeriveMin(o) /\ DeriveInit(o, DeriveMin(o)) = Min({z, o.maxcc})
    BY <1>7, <1>8
  <2> HIDE DEF z
  <2> QED BY <1>1, <1>5, <2>2, <2>3
<1> DEFINE a == DeriveMin(o)
           b == DeriveInit(o, DeriveMin(o))
           m == o.maxcc
<1>10. /\ a \in Nat \ {0} /\ b \in Nat \ {0} /\ m \in Nat \ {0} /\ a <= b /\ b <= m
       /\ Unit \in Nat \ {0}
  BY <1>1, <1>5, <1>9, ScaleAssumption
<1>11. ConfigOf(o) = [min |-> a * Unit, init |-> b * Unit, max |-> m * Unit, hold |-> o.hold]
  BY DEF ConfigOf
<1> HIDE DEF a, b, m
<1>12. Unit * a <= Unit * b /\ Unit * b <= Unit * m /\ Unit * 1 <= Unit * a
  BY <1>10, ProductMono
<1>13. /\ a * Unit = Unit * a /\ b * Unit = Unit * b /\ m * Unit = Unit * m
       /\ Unit * a \in Int /\ Unit * b \in Int /\ Unit * m \in Int
  BY <1>10
<1> QED BY <1>1, <1>10, <1>11, <1>12, <1>13 DEF Band

LEMMA ClampBand ==
  ASSUME NEW c, Band(c), NEW x \in Nat
  PROVE  /\ Clamp(x, c) \in Nat /\ c.min <= Clamp(x, c) /\ Clamp(x, c) <= c.max
         /\ x >= c.init => Clamp(x, c) >= c.init
         /\ Clamp(x, c) \in {x, c.min, c.max}
         /\ x <= c.max => Clamp(x, c) \in {x, c.min} /\ Clamp(x, c) >= x
         /\ x >= c.max => Clamp(x, c) = c.max
<1> DEFINE y == Min({c.max, x})
<1>1. y \in {c.max, x} /\ y <= c.max /\ y <= x
  BY MinPair DEF Band
<1>2. y \in Nat
  BY <1>1 DEF Band
<1> HIDE DEF y
<1>3. Max({c.min, y}) \in {c.min, y} /\ Max({c.min, y}) >= c.min /\ Max({c.min, y}) >= y
  BY <1>2, MaxPair DEF Band
<1>4. Clamp(x, c) = Max({c.min, y})
  BY DEF Clamp, y
<1> QED BY <1>1, <1>2, <1>3, <1>4 DEF Band

\* A healthy pool: the new limit is a natural, and is at least init if the
\* old one was.
LEMMA FollowType ==
  ASSUME NEW c, Band(c), NEW x \in Nat, NEW k \in Nat
  PROVE  Follow(x, k, c) \in Nat /\ (x >= c.init => Follow(x, k, c) >= c.init)
<1> DEFINE y == IF AtPressure(x, k) THEN Min({Inc(x), Desired(k)})
                ELSE IF AtSlack(x, k) /\ x > c.init /\ ~c.hold
                       THEN Max({Dec(x), Desired(k), c.init})
                       ELSE x
<1>1. Inc(x) \in Nat /\ Inc(x) >= x /\ Dec(x) \in Nat /\ Desired(k) \in Nat
  BY IncType, DecType, DesiredType
<1>2. AtPressure(x, k) => Desired(k) >= x
  BY PressureTarget
<1>3. /\ Min({Inc(x), Desired(k)}) \in {Inc(x), Desired(k)}
      /\ Max({Dec(x), Desired(k), c.init}) \in {Dec(x), Desired(k), c.init}
      /\ Max({Dec(x), Desired(k), c.init}) >= c.init
  <2> DEFINE i == Inc(x)
             d == Dec(x)
             t == Desired(k)
             n == c.init
  <2>1. i \in Int /\ d \in Int /\ t \in Int /\ n \in Int
    BY <1>1 DEF Band
  <2> HIDE DEF i, d, t, n
  <2>2. Min({i, t}) \in {i, t}
    BY <2>1, MinPair
  <2>3. Max({d, t, n}) \in {d, t, n} /\ Max({d, t, n}) >= n
    BY <2>1, MaxTriple
  <2> QED BY <2>2, <2>3 DEF i, d, t, n
<1>4. y \in Nat /\ (x >= c.init => y >= c.init)
  BY <1>1, <1>2, <1>3 DEF Band
<1>5. Follow(x, k, c) = IF x < c.init THEN Max({y, Min({Inc(x), c.init})}) ELSE y
  BY DEF Follow
<1> HIDE DEF y
<1>6. Min({Inc(x), c.init}) \in Nat
  BY <1>1, MinPair DEF Band
<1>7. Max({y, Min({Inc(x), c.init})}) \in Nat
  BY <1>4, <1>6, MaxPair
<1> QED BY <1>4, <1>5, <1>7 DEF Band

\* The step: only the overload branch can lower a limit from init or above
\* to below it, and it never raises one.
LEMMA AIMDType ==
  ASSUME NEW c, Band(c), NEW x \in Nat, NEW k \in Nat,
         NEW s \in Signals \ {"none"}, NEW n \in Nat
  PROVE  /\ AIMD(x, k, s, n, c) \in Nat
         /\ s # "over" /\ x >= c.init => AIMD(x, k, s, n, c) >= c.init
         /\ s = "over" => AIMD(x, k, s, n, c) <= x
<1>1. Inc(x) \in Nat /\ Inc(x) >= x /\ Dec(x) \in Nat /\ Dec(x) <= x
  BY IncType, DecType
<1>2. Follow(x, k, c) \in Nat /\ (x >= c.init => Follow(x, k, c) >= c.init)
  BY FollowType
<1>3. CASE s = "nothr"
  BY <1>3 DEF AIMD
<1>4. CASE s = "over"
  BY <1>1, <1>4 DEF AIMD
<1>5. CASE s = "ok" /\ n > 0
  <2>1. AIMD(x, k, s, n, c) = Inc(x)
    BY <1>5 DEF AIMD
  <2> QED BY <1>1, <1>5, <2>1 DEF Band
<1>6. CASE s = "ok" /\ n = 0
  <2>1. AIMD(x, k, s, n, c) = Follow(x, k, c)
    BY <1>6 DEF AIMD
  <2> QED BY <1>2, <1>6, <2>1
<1> QED BY <1>3, <1>4, <1>5, <1>6 DEF Signals

-----------------------------------------------------------------------------
(***************************************************************************)
(* The inductive invariant: TypeOK and the three invariants, and what the  *)
(* locals of a tick that has started hold (InTick): the limit it read is   *)
(* still the stored one, since nothing else writes it.                     *)
(***************************************************************************)
InTick ==
  /\ pc # "idle" => /\ over # "none"
                    /\ cur = Effective(cc, conf)
  /\ pc = "idle" => seen = 0
CCInv == TypeOK /\ InBand /\ HoldMatchesTTL /\ RejectionsHeard /\ InTick

LEMMA InitCCInv == Init => CCInv
<1> SUFFICES ASSUME Init PROVE CCInv
  OBVIOUS
<1>1. TypeOK
  <2>1. due \in BOOLEAN /\ asked \in BOOLEAN
    BY DEF Init
  <2>2. /\ cc \in Nat \cup {None} /\ ttl \in (1..CCTTL) \cup {Never}
        /\ signal \in Signals /\ over \in Signals /\ conf \in Configs
        /\ pc \in {"idle", "clear", "write"} /\ since \in {"reload", "idle", "signal"}
    BY DEF Init, Signals
  <2>3. rej \in 0..MaxRej /\ seen \in 0..MaxRej /\ conc \in 0..MaxInflight /\ cur \in Nat
    BY BoundAssumption DEF Init
  <2> QED BY <2>1, <2>2, <2>3 DEF TypeOK
<1>2. InBand /\ HoldMatchesTTL /\ RejectionsHeard /\ InTick
  BY DEF Init, InBand, HoldMatchesTTL, RejectionsHeard, InTick
<1> QED BY <1>1, <1>2 DEF CCInv

LEMMA EffectiveType ==
  ASSUME TypeOK
  PROVE  Effective(cc, conf) \in Nat /\ Band(conf)
<1>1. Band(conf)
  BY ConfigBand DEF TypeOK
<1> QED BY <1>1 DEF TypeOK, Effective, Band

LEMMA TickIdleInv == ASSUME CCInv, TickIdle PROVE CCInv'
<1>1. ttl' \in (1..CCTTL) \cup {Never}
  BY BoundAssumption DEF CCInv, TypeOK, TickIdle
<1>2. since' \in {"reload", "idle", "signal"}
  BY DEF CCInv, TypeOK, TickIdle
<1>3. TypeOK'
  BY <1>1, <1>2 DEF CCInv, TypeOK, TickIdle, timer
<1>4. InBand'
  BY DEF CCInv, InBand, TickIdle
<1>5. HoldMatchesTTL'
  <2>1. CASE cc = None
    BY <2>1 DEF TickIdle, HoldMatchesTTL
  <2>2. CASE cc # None /\ conf.hold
    BY <2>2 DEF TickIdle, HoldMatchesTTL
  <2>3. CASE cc # None /\ ~conf.hold
    <3>1. ttl' \in Nat
      BY <2>3, BoundAssumption DEF CCInv, TypeOK, TickIdle
    <3> QED BY <2>3, <3>1, BoundAssumption DEF TickIdle, HoldMatchesTTL
  <2> QED BY <2>1, <2>2, <2>3
<1>6. RejectionsHeard' /\ InTick'
  BY DEF CCInv, RejectionsHeard, InTick, TickIdle, timer, Effective
<1> QED BY <1>3, <1>4, <1>5, <1>6 DEF CCInv

LEMMA TickReadInv == ASSUME CCInv, TickRead PROVE CCInv'
<1>1. Effective(cc, conf) \in Nat
  BY EffectiveType DEF CCInv
<1>2. TypeOK'
  BY <1>1 DEF CCInv, TypeOK, TickRead
<1>3. InBand' /\ HoldMatchesTTL'
  BY DEF CCInv, InBand, HoldMatchesTTL, TickRead
<1>4. RejectionsHeard'
  BY DEF CCInv, RejectionsHeard, TickRead
<1>5. InTick'
  BY DEF CCInv, InTick, TickRead, Effective
<1> QED BY <1>2, <1>3, <1>4, <1>5 DEF CCInv

LEMMA TickClearInv == ASSUME CCInv, TickClear PROVE CCInv'
<1>1. TypeOK'
  BY BoundAssumption DEF CCInv, TypeOK, TickClear
<1>2. InBand' /\ HoldMatchesTTL'
  BY DEF CCInv, InBand, HoldMatchesTTL, TickClear
<1>3. RejectionsHeard'
  BY DEF CCInv, TypeOK, RejectionsHeard, TickClear
<1>4. InTick'
  BY DEF CCInv, InTick, TickClear, Effective
<1> QED BY <1>1, <1>2, <1>3, <1>4 DEF CCInv

\* The value a tick writes.
LEMMA TickWriteValue ==
  ASSUME CCInv, TickWrite
  PROVE  /\ cc' \in Nat /\ conf.min <= cc' /\ cc' <= conf.max
         /\ over # "over" /\ cur >= conf.init => cc' >= conf.init
         /\ over = "over" /\ cur <= conf.max => cc' <= cur \/ cc' = conf.min
<1> DEFINE v == AIMD(cur, conc, over, seen, conf)
<1>1. /\ Band(conf) /\ cur \in Nat /\ conc \in Nat /\ seen \in Nat
      /\ over \in Signals \ {"none"}
  BY EffectiveType, BoundAssumption DEF CCInv, TypeOK, InTick, TickWrite
<1>2. /\ v \in Nat
      /\ over # "over" /\ cur >= conf.init => v >= conf.init
      /\ over = "over" => v <= cur
  BY <1>1, AIMDType
<1>3. cc' = Clamp(v, conf)
  BY DEF TickWrite
<1> HIDE DEF v
<1>4. /\ Clamp(v, conf) \in Nat /\ conf.min <= Clamp(v, conf) /\ Clamp(v, conf) <= conf.max
      /\ v >= conf.init => Clamp(v, conf) >= conf.init
      /\ v <= conf.max => Clamp(v, conf) \in {v, conf.min}
  BY <1>1, <1>2, ClampBand
<1>5. over = "over" /\ cur <= conf.max => cc' <= cur \/ cc' = conf.min
  BY <1>1, <1>2, <1>3, <1>4 DEF Band
<1> QED BY <1>2, <1>3, <1>4, <1>5

LEMMA TickWriteInv == ASSUME CCInv, TickWrite PROVE CCInv'
<1>1. cc' \in Nat /\ conf.min <= cc' /\ cc' <= conf.max
  BY TickWriteValue
<1>2. Band(conf)
  BY EffectiveType DEF CCInv
<1>3. ttl' \in (1..CCTTL) \cup {Never} /\ (ttl' = Never <=> conf.hold)
  BY <1>2, BoundAssumption DEF TickWrite, Band
<1>4. asked' \in BOOLEAN
  <2>1. CASE seen > 0
    <3>1. asked' = (rej > 0)
      BY <2>1 DEF TickWrite
    <3> QED BY <3>1
  <2>2. CASE ~(seen > 0)
    BY <2>2 DEF CCInv, TypeOK, TickWrite
  <2> QED BY <2>1, <2>2
<1>5. TypeOK'
  BY <1>1, <1>3, <1>4, BoundAssumption DEF CCInv, TypeOK, TickWrite, Signals
<1>6. InBand' /\ HoldMatchesTTL'
  BY <1>1, <1>3 DEF InBand, HoldMatchesTTL, TickWrite
<1>7. RejectionsHeard'
  <2>1. rej' = rej /\ rej \in Nat
    BY BoundAssumption DEF CCInv, TypeOK, TickWrite
  <2>2. CASE seen > 0
    <3>1. asked' = (rej > 0)
      BY <2>2 DEF TickWrite
    <3>2. rej = 0 => ~(rej > 0)
      BY <2>1
    <3> QED BY <2>1, <3>1, <3>2 DEF RejectionsHeard
  <2>3. CASE ~(seen > 0)
    <3>1. asked' = asked
      BY <2>3 DEF TickWrite
    <3>2. ~(asked /\ rej = 0)
      BY <2>3 DEF CCInv, RejectionsHeard
    <3> QED BY <2>1, <3>1, <3>2 DEF RejectionsHeard
  <2> QED BY <2>2, <2>3
<1>8. InTick'
  BY DEF InTick, TickWrite
<1> QED BY <1>5, <1>6, <1>7, <1>8 DEF CCInv

LEMMA ElapseInv == ASSUME CCInv, Elapse PROVE CCInv'
<1>1. /\ cc' \in Nat \cup {None} /\ ttl' \in (1..CCTTL) \cup {Never}
      /\ cc' # None => cc' = cc /\ (ttl' = Never <=> ttl = Never)
  <2>1. CASE cc = None \/ ttl = Never
    BY <2>1 DEF CCInv, TypeOK, Elapse
  <2>2. CASE cc # None /\ ttl # Never /\ ttl = 1
    BY <2>2 DEF CCInv, TypeOK, Elapse
  <2>3. CASE cc # None /\ ttl # Never /\ ttl # 1
    <3>1. ttl \in 2..CCTTL
      BY <2>3 DEF CCInv, TypeOK
    <3> QED BY <2>3, <3>1, BoundAssumption DEF CCInv, TypeOK, Elapse
  <2> QED BY <2>1, <2>2, <2>3
<1>2. TypeOK'
  BY <1>1 DEF CCInv, TypeOK, Elapse, timer
<1>3. InBand' /\ HoldMatchesTTL'
  BY <1>1 DEF CCInv, InBand, HoldMatchesTTL, Elapse
<1>4. RejectionsHeard' /\ InTick'
  BY DEF CCInv, RejectionsHeard, InTick, Elapse, timer
<1> QED BY <1>2, <1>3, <1>4 DEF CCInv

LEMMA OtherInv ==
  ASSUME CCInv, Reject \/ Traffic \/ Measure \/ RejExpire \/ Reload \/ UNCHANGED vars
  PROVE  CCInv'
<1>1. CASE Reject
  <2>1. TypeOK'
    BY <1>1, BoundAssumption DEF CCInv, TypeOK, Reject, timer
  <2>2. rej' # 0
    BY <1>1 DEF CCInv, TypeOK, Reject
  <2>3. InBand' /\ HoldMatchesTTL' /\ RejectionsHeard' /\ InTick'
    BY <1>1, <2>2
       DEF CCInv, InBand, HoldMatchesTTL, RejectionsHeard, InTick, Reject, timer, Effective
  <2> QED BY <2>1, <2>3 DEF CCInv
<1>2. CASE Traffic \/ Measure
  <2>1. TypeOK'
    BY <1>2 DEF CCInv, TypeOK, Traffic, Measure, timer
  <2>2. InBand' /\ HoldMatchesTTL' /\ RejectionsHeard' /\ InTick'
    BY <1>2
       DEF CCInv, InBand, HoldMatchesTTL, RejectionsHeard, InTick, Traffic, Measure,
           timer, Effective
  <2> QED BY <2>1, <2>2 DEF CCInv
<1>3. CASE RejExpire
  <2>1. TypeOK'
    <3>1. asked' \in BOOLEAN /\ due' \in BOOLEAN
      BY <1>3 DEF CCInv, TypeOK, RejExpire
    <3>2. rej' \in 0..MaxRej
      BY <1>3, BoundAssumption DEF RejExpire
    <3> QED BY <1>3, <3>1, <3>2 DEF CCInv, TypeOK, RejExpire, timer
  <2>2. InBand' /\ HoldMatchesTTL' /\ RejectionsHeard' /\ InTick'
    BY <1>3
       DEF CCInv, InBand, HoldMatchesTTL, RejectionsHeard, InTick, RejExpire, timer
  <2> QED BY <2>1, <2>2 DEF CCInv
<1>4. CASE Reload
  <2>1. TypeOK'
    BY <1>4 DEF CCInv, TypeOK, Reload, timer
  <2>2. InBand' /\ HoldMatchesTTL' /\ RejectionsHeard' /\ InTick'
    BY <1>4 DEF CCInv, InBand, HoldMatchesTTL, RejectionsHeard, InTick, Reload, timer
  <2> QED BY <2>1, <2>2 DEF CCInv
<1>5. CASE UNCHANGED vars
  <2>1. TypeOK'
    BY <1>5 DEF CCInv, TypeOK, vars, timer
  <2>2. InBand' /\ HoldMatchesTTL' /\ RejectionsHeard' /\ InTick'
    BY <1>5
       DEF CCInv, InBand, HoldMatchesTTL, RejectionsHeard, InTick, vars, timer, Effective
  <2> QED BY <2>1, <2>2 DEF CCInv
<1> QED BY <1>1, <1>2, <1>3, <1>4, <1>5

LEMMA NextCCInv == CCInv /\ [Next]_vars => CCInv'
  BY TickIdleInv, TickReadInv, TickClearInv, TickWriteInv, ElapseInv, OtherInv
     DEF Next, Tick

\* Every state of the controller is well typed; the limit is a number of
\* units or absent, and its TTL never outlives adaptive_cc_ttl.
THEOREM AdaptiveTypeCorrect == Spec => []TypeOK
<1>1. CCInv => TypeOK
  BY DEF CCInv
<1> QED BY <1>1, InitCCInv, NextCCInv, PTL DEF Spec

\* For every peer list and every accepted option, the limit is within
\* [adaptive_cc_min, static max] from the first tick with a signal on.
THEOREM LimitInBand == Spec => []InBand
<1>1. CCInv => InBand
  BY DEF CCInv
<1> QED BY <1>1, InitCCInv, NextCCInv, PTL DEF Spec

\* A switch of hold_when_idle reaches the stored limit with the next tick,
\* signal or not.
THEOREM HoldReachesTTL == Spec => []HoldMatchesTTL
<1>1. CCInv => HoldMatchesTTL
  BY DEF CCInv
<1> QED BY <1>1, InitCCInv, NextCCInv, PTL DEF Spec

\* The timer's read and delete of the rejection counter are two operations
\* and lose no rejection unheard.
THEOREM NoRejectionUnheard == Spec => []RejectionsHeard
<1>1. CCInv => RejectionsHeard
  BY DEF CCInv
<1> QED BY <1>1, InitCCInv, NextCCInv, PTL DEF Spec

\* Only a tick that saw overload takes the enforced limit below init, for
\* every factor, fraction and headroom register_route accepts.
THEOREM BelowInitOnlyByOverload == Spec => OnlyOverloadBelowInit
<1> DEFINE A == (/\ UNCHANGED conf
                 /\ Effective(cc, conf) >= conf.init
                 /\ Effective(cc', conf) < conf.init) => pc = "write" /\ over = "over"
<1>1. CCInv /\ [Next]_vars => [A]_vars
  <2> SUFFICES ASSUME CCInv, [Next]_vars, UNCHANGED conf,
                      Effective(cc, conf) >= conf.init,
                      Effective(cc', conf) < conf.init
               PROVE  pc = "write" /\ over = "over"
    OBVIOUS
  <2>1. Band(conf) /\ Effective(cc, conf) \in Nat
    BY EffectiveType DEF CCInv
  <2>2. cc' # None /\ cc' # cc
    BY <2>1 DEF Effective, Band
  <2>3. TickWrite
    BY <2>2
       DEF Next, Tick, TickIdle, TickRead, TickClear, Reject, Traffic, Measure, Elapse,
           RejExpire, Reload, vars
  <2>4. cur = Effective(cc, conf) /\ pc = "write"
    BY <2>3 DEF CCInv, InTick, TickWrite
  <2>5. /\ over # "over" /\ cur >= conf.init => cc' >= conf.init
        /\ cc' \in Nat
    BY <2>3, TickWriteValue
  <2> QED BY <2>1, <2>2, <2>4, <2>5 DEF Effective, Band
<1> QED BY <1>1, InitCCInv, NextCCInv, PTL DEF Spec, OnlyOverloadBelowInit

\* A healthy pool's limit is lowered only to the headroom or above it.
LEMMA FollowHeadroom ==
  ASSUME NEW c, Band(c), NEW x \in Nat, NEW k \in Nat
  PROVE  Follow(x, k, c) >= x \/ Follow(x, k, c) >= (k + Abs) * Unit
<1> DEFINE i == Inc(x)
           d == Dec(x)
           t == Desired(k)
           n == c.init
           h == (k + Abs) * Unit
           y == IF AtPressure(x, k) THEN Min({i, t})
                ELSE IF AtSlack(x, k) /\ x > n /\ ~c.hold THEN Max({d, t, n}) ELSE x
<1>1. i \in Nat /\ i >= x /\ d \in Nat /\ t \in Nat /\ t >= h /\ n \in Nat
  BY IncType, DecType, DesiredType DEF Band
<1>2. h \in Nat
  BY ProductMono, ScaleAssumption, FracAssumption
<1>3. AtPressure(x, k) => t >= x
  BY PressureTarget
<1>4. Follow(x, k, c) = IF x < n THEN Max({y, Min({i, n})}) ELSE y
  BY DEF Follow
<1> HIDE DEF i, d, t, n, h
<1>5. Min({i, t}) \in {i, t} /\ Min({i, n}) \in {i, n}
  <2>1. i \in Int /\ t \in Int /\ n \in Int
    BY <1>1
  <2>2. Min({i, t}) \in {i, t}
    BY <2>1, MinPair
  <2>3. Min({i, n}) \in {i, n}
    BY <2>1, MinPair
  <2> QED BY <2>2, <2>3
<1>6. Max({d, t, n}) \in {d, t, n} /\ Max({d, t, n}) >= t
  BY <1>1, MaxTriple
<1>7. y \in Nat /\ (y >= x \/ y >= h)
  BY <1>1, <1>2, <1>3, <1>5, <1>6
<1> HIDE DEF y
<1>8. Max({y, Min({i, n})}) \in {y, Min({i, n})} /\ Max({y, Min({i, n})}) >= y
  <2> DEFINE z == Min({i, n})
  <2>1. z \in Int /\ y \in Int
    BY <1>1, <1>5, <1>7
  <2> HIDE DEF z
  <2>2. Max({y, z}) \in {y, z} /\ Max({y, z}) >= y
    BY <2>1, MaxPair
  <2> QED BY <2>2 DEF z
<1>9. Follow(x, k, c) \in Nat /\ Follow(x, k, c) >= y
  BY <1>1, <1>4, <1>5, <1>7, <1>8
<1>10. Follow(x, k, c) >= x \/ Follow(x, k, c) >= h
  BY <1>2, <1>7, <1>9
<1> QED BY <1>10 DEF h

\* The same for a whole tick of a pool that is not overloaded, the clamp to
\* the band included.
LEMMA TickHeadroom ==
  ASSUME CCInv, TickWrite, over = "ok", cc' < cur
  PROVE  cc' >= (conc + Abs) * Unit \/ cc' = conf.max
<1> DEFINE v == AIMD(cur, conc, over, seen, conf)
           h == (conc + Abs) * Unit
<1>1. /\ Band(conf) /\ cur \in Nat /\ conc \in Nat /\ seen \in Nat
      /\ over \in Signals \ {"none"}
  BY EffectiveType, BoundAssumption DEF CCInv, TypeOK, InTick, TickWrite
<1>2. h \in Nat
  BY <1>1, ProductMono, ScaleAssumption, FracAssumption
<1>3. v \in Nat
  BY <1>1, AIMDType
<1>4. v >= cur \/ v >= h
  <2>1. CASE seen > 0
    <3>1. v = Inc(cur)
      BY <2>1 DEF AIMD
    <3>2. Inc(cur) \in Nat /\ Inc(cur) >= cur
      BY <1>1, IncType
    <3> QED BY <3>1, <3>2
  <2>2. CASE seen = 0
    <3>1. v = Follow(cur, conc, conf)
      BY <2>2 DEF AIMD
    <3>2. Follow(cur, conc, conf) >= cur \/ Follow(cur, conc, conf) >= h
      BY <1>1, FollowHeadroom
    <3> QED BY <3>1, <3>2
  <2> QED BY <1>1, <2>1, <2>2
<1>5. cc' = Clamp(v, conf)
  BY DEF TickWrite
<1> HIDE DEF v, h
<1>6. /\ Clamp(v, conf) \in Nat
      /\ v <= conf.max => Clamp(v, conf) >= v
      /\ v >= conf.max => Clamp(v, conf) = conf.max
  BY <1>1, <1>3, ClampBand
<1>7. cc' >= h \/ cc' = conf.max
  BY <1>1, <1>2, <1>3, <1>4, <1>5, <1>6 DEF Band
<1> QED BY <1>7 DEF h

\* A write of the tick is the only step that leaves "write".
LEMMA WriteStep ==
  ASSUME CCInv, [Next]_vars, pc = "write", pc' = "idle"
  PROVE  TickWrite
  BY DEF Next, Tick, TickIdle, TickRead, TickClear, Reject, Traffic, Measure, Elapse,
         RejExpire, Reload, vars, timer

\* What a tick may do to the limit, for every accepted option: an overloaded
\* pool's limit does not grow once it is in the band, whatever was rejected
\* meanwhile, and a healthy pool's limit is lowered only as far as leaves
\* adaptive_cc_abs free slots above the requests in flight.
THEOREM TicksAreJustified == Spec => TicksJustified
<1> DEFINE A == (pc = "write" /\ pc' = "idle" /\ over = "over" /\ since = "signal")
                  => Effective(cc', conf) <= Max({Effective(cc, conf), conf.min})
           B == (pc = "write" /\ pc' = "idle" /\ over = "ok" /\ cc' < cur)
                  => cc' >= Min({(conc + Abs) * Unit, conf.max})
<1>1. CCInv /\ [Next]_vars => [A]_vars
  <2> SUFFICES ASSUME CCInv, [Next]_vars, pc = "write", pc' = "idle",
                      over = "over", since = "signal"
               PROVE  Effective(cc', conf) <= Max({Effective(cc, conf), conf.min})
    OBVIOUS
  <2>1. TickWrite
    BY WriteStep
  <2>2. cc' \in Nat /\ (cur <= conf.max => (cc' <= cur \/ cc' = conf.min))
    BY <2>1, TickWriteValue
  <2>3. cur = Effective(cc, conf) /\ cur \in Nat /\ Band(conf)
    BY EffectiveType DEF CCInv, InTick
  <2>4. cur <= conf.max
    BY <2>3 DEF CCInv, InBand, Effective, Band
  <2>5. Effective(cc', conf) = cc'
    BY <2>2, BoundAssumption DEF Effective
  <2> DEFINE m == conf.min
  <2>6. m \in Int /\ cur \in Int
    BY <2>3 DEF Band
  <2>7. Max({cur, m}) \in {cur, m} /\ Max({cur, m}) >= cur /\ Max({cur, m}) >= m
    <3> HIDE DEF m
    <3> QED BY <2>6, MaxPair
  <2> QED BY <2>2, <2>3, <2>4, <2>5, <2>6, <2>7
<1>2. CCInv /\ [Next]_vars => [B]_vars
  <2> SUFFICES ASSUME CCInv, [Next]_vars, pc = "write", pc' = "idle",
                      over = "ok", cc' < cur
               PROVE  cc' >= Min({(conc + Abs) * Unit, conf.max})
    OBVIOUS
  <2>1. TickWrite
    BY WriteStep
  <2>2. cc' \in Nat
    BY <2>1, TickWriteValue
  <2>3. cc' >= (conc + Abs) * Unit \/ cc' = conf.max
    BY <2>1, TickHeadroom
  <2>4. Band(conf) /\ conc \in Nat
    BY EffectiveType, BoundAssumption DEF CCInv, TypeOK
  <2> DEFINE h == (conc + Abs) * Unit
             m == conf.max
  <2>5. h \in Int /\ m \in Int
    BY <2>4, ProductMono, ScaleAssumption, FracAssumption DEF Band
  <2>6. Min({h, m}) \in {h, m} /\ Min({h, m}) <= h /\ Min({h, m}) <= m
    <3> HIDE DEF h, m
    <3> QED BY <2>5, MinPair
  <2>7. cc' >= h \/ cc' = m
    BY <2>3
  <2> HIDE DEF h, m
  <2>8. cc' >= Min({h, m})
    BY <2>2, <2>5, <2>6, <2>7
  <2> QED BY <2>8 DEF h, m
<1> QED BY <1>1, <1>2, InitCCInv, NextCCInv, PTL
        DEF Spec, TicksJustified, OverloadNeverGrows, HeadroomKept

(***************************************************************************)
(* The election.                                                           *)
(***************************************************************************)

LEMMA ElectionTypeStep ==
  ASSUME ElectionTypeOK, [ElectionNext]_electionVars
  PROVE  ElectionTypeOK'
<1> USE TimeAssumption, ElectionBoundAssumption
<1> DEFINE Worker(w) == Timer(w) \/ Exit(w) \/ Spawn(w) \/ Stall(w) \/ Resume(w)
<1>1. CASE UNCHANGED electionVars
  BY <1>1 DEF ElectionTypeOK, electionVars
<1>2. CASE Pass
  <2>1. wait' \in [Workers -> Nat]
    BY <1>2 DEF ElectionTypeOK, Pass
  <2>2. age' \in (0..(TTL - 1)) \cup {NoKey}
    BY <1>2 DEF ElectionTypeOK, Pass
  <2>3. gap' \in 0..MaxGap
    BY <1>2 DEF ElectionTypeOK, Pass, MaxGap
  <2> QED BY <1>2, <2>1, <2>2, <2>3 DEF ElectionTypeOK, Pass
<1>3. ASSUME NEW w \in Workers, Worker(w)
      PROVE  ElectionTypeOK'
  <2>0. 0 \in 0..MaxGap
    BY DEF MaxGap
  <2>1. ASSUME StartTimers(w), UNCHANGED <<stalled, exits, stalls>>
        PROVE  ElectionTypeOK'
    BY <2>0, <2>1 DEF ElectionTypeOK, StartTimers, States
  <2>2. CASE Start(w)
    BY <1>3, <2>1, <2>2 DEF Start
  <2>3. CASE Renew(w)
    BY <1>3, <2>3 DEF ElectionTypeOK, Renew
  <2>4. CASE CheckAndRetry(w)
    <3>1. CASE age = NoKey \/ age > 2 * RenewSec
      BY <2>1, <2>4, <3>1 DEF CheckAndRetry
    <3>2. CASE ~(age = NoKey \/ age > 2 * RenewSec)
      BY <2>4, <3>2 DEF ElectionTypeOK, CheckAndRetry
    <3> QED BY <3>1, <3>2
  <2>5. CASE Exit(w)
    BY <1>3, <2>5 DEF ElectionTypeOK, Exit, States
  <2>6. CASE Spawn(w)
    BY <1>3, <2>6 DEF ElectionTypeOK, Spawn, States
  <2>7. CASE Stall(w)
    BY <1>3, <2>7 DEF ElectionTypeOK, Stall, Running
  <2>8. CASE Resume(w)
    BY <1>3, <2>8 DEF ElectionTypeOK, Resume
  <2> QED BY <1>3, <2>2, <2>3, <2>4, <2>5, <2>6, <2>7, <2>8 DEF Timer
<1> QED BY <1>1, <1>2, <1>3 DEF ElectionNext

LEMMA ElectionTypeInit == ElectionInit => ElectionTypeOK
  BY TimeAssumption, ElectionBoundAssumption DEF ElectionInit, ElectionTypeOK, States, MaxGap

\* ElectionTypeOK is invariant: the entry is gone once it is TTL old, and timers only
\* count down, whatever exits, restarts and stalls happen.
THEOREM ElectionTypeCorrect == ElectionSpec => []ElectionTypeOK
  BY ElectionTypeInit, ElectionTypeStep, PTL DEF ElectionSpec
-----------------------------------------------------------------------------
(***************************************************************************)
(* The lease argument.  While nobody has stalled, an owner always renews   *)
(* before time passes: its entry exists and is exactly as old as the part  *)
(* of the period that has elapsed, well below TTL.  lock:add therefore     *)
(* fails for everybody else.                                               *)
(***************************************************************************)
LeaseHeld ==
  \A w \in Workers : state[w] = "owner" =>
    /\ age \in Nat
    /\ age + wait[w] = RenewSec

OneOwnerNow == \A v, w \in Owners : v = w

Lease == stalled = {} /\ LeaseHeld /\ OneOwnerNow

LInv == ElectionTypeOK /\ (stalls = 0 => Lease)

LEMMA LeaseInit == ElectionInit => LInv
  BY ElectionTypeInit DEF ElectionInit, LInv, Lease, LeaseHeld, OneOwnerNow, Owners

LEMMA LeaseStep ==
  ASSUME ElectionTypeOK, Lease, [ElectionNext]_electionVars, stalls' = 0
  PROVE  Lease'
<1> USE TimeAssumption, ElectionBoundAssumption
<1>0. ElectionTypeOK /\ ElectionTypeOK'
  BY ElectionTypeStep
<1> DEFINE Worker(w) == Timer(w) \/ Exit(w) \/ Spawn(w) \/ Stall(w) \/ Resume(w)
<1>1. CASE UNCHANGED electionVars
  BY <1>0, <1>1 DEF Lease, LeaseHeld, OneOwnerNow, Owners, electionVars
<1>2. CASE Pass
  <2>1. ASSUME NEW w \in Workers, state[w] = "owner"
        PROVE  age' \in Nat /\ age' + wait'[w] = RenewSec
    <3>1. wait[w] # 0
      BY <1>2, <2>1 DEF Pass, Due, Running, Lease
    <3>2. age \in Nat /\ age + wait[w] = RenewSec /\ wait[w] \in Nat
      BY <1>0, <2>1 DEF Lease, LeaseHeld, ElectionTypeOK
    <3>3. age' = age + 1
      BY <1>2, <3>1, <3>2 DEF Pass
    <3>4. wait'[w] = wait[w] - 1
      BY <1>2, <3>1 DEF Pass
    <3> QED BY <3>1, <3>2, <3>3, <3>4
  <2>2. LeaseHeld'
    BY <1>2, <2>1 DEF LeaseHeld, Pass
  <2> QED BY <1>0, <1>2, <2>2 DEF Lease, Pass, OneOwnerNow, Owners
<1>3. ASSUME NEW w \in Workers, Worker(w)
      PROVE  Lease'
  <2>1. ASSUME StartTimers(w), state[w] # "owner", UNCHANGED <<stalled, exits, stalls>>
        PROVE  Lease'
    <3>1. CASE age = NoKey
      <4>1. \A v \in Workers : state[v] # "owner"
        BY <3>1 DEF Lease, LeaseHeld
      <4> QED BY <1>0, <2>1, <3>1, <4>1
             DEF Lease, LeaseHeld, OneOwnerNow, Owners, StartTimers, ElectionTypeOK
    <3>2. CASE age # NoKey
      BY <1>0, <2>1, <3>2 DEF Lease, LeaseHeld, OneOwnerNow, Owners, StartTimers, ElectionTypeOK
    <3> QED BY <3>1, <3>2
  <2>2. CASE Start(w)
    BY <1>3, <2>1, <2>2 DEF Start
  <2>3. CASE Renew(w)
    <3>1. \A v \in Workers : state[v] = "owner" => v = w
      BY <1>3, <2>3 DEF Lease, OneOwnerNow, Owners, Renew
    <3> QED BY <1>0, <1>3, <2>3, <3>1
           DEF Lease, LeaseHeld, OneOwnerNow, Owners, Renew, ElectionTypeOK
  <2>4. CASE CheckAndRetry(w)
    <3>1. CASE age = NoKey \/ age > 2 * RenewSec
      BY <2>1, <2>4, <3>1 DEF CheckAndRetry
    <3>2. CASE ~(age = NoKey \/ age > 2 * RenewSec)
      BY <1>0, <1>3, <2>4, <3>2
      DEF Lease, LeaseHeld, OneOwnerNow, Owners, CheckAndRetry, ElectionTypeOK
    <3> QED BY <3>1, <3>2
  <2>5. CASE Exit(w)
    BY <1>0, <1>3, <2>5 DEF Lease, LeaseHeld, OneOwnerNow, Owners, Exit, ElectionTypeOK
  <2>6. CASE Spawn(w)
    BY <1>0, <1>3, <2>6 DEF Lease, LeaseHeld, OneOwnerNow, Owners, Spawn, ElectionTypeOK
  <2>7. CASE Stall(w)
    BY <1>0, <2>7 DEF Stall, ElectionTypeOK
  <2>8. CASE Resume(w)
    BY <2>8 DEF Lease, Resume
  <2> QED BY <1>3, <2>2, <2>3, <2>4, <2>5, <2>6, <2>7, <2>8 DEF Timer
<1> QED BY <1>1, <1>2, <1>3 DEF ElectionNext

\* At most one worker runs a route's timers until an event loop stalls, for
\* any number of workers, exits and restarts and any periods with
\* 2 * RenewSec < TTL.  After a stall it can be false: renew writes the entry
\* without looking at it.
THEOREM OneOwner == ElectionSpec => []AtMostOneOwner
<1>1. ElectionInit => LInv
  BY LeaseInit
<1>2. LInv /\ [ElectionNext]_electionVars => LInv'
  <2> SUFFICES ASSUME LInv, [ElectionNext]_electionVars
               PROVE  LInv'
    OBVIOUS
  <2>1. ElectionTypeOK'
    BY ElectionTypeStep DEF LInv
  <2>2. stalls' = 0 => stalls = 0
    <3>1. stalls \in Nat
      BY ElectionBoundAssumption DEF LInv, ElectionTypeOK
    <3>2. stalls' = stalls \/ stalls' = stalls + 1
      BY DEF ElectionNext, electionVars, Timer, Start, Renew, CheckAndRetry, Pass, Exit, Spawn, Stall, Resume
    <3> QED BY <3>1, <3>2
  <2> QED BY <2>1, <2>2, LeaseStep DEF LInv
<1>3. LInv => AtMostOneOwner
  BY DEF LInv, Lease, OneOwnerNow, AtMostOneOwner
<1> QED BY <1>1, <1>2, <1>3, PTL DEF ElectionSpec
-----------------------------------------------------------------------------
(***************************************************************************)
(* The takeover argument.  As long as the entry exists, nobody has been    *)
(* missing longer than the entry is old.  Once it has expired, every       *)
(* worker that waits (a stalled one too) looks again before the bound is   *)
(* reached, and the first that is served becomes the owner.                *)
(***************************************************************************)
Waiting == {w \in Workers : state[w] = "waiting"}

NoGapWithOwner == Owners # {} => gap = 0
ChecksSoon     == \A w \in Waiting : wait[w] <= RetrySec
GapBelowAge    == age # NoKey => gap <= age
ChecksInTime   == age = NoKey => \A w \in Waiting : gap + wait[w] <= TTL + RetrySec

GInv == ElectionTypeOK /\ NoGapWithOwner /\ ChecksSoon /\ GapBelowAge /\ ChecksInTime /\ TakeoverInTime

LEMMA GapInit == ElectionInit => GInv
  BY ElectionTypeInit, TimeAssumption, ElectionBoundAssumption
  DEF ElectionInit, GInv, NoGapWithOwner, ChecksSoon, GapBelowAge, ChecksInTime, TakeoverInTime,
      Waiting, Owners

\* Time passes: the entry and the gap grow together, or a worker that is not
\* due yet has time left.
LEMMA GapPass ==
  ASSUME GInv, Pass, ElectionTypeOK'
  PROVE  GInv'
<1> USE TimeAssumption, ElectionBoundAssumption
<1>0. /\ gap \in Nat /\ gap <= TTL + RetrySec
      /\ age = NoKey \/ (age \in Nat /\ age < TTL)
      /\ wait \in [Workers -> Nat] /\ state' = state
      /\ gap' \in Nat
  BY DEF GInv, ElectionTypeOK, Pass, MaxGap, TakeoverInTime
<1>w. ASSUME NEW w \in Workers
      PROVE  wait'[w] = IF wait[w] = 0 THEN 0 ELSE wait[w] - 1
  BY <1>w DEF Pass
<1>1. NoGapWithOwner'
  BY DEF NoGapWithOwner, Owners, Pass
<1>2. ChecksSoon'
  BY <1>0, <1>w DEF GInv, ChecksSoon, Waiting
<1>3. CASE Owners # {} \/ Running = {}
  <2>1. gap' = 0
    BY <1>3 DEF Pass
  <2>2. GapBelowAge'
    BY <1>0, <2>1 DEF Pass, GapBelowAge
  <2>3. ChecksInTime'
    BY <1>0, <1>2, <2>1 DEF ChecksSoon, ChecksInTime, Waiting, ElectionTypeOK
  <2> QED BY <1>1, <1>2, <2>1, <2>2, <2>3 DEF GInv, TakeoverInTime
<1>4. CASE ~(Owners # {} \/ Running = {})
  <2>1. gap' = gap + 1
    BY <1>0, <1>4 DEF Pass, MaxGap
  <2>2. CASE age # NoKey /\ age + 1 < TTL
    <3>1. age' = age + 1
      BY <1>0, <2>2 DEF Pass
    <3>2. gap <= age
      BY <2>2 DEF GInv, GapBelowAge
    <3>3. age' # NoKey /\ gap' <= age' /\ gap' <= TTL + RetrySec
      BY <1>0, <2>1, <2>2, <3>1, <3>2
    <3> QED BY <1>1, <1>2, <3>3 DEF GInv, GapBelowAge, ChecksInTime, TakeoverInTime
  <2>3. CASE age # NoKey /\ ~(age + 1 < TTL)
    <3>1. age' = NoKey
      BY <1>0, <2>3 DEF Pass
    <3>2. gap' <= TTL
      BY <1>0, <2>1, <2>3 DEF GInv, GapBelowAge
    <3>3. ChecksInTime'
      BY <1>0, <1>2, <1>w, <3>2 DEF ChecksSoon, ChecksInTime, Waiting
    <3> QED BY <1>0, <1>1, <1>2, <3>1, <3>2, <3>3 DEF GInv, GapBelowAge, TakeoverInTime
  <2>4. CASE age = NoKey
    <3>1. age' = NoKey
      BY <2>4 DEF Pass
    <3>2. PICK w \in Workers : w \in Running
      BY <1>4 DEF Running
    <3>3. state[w] = "waiting" /\ wait[w] # 0
      BY <1>4, <3>2 DEF Pass, Due, Running, Owners, GInv, ElectionTypeOK, States
    <3>4. gap + 1 <= TTL + RetrySec
      BY <1>0, <2>4, <3>2, <3>3 DEF GInv, ChecksInTime, Waiting
    <3>5. ASSUME NEW v \in Workers, state[v] = "waiting"
          PROVE  gap' + wait'[v] <= TTL + RetrySec
      <4>1. gap + wait[v] <= TTL + RetrySec
        BY <2>4, <3>5 DEF GInv, ChecksInTime, Waiting
      <4> QED BY <1>0, <1>w, <2>1, <3>4, <4>1
    <3>6. ChecksInTime'
      BY <1>0, <3>5 DEF ChecksInTime, Waiting
    <3> QED BY <1>1, <1>2, <2>1, <3>1, <3>4, <3>6 DEF GInv, GapBelowAge, TakeoverInTime
  <2> QED BY <2>2, <2>3, <2>4
<1> QED BY <1>3, <1>4

LEMMA GapStart ==
  ASSUME GInv, NEW w \in Workers, StartTimers(w), ElectionTypeOK'
  PROVE  GInv'
<1> USE TimeAssumption, ElectionBoundAssumption
<1>1. CASE age = NoKey
  <2>1. age' = 0 /\ gap' = 0 /\ age' # NoKey
    BY <1>1 DEF StartTimers
  <2>2. ChecksSoon'
    BY <1>1 DEF StartTimers, GInv, ChecksSoon, Waiting, ElectionTypeOK
  <2> QED BY <2>1, <2>2 DEF GInv, NoGapWithOwner, GapBelowAge, ChecksInTime, TakeoverInTime
<1>2. CASE age # NoKey
  <2>1. age' = age /\ gap' = gap
    BY <1>2 DEF StartTimers
  <2>2. ChecksSoon'
    BY <1>2 DEF StartTimers, GInv, ChecksSoon, Waiting, ElectionTypeOK
  <2>3. Owners' \subseteq Owners
    BY <1>2 DEF StartTimers, Owners, GInv, ElectionTypeOK
  <2> QED BY <1>2, <2>1, <2>2, <2>3
          DEF GInv, NoGapWithOwner, GapBelowAge, ChecksInTime, TakeoverInTime
<1> QED BY <1>1, <1>2

LEMMA GapStep ==
  ASSUME GInv, [ElectionNext]_electionVars
  PROVE  GInv'
<1> USE TimeAssumption, ElectionBoundAssumption
<1>0. ElectionTypeOK /\ ElectionTypeOK'
  BY ElectionTypeStep DEF GInv
<1> DEFINE Worker(w) == Timer(w) \/ Exit(w) \/ Spawn(w) \/ Stall(w) \/ Resume(w)
<1>1. CASE UNCHANGED electionVars
  BY <1>0, <1>1 DEF GInv, NoGapWithOwner, ChecksSoon, GapBelowAge, ChecksInTime,
                    TakeoverInTime, Waiting, Owners, electionVars
<1>2. CASE Pass
  BY <1>0, <1>2, GapPass
<1>3. ASSUME NEW w \in Workers, Worker(w)
      PROVE  GInv'
  <2>2. CASE Start(w)
    BY <1>0, <1>3, <2>2, GapStart DEF Start
  <2>3. CASE Renew(w)
    <3>1. gap = 0 /\ gap' = 0 /\ age' = 0 /\ state' = state
      BY <1>3, <2>3 DEF Renew, GInv, NoGapWithOwner, Owners
    <3>2. ChecksSoon'
      BY <1>0, <1>3, <2>3 DEF Renew, GInv, ChecksSoon, Waiting, ElectionTypeOK
    <3> QED BY <1>0, <3>1, <3>2
            DEF GInv, NoGapWithOwner, GapBelowAge, ChecksInTime, TakeoverInTime
  <2>4. CASE CheckAndRetry(w)
    <3>1. CASE age = NoKey \/ age > 2 * RenewSec
      BY <1>0, <1>3, <2>4, <3>1, GapStart DEF CheckAndRetry
    <3>2. CASE ~(age = NoKey \/ age > 2 * RenewSec)
      <4>1. age' = age /\ gap' = gap /\ state' = state /\ age # NoKey
        BY <2>4, <3>2 DEF CheckAndRetry
      <4>2. ChecksSoon'
        BY <1>0, <1>3, <2>4, <3>2 DEF CheckAndRetry, GInv, ChecksSoon, Waiting, ElectionTypeOK
      <4> QED BY <1>0, <4>1, <4>2
              DEF GInv, NoGapWithOwner, GapBelowAge, ChecksInTime, TakeoverInTime, Owners
    <3> QED BY <3>1, <3>2
  <2>5. ASSUME Exit(w) \/ Spawn(w) \/ Stall(w) \/ Resume(w)
        PROVE  GInv'
    <3>1. age' = age /\ gap' = gap
      BY <2>5 DEF Exit, Spawn, Stall, Resume
    <3>2. Owners' \subseteq Owners
      BY <1>0, <1>3, <2>5 DEF Exit, Spawn, Stall, Resume, Owners, ElectionTypeOK
    <3>3. \A v \in Workers : v \in Waiting' => v \in Waiting /\ wait'[v] = wait[v]
      BY <1>0, <1>3, <2>5 DEF Exit, Spawn, Stall, Resume, Waiting, ElectionTypeOK
    <3>4. Waiting' \subseteq Workers
      BY DEF Waiting
    <3> QED BY <1>0, <3>1, <3>2, <3>3, <3>4
            DEF GInv, NoGapWithOwner, ChecksSoon, GapBelowAge, ChecksInTime, TakeoverInTime
  <2> QED BY <1>3, <2>2, <2>3, <2>4, <2>5 DEF Timer
<1> QED BY <1>1, <1>2, <1>3 DEF ElectionNext

\* A route is without an owner for at most TTL + RetrySec while any worker
\* runs: an owner that died (route.lua: its entry stays until it expires) is
\* replaced in time, whatever exits, restarts and stalls there are.
THEOREM Takeover == ElectionSpec => []TakeoverInTime
<1>1. GInv => TakeoverInTime
  BY DEF GInv
<1> QED BY GapInit, GapStep, <1>1, PTL DEF ElectionSpec
=============================================================================
