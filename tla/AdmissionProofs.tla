-------------------------- MODULE AdmissionProofs --------------------------
(***************************************************************************)
(* Proofs about Admission, for any number of workers, requests and peers.  *)
(***************************************************************************)
EXTENDS Admission, FiniteSetTheorems, FunctionTheorems, TLAPS

(***************************************************************************)
(* What the place a handler has reached says about its variables.  TypeOK  *)
(* is not inductive without it: a counter is addressed by chosen, key,     *)
(* clamp, cursor or an index into fb, and only Phases knows that each of   *)
(* them names a peer when it is used.                                      *)
(***************************************************************************)
PhaseOf(r) ==
  /\ pc[r] \notin {"gate", "done"} => cursor[r] <= NPeers
  /\ pc[r] \in {"incr", "proxy", "clampRetry", "retry", "log501"} =>
       chosen[r] \in Peers
  /\ pc[r] = "proxy" => key[r] \in Peers
  /\ key[r] # NoPeer => pc[r] \in {"proxy", "log", "log501"}
  /\ pc[r] \in {"clampRetry", "retry"} => attempt[r] < MoreTries(r)
  /\ pc[r] \in {"clampRetry", "clampLog"} => clamp[r] \in Peers
  /\ pc[r] \in {"sum", "gate"} => healthy[r] # {}
Phases == \A r \in Requests : PhaseOf(r)

IInv == TypeOK /\ Phases

-----------------------------------------------------------------------------
(***************************************************************************)
(* Facts about the operators.                                              *)
(***************************************************************************)
LEMMA PeersFinite == IsFiniteSet(Peers)
  BY FS_Interval, SetsAssumption DEF Peers

\* Min of a pair, as do_balancer uses it to index the fallback list.
LEMMA MinPair ==
  ASSUME NEW a \in Int, NEW b \in Int
  PROVE  /\ Min({a, b}) \in {a, b}
         /\ Min({a, b}) <= a
         /\ Min({a, b}) <= b
<1>1. \E x \in {a, b} : \A y \in {a, b} : x <= y
  BY SMT
<1>2. /\ Min({a, b}) \in {a, b}
      /\ \A y \in {a, b} : Min({a, b}) <= y
  BY <1>1 DEF Min
<1> QED BY <1>2

\* Induction over finite sets: a family of subsets of a finite set has a
\* smallest member.
LEMMA SmallestSet ==
  ASSUME NEW S, IsFiniteSet(S), NEW Bad, Bad \subseteq SUBSET S, Bad # {}
  PROVE  \E T \in Bad : \A U \in Bad : U \subseteq T => U = T
<1>1. IsWellFoundedOn(StrictSubsetOrdering(S), SUBSET S)
  BY FS_StrictSubsetOrderingWellFounded, FS_FiniteSubsetsOfFinite
<1>2. PICK T \in Bad : \A U \in Bad : ~ (<<U, T>> \in StrictSubsetOrdering(S))
  BY <1>1, WFMin
<1>3. ASSUME NEW U \in Bad, U \subseteq T PROVE U = T
  BY <1>2, <1>3 DEF StrictSubsetOrdering
<1> QED BY <1>3

HasMax(T) == \E m \in T : \A y \in T : m >= y

\* A finite set of numbers has a greatest element: a smallest set without
\* one would still lack it after losing an element.
LEMMA Greatest ==
  ASSUME NEW S, IsFiniteSet(S)
  PROVE  (S \subseteq Int /\ S # {}) => \E m \in S : \A y \in S : m >= y
<1> DEFINE Bad == {T \in SUBSET S : T # {} /\ ~HasMax(T)}
<1>1. Bad # {} => \E T \in Bad : \A Y \in Bad : Y \subseteq T => Y = T
  <2>1. Bad \subseteq SUBSET S
    OBVIOUS
  <2> HIDE DEF Bad
  <2> QED BY <2>1, SmallestSet
<1>2. SUFFICES ASSUME S \subseteq Int, Bad # {} PROVE FALSE
  BY DEF HasMax
<1>3. PICK T \in Bad : \A Y \in Bad : Y \subseteq T => Y = T
  BY <1>1, <1>2
<1>4. T \subseteq S /\ T # {} /\ ~HasMax(T)
  BY <1>3
<1>5. PICK x \in T : TRUE
  BY <1>4
<1>6. T \ {x} \notin Bad
  BY <1>3, <1>5
<1>7. T \ {x} = {} \/ HasMax(T \ {x})
  BY <1>4, <1>6
<1>8. T \subseteq Int /\ x \in Int
  BY <1>2, <1>4, <1>5
<1> QED BY <1>4, <1>5, <1>7, <1>8 DEF HasMax

LEMMA LevelSubset ==
  ASSUME NEW H \in SUBSET Peers, NEW l
  PROVE  Level(H, l) \subseteq H
  BY DEF Level

\* Every fallback list of do_route is a sequence of healthy peers.
LEMMA FallbackType ==
  ASSUME NEW H \in SUBSET Peers, NEW p, NEW s \in FallbackLists(H, p)
  PROVE  s \in Seq(Peers)
<1>1. PICK K \in FallbackMembers(H, p) : s \in Injection(1..Cardinality(K), K)
  BY DEF FallbackLists
<1>2. K \subseteq Peers
  <2>1. K \subseteq (IF CrossTier THEN H ELSE HealthyPeers(H)) \ {p}
    BY <1>1 DEF FallbackMembers
  <2> QED BY <2>1, LevelSubset DEF HealthyPeers
<1>3. Cardinality(K) \in Nat
  BY <1>2, PeersFinite, FS_Subset, FS_CardinalityType
<1>4. s \in [1..Cardinality(K) -> Peers]
  BY <1>1, <1>2 DEF Injection
<1> QED BY <1>3, <1>4

LEMMA MoreTriesType ==
  ASSUME TypeOK, NEW r \in Requests
  PROVE  MoreTries(r) \in Nat /\ MoreTries(r) <= MaxMoreTries /\ MoreTries(r) <= Len(fb[r])
  BY RouteAssumption DEF TypeOK, MoreTries

-----------------------------------------------------------------------------
(***************************************************************************)
(* Sums over the peers.  SumFunctionOnSet takes the elements of a set in   *)
(* an unspecified order; what it returns does not depend on it.            *)
(***************************************************************************)
\* The element the fold takes next, and the function it is computed by.
Pick(s) == CHOOSE x \in s : TRUE
Rec(g, T, f) ==
  g = [s \in SUBSET T |-> IF s = {} THEN 0 ELSE f[Pick(s)] + g[s \ {Pick(s)}]]

\* Two such functions agree on the finite sets both are defined for.
LEMMA SumUnique ==
  ASSUME NEW f, NEW T, NEW U, NEW g, NEW h, Rec(g, T, f), Rec(h, U, f),
         NEW V, V \subseteq T, V \subseteq U, IsFiniteSet(V)
  PROVE  g[V] = h[V]
<1> DEFINE Bad == {W \in SUBSET V : g[W] # h[W]}
<1>1. SUFFICES ASSUME Bad # {} PROVE FALSE
  OBVIOUS
<1>2. PICK W \in Bad : \A Y \in Bad : Y \subseteq W => Y = W
  <2>1. Bad \subseteq SUBSET V
    OBVIOUS
  <2> HIDE DEF Bad
  <2> QED BY <1>1, <2>1, SmallestSet
<1>3. W \subseteq V /\ IsFiniteSet(W) /\ g[W] # h[W] /\ W \in SUBSET T /\ W \in SUBSET U
  BY <1>2, FS_Subset
<1> DEFINE x == Pick(W)
<1>4. g[W] = IF W = {} THEN 0 ELSE f[x] + g[W \ {x}]
  BY <1>3 DEF Rec
<1>5. h[W] = IF W = {} THEN 0 ELSE f[x] + h[W \ {x}]
  BY <1>3 DEF Rec
<1>6. W # {} /\ x \in W
  BY <1>3, <1>4, <1>5 DEF Pick
<1> HIDE DEF x
<1>7. IsFiniteSet(W \ {x}) /\ W \ {x} \subseteq V
  BY <1>3, FS_RemoveElement
<1>8. W \ {x} \notin Bad
  BY <1>2, <1>3, <1>6, <1>7
<1>9. g[W \ {x}] = h[W \ {x}]
  BY <1>7, <1>8
<1> QED BY <1>3, <1>4, <1>5, <1>9

LEMMA SumExists ==
  ASSUME NEW f, NEW S, IsFiniteSet(S)
  PROVE  \E g : Rec(g, S, f)
<1> DEFINE Bad == {T \in SUBSET S : ~ \E g : Rec(g, T, f)}
<1>1. SUFFICES ASSUME Bad # {} PROVE FALSE
  OBVIOUS
<1>2. PICK T \in Bad : \A Y \in Bad : Y \subseteq T => Y = T
  <2>1. Bad \subseteq SUBSET S
    OBVIOUS
  <2> HIDE DEF Bad
  <2> QED BY <1>1, <2>1, SmallestSet
<1>3. T \subseteq S /\ IsFiniteSet(T) /\ ~ \E g : Rec(g, T, f)
  BY <1>2, FS_Subset
<1> DEFINE G(U) == CHOOSE g : Rec(g, U, f)
<1>4. ASSUME NEW U, U \subseteq T, U # T
      PROVE  Rec(G(U), U, f)
  <2>1. IsFiniteSet(U) /\ U \subseteq S
    BY <1>3, <1>4, FS_Subset
  <2>2. U \notin Bad
    BY <1>2, <1>3, <1>4, <2>1
  <2>3. \E g : Rec(g, U, f)
    BY <2>1, <2>2
  <2> QED BY <2>3
<1> DEFINE Sub(s) == s \ {Pick(s)}
           val(s) == IF s = {} THEN 0 ELSE f[Pick(s)] + G(Sub(s))[Sub(s)]
           g == [s \in SUBSET T |-> val(s)]
<1> HIDE DEF G
<1>5. ASSUME NEW s \in SUBSET T, s # {}
      PROVE  g[Sub(s)] = G(Sub(s))[Sub(s)]
  <2> DEFINE u == Sub(s)
  <2>1. u \subseteq T /\ u # T /\ Pick(s) \in s
    BY <1>5 DEF Pick
  <2>2. g[u] = val(u)
    BY <2>1
  <2>3. Rec(G(u), u, f)
    BY <1>4, <2>1
  <2> HIDE DEF u
  <2>4. G(u)[u] = IF u = {} THEN 0 ELSE f[Pick(u)] + G(u)[Sub(u)]
    <3>1. u \in SUBSET u
      OBVIOUS
    <3> QED BY <2>3, <3>1 DEF Rec
  <2>5. CASE u = {}
    BY <2>2, <2>4, <2>5 DEF u
  <2>6. CASE u # {}
    <3>1. Sub(u) \subseteq T /\ Sub(u) # T /\ Sub(u) \subseteq u /\ IsFiniteSet(Sub(u))
      <4>1. Sub(u) \subseteq T /\ Sub(u) # T /\ Sub(u) \subseteq u
        BY <2>1
      <4> QED BY <1>3, <4>1, FS_Subset
    <3>2. Rec(G(Sub(u)), Sub(u), f)
      BY <1>4, <3>1
    <3>3. G(u)[Sub(u)] = G(Sub(u))[Sub(u)]
      <4> DEFINE v == Sub(u)
      <4> HIDE DEF v
      <4>1. Rec(G(v), v, f) /\ v \subseteq u /\ IsFiniteSet(v)
        BY <3>1, <3>2 DEF v
      <4>2. G(u)[v] = G(v)[v]
        BY <2>3, <4>1, SumUnique
      <4> QED BY <4>2 DEF v
    <3> QED BY <2>2, <2>4, <2>6, <3>3 DEF u
  <2> QED BY <2>5, <2>6
<1>6. ASSUME NEW s \in SUBSET T
      PROVE  val(s) = IF s = {} THEN 0 ELSE f[Pick(s)] + g[s \ {Pick(s)}]
  BY <1>5
<1>7. g = [s \in SUBSET T |-> IF s = {} THEN 0 ELSE f[Pick(s)] + g[s \ {Pick(s)}]]
  <2> HIDE DEF val
  <2> DEFINE w(s) == IF s = {} THEN 0 ELSE f[Pick(s)] + g[s \ {Pick(s)}]
  <2>1. \A s \in SUBSET T : val(s) = w(s)
    BY <1>6
  <2> HIDE DEF w
  <2>2. [s \in SUBSET T |-> val(s)] = [s \in SUBSET T |-> w(s)]
    BY <2>1
  <2> QED BY <2>2 DEF w
<1>8. Rec(g, T, f)
  BY <1>7 DEF Rec
<1> QED BY <1>3, <1>8

LEMMA SumUnfold ==
  ASSUME NEW f, NEW S, IsFiniteSet(S)
  PROVE  \E g : Rec(g, S, f) /\ SumFunctionOnSet(f, S) = g[S]
<1> DEFINE G == CHOOSE g : Rec(g, S, f)
<1>1. Rec(G, S, f)
  BY SumExists
<1>2. SumFunctionOnSet(f, S) = G[S]
  BY DEF SumFunctionOnSet, FoldFunctionOnSet, MapThenFoldSet, Rec, Pick
<1> QED BY <1>1, <1>2

\* The sum of f over S.
LEMMA SumStep ==
  ASSUME NEW f, NEW S, IsFiniteSet(S)
  PROVE  SumFunctionOnSet(f, S) =
           IF S = {} THEN 0
           ELSE f[Pick(S)] + SumFunctionOnSet(f, S \ {Pick(S)})
<1> DEFINE T == S \ {Pick(S)}
<1>1. PICK g : Rec(g, S, f) /\ SumFunctionOnSet(f, S) = g[S]
  BY SumUnfold
<1>2. g[S] = IF S = {} THEN 0 ELSE f[Pick(S)] + g[T]
  <2>1. S \in SUBSET S
    OBVIOUS
  <2> QED BY <1>1, <2>1 DEF Rec
<1>3. IsFiniteSet(T) /\ T \subseteq S
  BY FS_Subset
<1> HIDE DEF T
<1>4. PICK h : Rec(h, T, f) /\ SumFunctionOnSet(f, T) = h[T]
  BY <1>3, SumUnfold
<1>5. g[T] = h[T]
  BY <1>1, <1>3, <1>4, SumUnique
<1> QED BY <1>1, <1>2, <1>4, <1>5 DEF T

LEMMA SumType ==
  ASSUME NEW f, NEW S, IsFiniteSet(S), \A x \in S : f[x] \in Int
  PROVE  SumFunctionOnSet(f, S) \in Int
<1> DEFINE Bad == {T \in SUBSET S : SumFunctionOnSet(f, T) \notin Int}
<1>1. SUFFICES ASSUME Bad # {} PROVE FALSE
  OBVIOUS
<1>2. PICK T \in Bad : \A Y \in Bad : Y \subseteq T => Y = T
  <2>1. Bad \subseteq SUBSET S
    OBVIOUS
  <2> HIDE DEF Bad
  <2> QED BY <1>1, <2>1, SmallestSet
<1>3. T \subseteq S /\ IsFiniteSet(T) /\ SumFunctionOnSet(f, T) \notin Int
  BY <1>2, FS_Subset
<1>4. T # {}
  <2>1. SumFunctionOnSet(f, {}) = 0
    BY SumStep, FS_EmptySet
  <2> QED BY <1>3, <2>1
<1> DEFINE x == Pick(T)
<1>5. x \in T /\ SumFunctionOnSet(f, T) = f[x] + SumFunctionOnSet(f, T \ {x})
  BY <1>3, <1>4, SumStep DEF Pick
<1> HIDE DEF x
<1>6. IsFiniteSet(T \ {x}) /\ T \ {x} \subseteq S
  BY <1>3, FS_RemoveElement
<1>7. T \ {x} \notin Bad
  BY <1>2, <1>3, <1>5, <1>6
<1>8. SumFunctionOnSet(f, T \ {x}) \in Int
  BY <1>6, <1>7
<1> QED BY <1>3, <1>5, <1>8

\* The order in which the elements are taken does not matter.
LEMMA SumRemove ==
  ASSUME NEW f, NEW S, IsFiniteSet(S), \A y \in S : f[y] \in Int, NEW x \in S
  PROVE  SumFunctionOnSet(f, S) = f[x] + SumFunctionOnSet(f, S \ {x})
<1> DEFINE Sum(T) == SumFunctionOnSet(f, T)
           Bad == {T \in SUBSET S : \E y \in T : Sum(T) # f[y] + Sum(T \ {y})}
<1>1. SUFFICES ASSUME Bad # {} PROVE FALSE
  OBVIOUS
<1>2. PICK T \in Bad : \A Y \in Bad : Y \subseteq T => Y = T
  <2>1. Bad \subseteq SUBSET S
    OBVIOUS
  <2> HIDE DEF Bad
  <2> QED BY <1>1, <2>1, SmallestSet
<1>3. T \subseteq S /\ IsFiniteSet(T)
  BY <1>2, FS_Subset
<1>4. PICK y \in T : Sum(T) # f[y] + Sum(T \ {y})
  BY <1>2
<1> DEFINE c == Pick(T)
<1>5. c \in T /\ Sum(T) = f[c] + Sum(T \ {c})
  BY <1>3, <1>4, SumStep DEF Pick
<1> HIDE DEF c, Sum
<1>6. c # y
  BY <1>4, <1>5
<1>7. ASSUME NEW U, U \subseteq T, U # T, NEW z \in U
      PROVE  Sum(U) = f[z] + Sum(U \ {z})
  <2>1. IsFiniteSet(U) /\ U \subseteq S
    BY <1>3, <1>7, FS_Subset
  <2>2. U \notin Bad
    BY <1>2, <1>3, <1>7, <2>1
  <2> QED BY <1>7, <2>1, <2>2
<1> DEFINE R == T \ {c, y}
<1>8. /\ (T \ {c}) \ {y} = R /\ (T \ {y}) \ {c} = R
      /\ T \ {c} \subseteq T /\ T \ {c} # T /\ y \in T \ {c}
      /\ T \ {y} \subseteq T /\ T \ {y} # T /\ c \in T \ {y}
  BY <1>4, <1>5, <1>6
<1>9. Sum(T \ {c}) = f[y] + Sum(R)
  <2>1. Sum(T \ {c}) = f[y] + Sum((T \ {c}) \ {y})
    BY <1>7, <1>8
  <2> QED BY <1>8, <2>1
<1>10. Sum(T \ {y}) = f[c] + Sum(R)
  <2>1. Sum(T \ {y}) = f[c] + Sum((T \ {y}) \ {c})
    BY <1>7, <1>8
  <2> QED BY <1>8, <2>1
<1>11. f[c] \in Int /\ f[y] \in Int /\ Sum(R) \in Int
  <2>1. IsFiniteSet(R) /\ \A z \in R : f[z] \in Int
    BY <1>3, FS_Subset
  <2> QED BY <1>3, <1>4, <1>5, <2>1, SumType DEF Sum
<1> QED BY <1>4, <1>5, <1>9, <1>10, <1>11

\* Functions that agree on a finite set have the same sum over it.
LEMMA SumAgrees ==
  ASSUME NEW f, NEW g, NEW S, IsFiniteSet(S), \A x \in S : f[x] = g[x]
  PROVE  SumFunctionOnSet(f, S) = SumFunctionOnSet(g, S)
<1> DEFINE Bad == {T \in SUBSET S : SumFunctionOnSet(f, T) # SumFunctionOnSet(g, T)}
<1>1. SUFFICES ASSUME Bad # {} PROVE FALSE
  OBVIOUS
<1>2. PICK T \in Bad : \A Y \in Bad : Y \subseteq T => Y = T
  <2>1. Bad \subseteq SUBSET S
    OBVIOUS
  <2> HIDE DEF Bad
  <2> QED BY <1>1, <2>1, SmallestSet
<1>3. T \subseteq S /\ IsFiniteSet(T)
  BY <1>2, FS_Subset
<1> DEFINE x == Pick(T)
<1>4. /\ SumFunctionOnSet(f, T) = IF T = {} THEN 0 ELSE f[x] + SumFunctionOnSet(f, T \ {x})
      /\ SumFunctionOnSet(g, T) = IF T = {} THEN 0 ELSE g[x] + SumFunctionOnSet(g, T \ {x})
  BY <1>3, SumStep
<1>5. T # {}
  BY <1>2, <1>4
<1>6. x \in T /\ f[x] = g[x]
  BY <1>3, <1>5 DEF Pick
<1> HIDE DEF x
<1>7. T \ {x} \notin Bad
  BY <1>2, <1>3, <1>6
<1>8. SumFunctionOnSet(f, T \ {x}) = SumFunctionOnSet(g, T \ {x})
  BY <1>3, <1>7
<1> QED BY <1>2, <1>4, <1>5, <1>6, <1>8

\* One counter changes: every sum it is in changes by as much.
LEMMA SumChange ==
  ASSUME NEW f \in [Peers -> Int], NEW g \in [Peers -> Int], NEW k \in Peers,
         \A x \in Peers \ {k} : g[x] = f[x], NEW S \in SUBSET Peers
  PROVE  /\ SumFunctionOnSet(f, S) \in Int /\ SumFunctionOnSet(g, S) \in Int
         /\ k \notin S => SumFunctionOnSet(g, S) = SumFunctionOnSet(f, S)
         /\ k \in S => SumFunctionOnSet(g, S) = SumFunctionOnSet(f, S) + (g[k] - f[k])
<1>1. IsFiniteSet(S) /\ IsFiniteSet(S \ {k})
  BY PeersFinite, FS_Subset
<1>2. f[k] \in Int /\ g[k] \in Int
  OBVIOUS
<1>3. (\A x \in S : f[x] \in Int) /\ (\A x \in S : g[x] \in Int)
  OBVIOUS
<1>4. SumFunctionOnSet(f, S) \in Int /\ SumFunctionOnSet(g, S) \in Int
  BY <1>1, <1>3, SumType
<1>5. CASE k \notin S
  <2>1. \A x \in S : g[x] = f[x]
    BY <1>5
  <2>2. SumFunctionOnSet(g, S) = SumFunctionOnSet(f, S)
    BY <1>1, <2>1, SumAgrees
  <2> QED BY <1>4, <1>5, <2>2
<1>6. CASE k \in S
  <2>1. SumFunctionOnSet(f, S) = f[k] + SumFunctionOnSet(f, S \ {k})
    BY <1>1, <1>3, <1>6, SumRemove
  <2>2. SumFunctionOnSet(g, S) = g[k] + SumFunctionOnSet(g, S \ {k})
    BY <1>1, <1>3, <1>6, SumRemove
  <2>3. SumFunctionOnSet(g, S \ {k}) = SumFunctionOnSet(f, S \ {k})
    <3>1. \A x \in S \ {k} : g[x] = f[x]
      OBVIOUS
    <3> QED BY <1>1, <3>1, SumAgrees
  <2>4. SumFunctionOnSet(f, S \ {k}) \in Int
    BY <1>1, <1>3, SumType
  <2> QED BY <1>2, <1>6, <2>1, <2>2, <2>3, <2>4
<1> QED BY <1>4, <1>5, <1>6

LEMMA SumOfPeers ==
  ASSUME NEW f \in [Peers -> Int], NEW S \in SUBSET Peers
  PROVE  SumFunctionOnSet(f, S) \in Int
<1>1. IsFiniteSet(S) /\ \A x \in S : f[x] \in Int
  BY PeersFinite, FS_Subset
<1> QED BY <1>1, SumType

\* One more counter is read.
LEMMA SumPrefix ==
  ASSUME NEW f \in [Peers -> Int], NEW k \in Peers
  PROVE  SumFunctionOnSet(f, 1..k) = SumFunctionOnSet(f, 1..(k - 1)) + f[k]
<1>1. NPeers \in Nat /\ k \in Int /\ 1 <= k /\ k <= NPeers
  BY SetsAssumption DEF Peers
<1>2. /\ IsFiniteSet(1..k) /\ k \in 1..k /\ (1..k) \ {k} = 1..(k - 1)
      /\ IsFiniteSet(1..(k - 1))
  <2>1. IsFiniteSet(1..k) /\ IsFiniteSet(1..(k - 1))
    <3>1. k \in Int /\ k - 1 \in Int /\ 1 \in Int
      BY <1>1
    <3> QED BY <3>1, FS_Interval
  <2>2. k \in 1..k /\ (1..k) \ {k} = 1..(k - 1)
    BY <1>1
  <2> QED BY <2>1, <2>2
<1>3. (\A x \in 1..k : f[x] \in Int) /\ (\A x \in 1..(k - 1) : f[x] \in Int)
  BY <1>1 DEF Peers
<1>4. SumFunctionOnSet(f, 1..k) = f[k] + SumFunctionOnSet(f, (1..k) \ {k})
  BY <1>2, <1>3, SumRemove
<1>5. SumFunctionOnSet(f, 1..(k - 1)) \in Int /\ f[k] \in Int
  BY <1>2, <1>3, SumType
<1>6. SumFunctionOnSet(f, 1..k) = f[k] + SumFunctionOnSet(f, 1..(k - 1))
  BY <1>2, <1>4
<1> QED BY <1>5, <1>6

\* The capacity of a pool with a healthy peer is a number, and so is the limit
\* its requests are held to.
LEMMA PoolLimitType ==
  ASSUME NEW H \in SUBSET Peers, H # {}
  PROVE  PoolLimit(H) \in Int
<1> DEFINE cap(p) == CapByPrio(H, Priority[p])
           S == {cap(p) : p \in H}
<1>1. \A p \in H : cap(p) \in Int
  <2> SUFFICES ASSUME NEW p \in H PROVE cap(p) \in Int
    OBVIOUS
  <2>1. Level(H, Priority[p]) \subseteq Peers
    BY LevelSubset
  <2>2. IsFiniteSet(Level(H, Priority[p]))
    BY <2>1, PeersFinite, FS_Subset
  <2>3. \A x \in Level(H, Priority[p]) : MaxConc[x] \in Int
    BY <2>1, RouteAssumption
  <2> QED BY <2>2, <2>3, SumType DEF CapByPrio
<1>2. IsFiniteSet(S)
  <2> DEFINE f == [p \in H |-> cap(p)]
  <2> HIDE DEF cap
  <2>1. f \in Surjection(H, S)
    BY DEF Surjection
  <2>2. IsFiniteSet(H)
    BY PeersFinite, FS_Subset
  <2> QED BY <2>1, <2>2, FS_Surjection
<1> HIDE DEF cap
<1>3. S \subseteq Int /\ S # {}
  BY <1>1
<1>4. PICK m \in S : \A y \in S : m >= y
  <2> HIDE DEF S
  <2> QED BY <1>2, <1>3, Greatest
<1>5. Max(S) \in S
  BY <1>4 DEF Max
<1>6. Max(S) \in Int
  BY <1>3, <1>5
<1> QED BY <1>6 DEF PoolLimit, S, cap

LEMMA LimitType ==
  ASSUME NEW H \in SUBSET Peers, H # {}, NEW c \in CCValues \cup {NoCC}
  PROVE  Limit(H, c) \in Int
<1> DEFINE v == IF c = NoCC THEN InitCC ELSE c
           l == PoolLimit(H)
<1>1. v \in Int /\ l \in Int
  BY BoundAssumption, PoolLimitType
<1> HIDE DEF v, l
<1>2. Min({v, l}) \in Int
  <2>1. Min({v, l}) \in {v, l}
    BY <1>1, MinPair, Zenon
  <2> QED BY <1>1, <2>1
<1> QED BY <1>1, <1>2 DEF Limit, v, l

-----------------------------------------------------------------------------
(***************************************************************************)
(* Type correctness.                                                       *)
(***************************************************************************)
LEMMA InitIInv == Init => IInv
<1> SUFFICES ASSUME Init PROVE IInv
  OBVIOUS
<1>1. TypeOK
  <2>1. lcLock \in BOOLEAN /\ cc \in CCValues \cup {NoCC} /\ banned \in SUBSET Peers
    BY DEF Init
  <2>2. /\ active \in [Peers -> Int]
        /\ leaked \in [Peers -> Nat]
        /\ crashes \in 0..MaxCrashes
        /\ resets \in 0..MaxResets
    BY BoundAssumption DEF Init
  <2>3. /\ pc \in [Requests -> PCs]
        /\ on \in [Requests -> Workers \cup {NoWorker}]
        /\ healthy \in [Requests -> SUBSET Peers]
        /\ mode \in [Requests -> Modes]
        /\ chosen \in [Requests -> Peers \cup {NoPeer}]
        /\ key \in [Requests -> Peers \cup {NoPeer}]
        /\ fb \in [Requests -> Seq(Peers)]
        /\ clamp \in [Requests -> Peers \cup {NoPeer}]
        /\ tried \in [Requests -> Seq(Peers)]
    BY DEF Init, PCs, Modes
  <2>4. /\ cursor \in [Requests -> 1..(NPeers + 1)]
        /\ rtSum \in [Requests -> Int]
        /\ limit \in [Requests -> Int]
        /\ unseen \in [Requests -> Nat]
        /\ attempt \in [Requests -> 0..MaxMoreTries]
    BY SetsAssumption, RouteAssumption DEF Init
  <2> QED BY <2>1, <2>2, <2>3, <2>4 DEF TypeOK
<1>2. Phases
  BY SetsAssumption DEF Init, Phases, PhaseOf
<1> QED BY <1>1, <1>2 DEF IInv

LEMMA EarlyExitType ==
  ASSUME IInv, NEW r \in Requests, NEW w \in Workers, EarlyExit(r, w)
  PROVE  IInv'
  BY SetsAssumption, RouteAssumption, BoundAssumption
     DEF IInv, TypeOK, Phases, PhaseOf, EarlyExit, Goto, history, PCs, Modes, Peers, MoreTries

LEMMA AssessBansType ==
  ASSUME IInv, NEW r \in Requests, NEW w \in Workers, AssessBans(r, w)
  PROVE  IInv'
  BY SetsAssumption, RouteAssumption, BoundAssumption
     DEF IInv, TypeOK, Phases, PhaseOf, AssessBans, Goto, history, PCs, Modes, Peers, MoreTries

LEMMA LockAcquireType ==
  ASSUME IInv, NEW r \in Requests, LockAcquire(r)
  PROVE  IInv'
  BY SetsAssumption, RouteAssumption, BoundAssumption
     DEF IInv, TypeOK, Phases, PhaseOf, LockAcquire, Goto, history, PCs, Modes, Peers, MoreTries

LEMMA LockTimeoutType ==
  ASSUME IInv, NEW r \in Requests, LockTimeout(r)
  PROVE  IInv'
  BY SetsAssumption, RouteAssumption, BoundAssumption
     DEF IInv, TypeOK, Phases, PhaseOf, LockTimeout, Goto, history, PCs, Modes, Peers, MoreTries

LEMMA ReadInflightType ==
  ASSUME IInv, NEW r \in Requests, ReadInflight(r)
  PROVE  IInv'
<1>1. cursor[r] \in Peers /\ cursor[r] + 1 \in 1..(NPeers + 1)
  <2>1. cursor[r] \in 1..(NPeers + 1)
    BY DEF IInv, TypeOK
  <2>2. cursor[r] <= NPeers
    BY DEF IInv, Phases, PhaseOf, ReadInflight
  <2> QED BY <2>1, <2>2, SetsAssumption DEF Peers
<1>2. PICK l \in {"gate", "sum"} :
        /\ pc' = [pc EXCEPT ![r] = l]
        /\ l = "sum" => cursor[r] + 1 <= NPeers
  <2>1. CASE cursor[r] = NPeers
    BY <2>1 DEF ReadInflight, Goto
  <2>2. CASE cursor[r] # NPeers
    <3>1. cursor[r] + 1 <= NPeers
      BY <1>1, <2>2, SetsAssumption DEF Peers
    <3> QED BY <2>2, <3>1 DEF ReadInflight, Goto
  <2> QED BY <2>1, <2>2
<1>3. TypeOK'
  <2>1. rtSum' \in [Requests -> Int] /\ cursor' \in [Requests -> 1..(NPeers + 1)]
    <3>1. active[cursor[r]] \in Int
      BY <1>1 DEF IInv, TypeOK
    <3> QED BY <1>1, <3>1 DEF IInv, TypeOK, ReadInflight
  <2>2. pc' \in [Requests -> PCs]
    BY <1>2 DEF IInv, TypeOK, PCs
  <2> QED BY <2>1, <2>2 DEF IInv, TypeOK, ReadInflight, history
<1>4. Phases'
  BY <1>1, <1>2, SetsAssumption DEF IInv, TypeOK, Phases, PhaseOf, ReadInflight, MoreTries
<1> QED BY <1>3, <1>4 DEF IInv

LEMMA GateType ==
  ASSUME IInv, NEW r \in Requests, Gate(r)
  PROVE  IInv'
<1>1. PICK l \in {"pick", "log"} : pc' = [pc EXCEPT ![r] = l]
  BY DEF Gate, Goto
<1>a. /\ pc[r] = "gate"
      /\ cursor' = [cursor EXCEPT ![r] = 1] /\ rtSum' = [rtSum EXCEPT ![r] = 0]
      /\ UNCHANGED <<active, banned, cc, lcLock, on, healthy, mode, chosen, key, fb,
                     attempt, clamp, tried, leaked, crashes, resets>>
  BY DEF Gate
<1>b. limit' \in [Requests -> Int] /\ unseen' \in [Requests -> Nat]
  <2>1. Limit(healthy[r], cc) \in Int
    BY <1>a, LimitType DEF IInv, TypeOK, Phases, PhaseOf
  <2>2. limit \in [Requests -> Int] /\ unseen \in [Requests -> Nat]
    BY DEF IInv, TypeOK
  <2>3. CASE limit' = [limit EXCEPT ![r] = Limit(healthy[r], cc)] /\ unseen' = unseen
    BY <2>1, <2>2, <2>3
  <2>4. CASE limit' = limit /\ unseen' = [unseen EXCEPT ![r] = 0]
    BY <2>2, <2>4
  <2> QED BY <2>3, <2>4 DEF Gate
<1>2. TypeOK'
  <2>1. pc' \in [Requests -> PCs]
    BY <1>1 DEF IInv, TypeOK, PCs
  <2>2. cursor' \in [Requests -> 1..(NPeers + 1)] /\ rtSum' \in [Requests -> Int]
    <3>1. 1 \in 1..(NPeers + 1)
      BY SetsAssumption
    <3> QED BY <1>a, <3>1 DEF IInv, TypeOK
  <2> QED BY <1>a, <1>b, <2>1, <2>2 DEF IInv, TypeOK
<1>3. Phases'
  <2>1. NPeers >= 1
    BY SetsAssumption
  <2>2. \A q \in Requests : MoreTries(q)' = MoreTries(q)
    BY <1>a DEF MoreTries
  <2>3. \A q \in Requests : q # r => PhaseOf(q)'
    BY <1>1, <1>a, <2>2 DEF IInv, TypeOK, Phases, PhaseOf
  <2>4. PhaseOf(r)'
    BY <1>1, <1>a, <2>1 DEF IInv, TypeOK, Phases, PhaseOf
  <2> QED BY <2>3, <2>4 DEF Phases
<1> QED BY <1>2, <1>3 DEF IInv

LEMMA PickHashType ==
  ASSUME IInv, NEW r \in Requests, PickHash(r)
  PROVE  IInv'
<1>1. PICK p \in HealthyPeers(healthy[r]) : chosen' = [chosen EXCEPT ![r] = p]
  BY DEF PickHash
<1>2. p \in Peers
  BY <1>1, LevelSubset DEF IInv, TypeOK, HealthyPeers
<1>3. TypeOK'
  BY <1>1, <1>2 DEF IInv, TypeOK, PickHash, Goto, history, PCs, Modes
<1>4. Phases'
  BY <1>1, <1>2 DEF IInv, TypeOK, Phases, PhaseOf, PickHash, Goto, PCs, MoreTries
<1> QED BY <1>3, <1>4 DEF IInv

LEMMA PickLeastConnType ==
  ASSUME IInv, NEW r \in Requests, PickLeastConn(r)
  PROVE  IInv'
<1>1. PICK l \in {"scanLocked", "lockwait"} : pc' = [pc EXCEPT ![r] = l]
  BY DEF PickLeastConn, TryLock, Goto
<1>2. PICK m \in Modes : mode' = [mode EXCEPT ![r] = m]
  BY DEF PickLeastConn, Modes
<1>3. lcLock' \in BOOLEAN
  BY DEF PickLeastConn, TryLock, IInv, TypeOK
<1>4. TypeOK'
  BY <1>1, <1>2, <1>3 DEF IInv, TypeOK, PickLeastConn, history, PCs
<1>5. Phases'
  BY <1>1 DEF IInv, TypeOK, Phases, PhaseOf, PickLeastConn, MoreTries
<1> QED BY <1>4, <1>5 DEF IInv

LEMMA ScanLeastConnType ==
  ASSUME IInv, NEW r \in Requests, ScanLeastConn(r)
  PROVE  IInv'
<1>1. PICK p \in LeastLoaded(HealthyPeers(healthy[r])) :
        chosen' = [chosen EXCEPT ![r] = p]
  BY DEF ScanLeastConn
<1>2. p \in Peers
  BY <1>1, LevelSubset DEF IInv, TypeOK, HealthyPeers, LeastLoaded
<1>3. lcLock' \in BOOLEAN
  BY DEF ScanLeastConn, IInv, TypeOK
<1>4. TypeOK'
  BY <1>1, <1>2, <1>3 DEF IInv, TypeOK, ScanLeastConn, Goto, history, PCs
<1>5. Phases'
  BY <1>1, <1>2 DEF IInv, TypeOK, Phases, PhaseOf, ScanLeastConn, Goto, MoreTries
<1> QED BY <1>4, <1>5 DEF IInv

\* A request is counted in, and so unseen by those that have read its peer.
LEMMA CountInType ==
  ASSUME TypeOK, NEW r \in Requests, NEW p \in Peers, CountIn(r, p)
  PROVE  /\ active' = [active EXCEPT ![p] = active[p] + 1]
         /\ active' \in [Peers -> Int]
         /\ key' = [key EXCEPT ![r] = p]
         /\ key' \in [Requests -> Peers \cup {NoPeer}]
         /\ unseen' \in [Requests -> Nat]
<1>1. active' = [active EXCEPT ![p] = active[p] + 1]
  BY DEF CountIn
<1>2. active' \in [Peers -> Int]
  <2>1. active[p] \in Int
    BY DEF TypeOK
  <2> QED BY <1>1, <2>1 DEF TypeOK
<1>3. key' = [key EXCEPT ![r] = p] /\ key' \in [Requests -> Peers \cup {NoPeer}]
  BY DEF CountIn, TypeOK
<1>4. unseen' \in [Requests -> Nat]
  <2>1. \A q \in Requests : (IF q = r THEN 0 ELSE IF HasRead(q, p) THEN unseen[q] + 1
                            ELSE unseen[q]) \in Nat
    BY DEF TypeOK
  <2> QED BY <2>1 DEF CountIn
<1> QED BY <1>1, <1>2, <1>3, <1>4

LEMMA AdmitType ==
  ASSUME IInv, NEW r \in Requests, Admit(r)
  PROVE  IInv'
<1>1. chosen[r] \in Peers /\ healthy[r] \in SUBSET Peers
  BY DEF IInv, TypeOK, Phases, PhaseOf, Admit
<1>2. PICK s \in FallbackLists(healthy[r], chosen[r]) : fb' = [fb EXCEPT ![r] = s]
  BY DEF Admit
<1>3. s \in Seq(Peers)
  BY <1>1, <1>2, FallbackType
<1>4. <<chosen[r]>> \in Seq(Peers)
  BY <1>1
<1>5. /\ active' \in [Peers -> Int] /\ key' = [key EXCEPT ![r] = chosen[r]]
      /\ key' \in [Requests -> Peers \cup {NoPeer}] /\ unseen' \in [Requests -> Nat]
  BY <1>1, CountInType DEF IInv, Admit
<1>a. /\ pc[r] = "incr" /\ pc' = [pc EXCEPT ![r] = "proxy"]
      /\ tried' = [tried EXCEPT ![r] = <<chosen[r]>>] /\ limit' = [limit EXCEPT ![r] = 0]
      /\ UNCHANGED <<banned, cc, lcLock, on, healthy, cursor, rtSum, mode, chosen,
                     attempt, clamp, leaked, crashes, resets>>
  BY DEF Admit, Goto
<1>6. TypeOK'
  <2>1. pc' \in [Requests -> PCs] /\ limit' \in [Requests -> Int]
    BY <1>a DEF IInv, TypeOK, PCs
  <2>2. fb' \in [Requests -> Seq(Peers)] /\ tried' \in [Requests -> Seq(Peers)]
    BY <1>a, <1>2, <1>3, <1>4 DEF IInv, TypeOK
  <2> QED BY <1>5, <1>a, <2>1, <2>2 DEF IInv, TypeOK
<1>7. \A q \in Requests : q # r => MoreTries(q)' = MoreTries(q)
  BY <1>2 DEF IInv, TypeOK, MoreTries
<1>8. Phases'
  <2>1. \A q \in Requests : q # r => PhaseOf(q)'
    BY <1>5, <1>7, <1>a DEF IInv, TypeOK, Phases, PhaseOf
  <2>2. PhaseOf(r)'
    BY <1>1, <1>5, <1>a DEF IInv, TypeOK, Phases, PhaseOf
  <2> QED BY <2>1, <2>2 DEF Phases
<1> QED BY <1>6, <1>8 DEF IInv

\* Decrement, for whichever handler calls it.
LEMMA DecrementType ==
  ASSUME IInv, NEW r \in Requests, NEW k \in Peers, NEW next, NEW clampAt,
         Decrement(r, k, next, clampAt)
  PROVE  /\ active' \in [Peers -> Int]
         /\ active' = [active EXCEPT ![k] = active[k] - 1]
         /\ \/ pc' = [pc EXCEPT ![r] = next] /\ clamp' = clamp
            \/ pc' = [pc EXCEPT ![r] = clampAt] /\ clamp' = [clamp EXCEPT ![r] = k]
         /\ active[k] > 0 => pc' = [pc EXCEPT ![r] = next]
<1>1. active[k] \in Int
  BY DEF IInv, TypeOK
<1>2. active' \in [Peers -> Int] /\ active' = [active EXCEPT ![k] = active[k] - 1]
  BY <1>1 DEF IInv, TypeOK, Decrement
<1> QED BY <1>1, <1>2 DEF Decrement, Goto

LEMMA RetryReleaseType ==
  ASSUME IInv, NEW r \in Requests, RetryRelease(r)
  PROVE  IInv'
<1>1. key[r] \in Peers /\ chosen[r] \in Peers /\ attempt[r] < MoreTries(r)
  BY DEF IInv, Phases, PhaseOf, RetryRelease
<1>2. /\ active' \in [Peers -> Int]
      /\ \/ pc' = [pc EXCEPT ![r] = "retry"] /\ clamp' = clamp
         \/ pc' = [pc EXCEPT ![r] = "clampRetry"] /\ clamp' = [clamp EXCEPT ![r] = key[r]]
  BY <1>1, DecrementType DEF RetryRelease
<1>3. TypeOK'
  BY <1>1, <1>2 DEF IInv, TypeOK, RetryRelease, history, PCs
<1>4. \A q \in Requests : MoreTries(q)' = MoreTries(q)
  BY DEF RetryRelease, MoreTries
<1>5. Phases'
  <2>1. PhaseOf(r)'
    BY <1>1, <1>2, <1>4 DEF IInv, TypeOK, Phases, PhaseOf, RetryRelease
  <2>2. \A q \in Requests : q # r => PhaseOf(q)'
    BY <1>1, <1>2, <1>4 DEF IInv, TypeOK, Phases, PhaseOf, RetryRelease
  <2> QED BY <2>1, <2>2 DEF Phases
<1> QED BY <1>3, <1>5 DEF IInv

\* The index do_balancer computes is always within the fallback list.
LEMMA RetryAcquirePeer ==
  ASSUME IInv, NEW r \in Requests, pc[r] = "retry"
  PROVE  /\ Min({attempt[r] + 1, Len(fb[r])}) = attempt[r] + 1
         /\ fb[r][attempt[r] + 1] \in Peers
         /\ attempt[r] + 1 \in 0..MaxMoreTries
<1>1. attempt[r] < MoreTries(r) /\ attempt[r] \in Nat /\ fb[r] \in Seq(Peers)
  BY DEF IInv, TypeOK, Phases, PhaseOf
<1>2. MoreTries(r) \in Nat /\ MoreTries(r) <= MaxMoreTries /\ MoreTries(r) <= Len(fb[r])
  BY MoreTriesType DEF IInv
<1>3. attempt[r] + 1 <= Len(fb[r]) /\ Len(fb[r]) \in Nat /\ attempt[r] + 1 \in Int
  BY <1>1, <1>2
<1>4. Min({attempt[r] + 1, Len(fb[r])}) = attempt[r] + 1
  <2> DEFINE a == attempt[r] + 1
             b == Len(fb[r])
  <2>1. a \in Int /\ b \in Int /\ a <= b
    BY <1>3
  <2> HIDE DEF a, b
  <2>2. Min({a, b}) = a
    <3>1. Min({a, b}) \in {a, b} /\ Min({a, b}) <= a
      BY <2>1, MinPair, Zenon
    <3>2. CASE Min({a, b}) = b
      BY <2>1, <3>1, <3>2
    <3> QED BY <3>1, <3>2
  <2> QED BY <2>2 DEF a, b
<1>5. attempt[r] + 1 \in 1..Len(fb[r])
  BY <1>1, <1>3
<1>6. fb[r][attempt[r] + 1] \in Peers
  BY <1>1, <1>5
<1> QED BY <1>1, <1>2, <1>4, <1>6, RouteAssumption

LEMMA RetryAcquireType ==
  ASSUME IInv, NEW r \in Requests, RetryAcquire(r)
  PROVE  IInv'
<1> DEFINE new == fb[r][attempt[r] + 1]
<1>1. new \in Peers /\ attempt[r] + 1 \in 0..MaxMoreTries
  BY RetryAcquirePeer DEF RetryAcquire
<1>2. /\ active' = [active EXCEPT ![new] = active[new] + 1]
      /\ key' = [key EXCEPT ![r] = new]
      /\ tried' = [tried EXCEPT ![r] = Append(tried[r], new)]
      /\ attempt' = [attempt EXCEPT ![r] = attempt[r] + 1]
      /\ pc' = [pc EXCEPT ![r] = "proxy"]
  BY RetryAcquirePeer DEF RetryAcquire, CountIn, Goto
<1>2a. /\ pc[r] = "retry"
      /\ UNCHANGED <<banned, cc, lcLock, on, healthy, cursor, rtSum, mode, chosen,
                     fb, clamp, limit, leaked, crashes, resets>>
  BY DEF RetryAcquire
<1>2b. CountIn(r, new)
  BY RetryAcquirePeer DEF RetryAcquire
<1> HIDE DEF new
<1>3. active' \in [Peers -> Int] /\ unseen' \in [Requests -> Nat]
  BY <1>1, <1>2b, CountInType DEF IInv
<1>4. tried' \in [Requests -> Seq(Peers)]
  <2>1. Append(tried[r], new) \in Seq(Peers)
    BY <1>1 DEF IInv, TypeOK
  <2> QED BY <1>2, <2>1 DEF IInv, TypeOK
<1>5. TypeOK'
  <2>1. pc' \in [Requests -> PCs] /\ key' \in [Requests -> Peers \cup {NoPeer}]
    BY <1>1, <1>2 DEF IInv, TypeOK, PCs
  <2>2. attempt' \in [Requests -> 0..MaxMoreTries]
    BY <1>1, <1>2 DEF IInv, TypeOK
  <2> QED BY <1>2a, <1>3, <1>4, <2>1, <2>2 DEF IInv, TypeOK
<1>6. \A q \in Requests : MoreTries(q)' = MoreTries(q)
  BY <1>2a DEF MoreTries
<1>7. Phases'
  BY <1>1, <1>2, <1>2a, <1>6 DEF IInv, TypeOK, Phases, PhaseOf
<1> QED BY <1>5, <1>7 DEF IInv

LEMMA RespondType ==
  ASSUME IInv, NEW r \in Requests, Respond(r)
  PROVE  IInv'
<1>1. PICK l \in {"log", "log501"} : pc' = [pc EXCEPT ![r] = l]
  BY DEF Respond, Goto
<1>2. TypeOK'
  BY <1>1 DEF IInv, TypeOK, Respond, history, PCs
<1>3. Phases'
  BY <1>1 DEF IInv, TypeOK, Phases, PhaseOf, Respond, MoreTries
<1> QED BY <1>2, <1>3 DEF IInv

LEMMA LogReleaseType ==
  ASSUME IInv, NEW r \in Requests, LogRelease(r)
  PROVE  IInv'
<1>1. /\ active' \in [Peers -> Int]
      /\ \/ pc' = [pc EXCEPT ![r] = "done"] /\ clamp' = clamp
         \/ /\ pc' = [pc EXCEPT ![r] = "clampLog"]
            /\ key[r] \in Peers
            /\ clamp' = [clamp EXCEPT ![r] = key[r]]
      /\ key' = [key EXCEPT ![r] = NoPeer]
  <2>1. CASE key[r] = NoPeer
    BY <2>1 DEF IInv, TypeOK, LogRelease, Goto
  <2>2. CASE key[r] # NoPeer
    <3>1. key[r] \in Peers
      BY <2>2 DEF IInv, TypeOK
    <3>2. Decrement(r, key[r], "done", "clampLog") /\ key' = [key EXCEPT ![r] = NoPeer]
      BY <2>2 DEF LogRelease
    <3> QED BY <3>1, <3>2, DecrementType
  <2> QED BY <2>1, <2>2
<1>2. TypeOK'
  BY <1>1 DEF IInv, TypeOK, LogRelease, history, PCs
<1>3. \A q \in Requests : MoreTries(q)' = MoreTries(q)
  BY DEF LogRelease, MoreTries
<1>4. Phases'
  <2>1. PhaseOf(r)'
    BY <1>1, <1>3 DEF IInv, TypeOK, Phases, PhaseOf, LogRelease
  <2>2. \A q \in Requests : q # r => PhaseOf(q)'
    BY <1>1, <1>3 DEF IInv, TypeOK, Phases, PhaseOf, LogRelease
  <2> QED BY <2>1, <2>2 DEF Phases
<1> QED BY <1>2, <1>4 DEF IInv

LEMMA LogRelease501Type ==
  ASSUME IInv, NEW r \in Requests, LogRelease501(r)
  PROVE  IInv'
<1>1. chosen[r] \in Peers
  BY DEF IInv, Phases, PhaseOf, LogRelease501
<1>2. /\ active' \in [Peers -> Int]
      /\ \/ pc' = [pc EXCEPT ![r] = "done"] /\ clamp' = clamp
         \/ pc' = [pc EXCEPT ![r] = "clampLog"] /\ clamp' = [clamp EXCEPT ![r] = chosen[r]]
  BY <1>1, DecrementType DEF LogRelease501
<1>3. TypeOK'
  BY <1>1, <1>2 DEF IInv, TypeOK, LogRelease501, history, PCs
<1>4. \A q \in Requests : MoreTries(q)' = MoreTries(q)
  BY DEF LogRelease501, MoreTries
<1>5. Phases'
  <2>1. PhaseOf(r)'
    BY <1>1, <1>2, <1>4 DEF IInv, TypeOK, Phases, PhaseOf, LogRelease501
  <2>2. \A q \in Requests : q # r => PhaseOf(q)'
    BY <1>1, <1>2, <1>4 DEF IInv, TypeOK, Phases, PhaseOf, LogRelease501
  <2> QED BY <2>1, <2>2 DEF Phases
<1> QED BY <1>3, <1>5 DEF IInv

LEMMA ClampToZeroType ==
  ASSUME IInv, NEW r \in Requests, ClampToZero(r)
  PROVE  IInv'
<1>1. PICK l \in {"retry", "done"} :
        /\ pc' = [pc EXCEPT ![r] = l]
        /\ l = "retry" => pc[r] = "clampRetry"
  BY DEF ClampToZero, Goto
<1>2. active' \in [Peers -> Int]
  BY DEF IInv, TypeOK, Phases, PhaseOf, ClampToZero
<1>3. TypeOK'
  BY <1>1, <1>2 DEF IInv, TypeOK, ClampToZero, history, PCs
<1>4. \A q \in Requests : MoreTries(q)' = MoreTries(q)
  BY DEF ClampToZero, MoreTries
<1>5. Phases'
  BY <1>1, <1>4 DEF IInv, TypeOK, Phases, PhaseOf, ClampToZero
<1> QED BY <1>3, <1>5 DEF IInv

\* The health probe, the AIMD timer, the lock's expiry and the operator touch
\* no request.
LEMMA EnvironmentType ==
  ASSUME IInv,
         \/ \E p \in Peers : Ban(p) \/ Unban(p)
         \/ AdaptiveTick \/ LockExpire \/ OperatorSet
  PROVE  IInv'
<1>1. UNCHANGED <<reqVars, limit, unseen, leaked, crashes>>
  BY DEF Ban, Unban, AdaptiveTick, LockExpire, OperatorSet, history
<1>2. banned' \in SUBSET Peers
  BY DEF IInv, TypeOK, Ban, Unban, AdaptiveTick, LockExpire, OperatorSet
<1>3. cc' \in CCValues \cup {NoCC}
  BY DEF IInv, TypeOK, Ban, Unban, AdaptiveTick, LockExpire, OperatorSet
<1>4. lcLock' \in BOOLEAN
  BY DEF IInv, TypeOK, Ban, Unban, AdaptiveTick, LockExpire, OperatorSet
<1>5. active' \in [Peers -> Int] /\ resets' \in 0..MaxResets
  <2>1. CASE OperatorSet
    BY <2>1, BoundAssumption DEF IInv, TypeOK, OperatorSet
  <2>2. CASE ~OperatorSet
    BY <2>2 DEF IInv, TypeOK, Ban, Unban, AdaptiveTick, LockExpire, history
  <2> QED BY <2>1, <2>2
<1>6. TypeOK'
  BY <1>1, <1>2, <1>3, <1>4, <1>5 DEF IInv, TypeOK, reqVars
<1>7. Phases'
  BY <1>1 DEF IInv, Phases, PhaseOf, reqVars, MoreTries
<1> QED BY <1>6, <1>7 DEF IInv

LEMMA WorkerCrashType ==
  ASSUME IInv, NEW w \in Workers, WorkerCrash(w)
  PROVE  IInv'
<1> DEFINE lost == {r \in Requests : on[r] = w /\ pc[r] # "done"}
<1>1. \A p \in Peers : Cardinality({r \in lost : key[r] = p}) \in Nat
  <2>1. \A p \in Peers : {r \in lost : key[r] = p} \in SUBSET Requests
    OBVIOUS
  <2> QED BY <2>1, SetsAssumption, FS_Subset, FS_CardinalityType
<1>2. /\ leaked' = [p \in Peers |-> leaked[p] + Cardinality({r \in lost : key[r] = p})]
      /\ pc' = [r \in Requests |-> IF r \in lost THEN "done" ELSE pc[r]]
      /\ key' = [r \in Requests |-> IF r \in lost THEN NoPeer ELSE key[r]]
      /\ clamp' = [r \in Requests |-> IF r \in lost THEN NoPeer ELSE clamp[r]]
      /\ crashes' = crashes + 1 /\ crashes < MaxCrashes
      /\ UNCHANGED <<active, banned, cc, lcLock, on, healthy, cursor, rtSum, mode,
                     chosen, fb, attempt, tried, limit, unseen, resets>>
  BY DEF WorkerCrash
<1> HIDE DEF lost
<1>3. leaked' \in [Peers -> Nat] /\ crashes' \in 0..MaxCrashes
  <2>1. \A p \in Peers : leaked[p] \in Nat
    BY DEF IInv, TypeOK
  <2>2. leaked' \in [Peers -> Nat]
    BY <1>1, <1>2, <2>1
  <2>3. crashes' \in 0..MaxCrashes
    BY <1>2, BoundAssumption DEF IInv, TypeOK
  <2> QED BY <2>2, <2>3
<1>4. pc' \in [Requests -> PCs]
  BY <1>2 DEF IInv, TypeOK, PCs
<1>5. TypeOK'
  BY <1>2, <1>3, <1>4 DEF IInv, TypeOK
<1>6. \A q \in Requests : MoreTries(q)' = MoreTries(q)
  BY <1>2 DEF MoreTries
<1>7. Phases'
  BY <1>2, <1>6 DEF IInv, TypeOK, Phases, PhaseOf
<1> QED BY <1>5, <1>7 DEF IInv

LEMMA StutterType == ASSUME IInv, UNCHANGED vars PROVE IInv'
<1>1. TypeOK'
  BY DEF IInv, TypeOK, vars, reqVars, history
<1>2. Phases'
  BY DEF IInv, Phases, PhaseOf, vars, reqVars, history, MoreTries
<1> QED BY <1>1, <1>2 DEF IInv

LEMMA NextIInv == IInv /\ [Next]_vars => IInv'
<1> SUFFICES ASSUME IInv, [Next]_vars PROVE IInv'
  OBVIOUS
<1>1. CASE \E r \in Requests, w \in Workers : EarlyExit(r, w) \/ AssessBans(r, w)
  BY <1>1, EarlyExitType, AssessBansType
<1>2. CASE \E r \in Requests : Advance(r)
  <2>1. PICK r \in Requests : Advance(r)
    BY <1>2
  <2> QED
    BY <2>1, ReadInflightType, GateType, PickHashType, PickLeastConnType,
       LockAcquireType, LockTimeoutType, ScanLeastConnType, AdmitType,
       RetryReleaseType, RetryAcquireType, RespondType, LogReleaseType,
       LogRelease501Type, ClampToZeroType
       DEF Advance
<1>3. CASE \/ \E p \in Peers : Ban(p) \/ Unban(p)
           \/ AdaptiveTick \/ LockExpire \/ OperatorSet
  BY <1>3, EnvironmentType
<1>4. CASE \E w \in Workers : WorkerCrash(w)
  BY <1>4, WorkerCrashType
<1>5. CASE UNCHANGED vars
  BY <1>5, StutterType
<1> QED BY <1>1, <1>2, <1>3, <1>4, <1>5 DEF Next

\* Every state of the router is well typed: whatever order the workers'
\* handlers run in, a counter is only ever addressed by a peer of the pool,
\* a retry only ever indexes inside its fallback list, and no request
\* retries more than max_more_tries times.
THEOREM TypeCorrect == Spec => []TypeOK
<1>1. Init => IInv
  BY InitIInv
<1>2. IInv /\ [Next]_vars => IInv'
  BY NextIInv
<1>3. IInv => TypeOK
  BY DEF IInv
<1> QED BY <1>1, <1>2, <1>3, PTL DEF Spec

-----------------------------------------------------------------------------
(***************************************************************************)
(* The counters are exact.  Conservation alone is not inductive: it needs  *)
(* that no handler has a clamp pending (a clamp would throw counts away)   *)
(* and that no request takes the @return_501 path.                         *)
(***************************************************************************)
Exact     == \A p \in Peers : active[p] = Cardinality(Counted(p)) + leaked[p]
NoClamp   == \A r \in Requests : pc[r] \notin {"clampRetry", "clampLog"}
NoLog501  == \A r \in Requests : pc[r] # "log501"
CInv      == IInv /\ NoLog501 /\ (resets = 0 => Exact /\ NoClamp)

LEMMA CountedType ==
  ASSUME NEW p
  PROVE  IsFiniteSet(Counted(p)) /\ Cardinality(Counted(p)) \in Nat
<1>1. Counted(p) \in SUBSET Requests
  BY DEF Counted
<1> QED BY <1>1, SetsAssumption, FS_Subset, FS_CardinalityType

\* A request that is put on peer k adds one to k's requests and to no other's.
LEMMA CountedAdd ==
  ASSUME TypeOK, NEW r \in Requests, NEW k \in Peers, key[r] = NoPeer,
         key' = [key EXCEPT ![r] = k], NEW p \in Peers
  PROVE  Cardinality(Counted(p)') =
           IF p = k THEN Cardinality(Counted(p)) + 1 ELSE Cardinality(Counted(p))
<1>1. CASE p = k
  <2>1. Counted(p)' = Counted(p) \cup {r} /\ r \notin Counted(p)
    BY <1>1, SetsAssumption DEF Counted, TypeOK
  <2> QED BY <1>1, <2>1, CountedType, FS_AddElement
<1>2. CASE p # k
  <2>1. Counted(p)' = Counted(p)
    BY <1>2, SetsAssumption DEF Counted, TypeOK
  <2> QED BY <1>2, <2>1
<1> QED BY <1>1, <1>2

\* A request that is taken off peer k takes one from k's requests.
LEMMA CountedRemove ==
  ASSUME TypeOK, NEW r \in Requests, NEW k \in Peers, key[r] = k,
         key' = [key EXCEPT ![r] = NoPeer], NEW p \in Peers
  PROVE  /\ Cardinality(Counted(p)') =
              IF p = k THEN Cardinality(Counted(p)) - 1 ELSE Cardinality(Counted(p))
         /\ Cardinality(Counted(k)) > 0
<1>1. Cardinality(Counted(k)) > 0
  <2>1. Counted(k) # {}
    BY DEF Counted
  <2> QED BY <2>1, CountedType, FS_EmptySet
<1>2. CASE p = k
  <2>1. Counted(p)' = Counted(p) \ {r} /\ r \in Counted(p)
    BY <1>2, SetsAssumption DEF Counted, TypeOK
  <2> QED BY <1>1, <1>2, <2>1, CountedType, FS_RemoveElement
<1>3. CASE p # k
  <2>1. Counted(p)' = Counted(p)
    BY <1>3, SetsAssumption DEF Counted, TypeOK
  <2> QED BY <1>1, <1>3, <2>1
<1> QED BY <1>2, <1>3

\* Steps that move neither a counter nor a key.
LEMMA QuietExact ==
  ASSUME CInv, UNCHANGED <<active, key, leaked, resets>>,
         \A q \in Requests : \/ pc'[q] = pc[q]
                             \/ pc'[q] \notin {"clampRetry", "clampLog", "log501"}
  PROVE  NoLog501' /\ (resets' = 0 => Exact' /\ NoClamp')
<1>1. \A p \in Peers : Counted(p)' = Counted(p)
  BY DEF Counted
<1>2. resets = 0 => Exact'
  BY <1>1 DEF CInv, Exact
<1>3. NoLog501' /\ (resets = 0 => NoClamp')
  BY DEF CInv, NoLog501, NoClamp
<1> QED BY <1>2, <1>3

\* A request that is put on a peer: do_route's and do_balancer's incr.
LEMMA AcquireExact ==
  ASSUME CInv, NEW r \in Requests, NEW k \in Peers, key[r] = NoPeer,
         active' = [active EXCEPT ![k] = active[k] + 1],
         key' = [key EXCEPT ![r] = k],
         pc' = [pc EXCEPT ![r] = "proxy"],
         UNCHANGED <<leaked, resets>>
  PROVE  NoLog501' /\ (resets' = 0 => Exact' /\ NoClamp')
<1>1. ASSUME resets = 0, NEW p \in Peers
      PROVE  active'[p] = Cardinality(Counted(p)') + leaked'[p]
  <2>1. active[p] = Cardinality(Counted(p)) + leaked[p]
    BY <1>1 DEF CInv, Exact
  <2>2. Cardinality(Counted(p)') =
          IF p = k THEN Cardinality(Counted(p)) + 1 ELSE Cardinality(Counted(p))
    BY CountedAdd DEF CInv, IInv
  <2>3. active[p] \in Int /\ leaked[p] \in Nat /\ leaked'[p] = leaked[p]
    BY DEF CInv, IInv, TypeOK
  <2>4. active'[p] = IF p = k THEN active[p] + 1 ELSE active[p]
    BY DEF CInv, IInv, TypeOK
  <2> QED BY <2>1, <2>2, <2>3, <2>4, CountedType
<1>2. resets = 0 => Exact'
  BY <1>1 DEF Exact
<1>3. NoLog501' /\ (resets = 0 => NoClamp')
  BY DEF CInv, IInv, TypeOK, NoLog501, NoClamp
<1> QED BY <1>2, <1>3

\* A request that is taken off the peer that counts it: the counter is
\* positive, so no clamp follows.
LEMMA ReleaseExact ==
  ASSUME CInv, NEW r \in Requests, key[r] \in Peers, NEW next, NEW clampAt,
         next \notin {"clampRetry", "clampLog", "log501"}, clampAt # "log501",
         Decrement(r, key[r], next, clampAt),
         key' = [key EXCEPT ![r] = NoPeer],
         UNCHANGED <<leaked, resets>>
  PROVE  NoLog501' /\ (resets' = 0 => Exact' /\ NoClamp')
<1> DEFINE k == key[r]
<1>1. /\ active' = [active EXCEPT ![k] = active[k] - 1]
      /\ pc' = [pc EXCEPT ![r] = next] \/ pc' = [pc EXCEPT ![r] = clampAt]
      /\ active[k] > 0 => pc' = [pc EXCEPT ![r] = next]
  BY DecrementType DEF CInv
<1>2. ASSUME resets = 0, NEW p \in Peers
      PROVE  /\ active'[p] = Cardinality(Counted(p)') + leaked'[p]
             /\ active[k] > 0
  <2>1. /\ active[p] = Cardinality(Counted(p)) + leaked[p]
        /\ active[k] = Cardinality(Counted(k)) + leaked[k]
    BY <1>2 DEF CInv, Exact
  <2>2. /\ Cardinality(Counted(p)') =
             IF p = k THEN Cardinality(Counted(p)) - 1 ELSE Cardinality(Counted(p))
        /\ Cardinality(Counted(k)) > 0
    BY CountedRemove DEF CInv, IInv
  <2>3. /\ active[p] \in Int /\ leaked[p] \in Nat /\ leaked'[p] = leaked[p]
        /\ active[k] \in Int /\ leaked[k] \in Nat
    BY DEF CInv, IInv, TypeOK
  <2>4. active'[p] = IF p = k THEN active[p] - 1 ELSE active[p]
    BY <1>1 DEF CInv, IInv, TypeOK
  <2>5. active[k] > 0
    BY <2>1, <2>2, <2>3, CountedType
  <2> QED BY <2>1, <2>2, <2>3, <2>4, <2>5, CountedType
<1>3. resets = 0 => Exact'
  BY <1>2 DEF Exact
<1>4. resets = 0 => NoClamp'
  BY <1>1, <1>2 DEF CInv, IInv, TypeOK, NoClamp
<1>5. NoLog501'
  BY <1>1 DEF CInv, IInv, TypeOK, NoLog501
<1> QED BY <1>3, <1>4, <1>5

\* A crash moves the counts of the dead worker's requests to leaked.
LEMMA CrashExact ==
  ASSUME CInv, NEW w \in Workers, WorkerCrash(w)
  PROVE  NoLog501' /\ (resets' = 0 => Exact' /\ NoClamp')
<1> DEFINE lost == {r \in Requests : on[r] = w /\ pc[r] # "done"}
           Lost(p) == {r \in lost : key[r] = p}
<1>1. /\ leaked' = [p \in Peers |-> leaked[p] + Cardinality(Lost(p))]
      /\ pc' = [r \in Requests |-> IF r \in lost THEN "done" ELSE pc[r]]
      /\ key' = [r \in Requests |-> IF r \in lost THEN NoPeer ELSE key[r]]
      /\ active' = active /\ resets' = resets
  BY DEF WorkerCrash
<1>2. ASSUME NEW p \in Peers
      PROVE  /\ Cardinality(Counted(p)) = Cardinality(Counted(p)') + Cardinality(Lost(p))
             /\ Cardinality(Lost(p)) \in Nat
             /\ Cardinality(Counted(p)') \in Nat
  <2>1. /\ Counted(p) = Counted(p)' \cup Lost(p)
        /\ Counted(p)' \cap Lost(p) = {}
    BY <1>1, SetsAssumption DEF Counted
  <2>2. /\ IsFiniteSet(Lost(p)) /\ Cardinality(Lost(p)) \in Nat
        /\ IsFiniteSet(Counted(p)') /\ Cardinality(Counted(p)') \in Nat
    <3>1. Lost(p) \in SUBSET Requests /\ Counted(p)' \in SUBSET Requests
      BY DEF Counted
    <3> QED BY <3>1, SetsAssumption, FS_Subset, FS_CardinalityType
  <2>3. Cardinality(Counted(p)' \cup Lost(p)) =
          Cardinality(Counted(p)') + Cardinality(Lost(p)) - 0
    BY <2>1, <2>2, FS_Union, FS_EmptySet
  <2> QED BY <2>1, <2>2, <2>3
<1>3. resets = 0 => Exact'
  <2> SUFFICES ASSUME resets = 0, NEW p \in Peers
               PROVE  active'[p] = Cardinality(Counted(p)') + leaked'[p]
    BY DEF Exact
  <2>1. active[p] = Cardinality(Counted(p)) + leaked[p]
    BY DEF CInv, Exact
  <2>2. leaked[p] \in Nat /\ leaked'[p] = leaked[p] + Cardinality(Lost(p))
    BY <1>1 DEF CInv, IInv, TypeOK
  <2> QED BY <1>1, <1>2, <2>1, <2>2
<1>4. NoLog501' /\ (resets = 0 => NoClamp')
  BY <1>1 DEF CInv, NoLog501, NoClamp
<1> QED BY <1>1, <1>3, <1>4

LEMMA NextCInv ==
  ASSUME InterceptErrors = FALSE, CInv, [Next]_vars
  PROVE  CInv'
<1> DEFINE Goal == NoLog501' /\ (resets' = 0 => Exact' /\ NoClamp')
<1>1. IInv' /\ IInv
  BY NextIInv DEF CInv
<1>t. pc \in [Requests -> PCs]
  BY <1>1 DEF IInv, TypeOK
<1>2. ASSUME NEW r \in Requests, NEW w \in Workers,
             EarlyExit(r, w) \/ AssessBans(r, w)
      PROVE  Goal
  BY <1>t, <1>2, QuietExact DEF EarlyExit, AssessBans, Goto, history
<1>3. ASSUME NEW r \in Requests,
             \/ ReadInflight(r) \/ Gate(r) \/ PickHash(r)
             \/ LockAcquire(r) \/ LockTimeout(r) \/ ScanLeastConn(r)
      PROVE  Goal
  BY <1>t, <1>3, QuietExact
     DEF ReadInflight, Gate, PickHash, LockAcquire, LockTimeout, ScanLeastConn,
         Goto, history
<1>4. ASSUME NEW r \in Requests, PickLeastConn(r)
      PROVE  Goal
  BY <1>t, <1>4, QuietExact DEF PickLeastConn, TryLock, Goto, history
<1>5. ASSUME NEW r \in Requests, Respond(r)
      PROVE  Goal
  BY <1>t, <1>5, QuietExact DEF Respond, Goto, history
<1>6. ASSUME NEW r \in Requests, Admit(r)
      PROVE  Goal
  <2>1. chosen[r] \in Peers /\ key[r] = NoPeer
    BY <1>1, <1>6 DEF IInv, Phases, PhaseOf, Admit
  <2> QED BY <1>6, <2>1, AcquireExact DEF Admit, CountIn, Goto, history
<1>7. ASSUME NEW r \in Requests, RetryAcquire(r)
      PROVE  Goal
  <2> DEFINE new == fb[r][attempt[r] + 1]
  <2>1. new \in Peers /\ key[r] = NoPeer
    BY <1>1, <1>7, RetryAcquirePeer DEF IInv, Phases, PhaseOf, RetryAcquire
  <2>2. /\ active' = [active EXCEPT ![new] = active[new] + 1]
        /\ key' = [key EXCEPT ![r] = new]
        /\ pc' = [pc EXCEPT ![r] = "proxy"]
        /\ UNCHANGED <<leaked, resets>>
    BY <1>1, <1>7, RetryAcquirePeer DEF RetryAcquire, CountIn, Goto, history
  <2> HIDE DEF new
  <2> QED BY <2>1, <2>2, AcquireExact
<1>8. ASSUME NEW r \in Requests, RetryRelease(r)
      PROVE  Goal
  <2>1. key[r] \in Peers
    BY <1>1, <1>8 DEF IInv, Phases, PhaseOf, RetryRelease
  <2> QED BY <1>8, <2>1, ReleaseExact DEF RetryRelease, history
<1>9. ASSUME NEW r \in Requests, LogRelease(r)
      PROVE  Goal
  <2>1. CASE key[r] = NoPeer
    BY <1>t, <1>9, <2>1, QuietExact DEF LogRelease, Goto, history
  <2>2. CASE key[r] # NoPeer
    <3>1. key[r] \in Peers
      BY <1>1, <2>2 DEF IInv, TypeOK
    <3> QED BY <1>9, <2>2, <3>1, ReleaseExact DEF LogRelease, history
  <2> QED BY <2>1, <2>2
<1>10. ASSUME NEW r \in Requests, LogRelease501(r)
       PROVE  Goal
  BY <1>10 DEF LogRelease501, CInv, NoLog501
<1>11. ASSUME NEW r \in Requests, ClampToZero(r)
       PROVE  Goal
  <2>1. resets # 0 /\ resets' = resets
    BY <1>11 DEF ClampToZero, CInv, NoClamp, history
  <2>2. NoLog501'
    BY <1>t, <1>11 DEF ClampToZero, Goto, CInv, NoLog501
  <2> QED BY <2>1, <2>2
<1>12. ASSUME \/ \E p \in Peers : Ban(p) \/ Unban(p)
              \/ AdaptiveTick \/ LockExpire \/ UNCHANGED vars
       PROVE  Goal
  <2>1. UNCHANGED <<active, key, leaked, resets, pc>>
    BY <1>12 DEF Ban, Unban, AdaptiveTick, LockExpire, vars, reqVars, history
  <2> QED BY <2>1, QuietExact
<1>13. ASSUME OperatorSet
       PROVE  Goal
  <2>1. resets' # 0
    BY <1>1, <1>13 DEF OperatorSet, IInv, TypeOK
  <2>2. NoLog501'
    BY <1>13 DEF OperatorSet, reqVars, CInv, NoLog501
  <2> QED BY <2>1, <2>2
<1>14. ASSUME NEW w \in Workers, WorkerCrash(w)
       PROVE  Goal
  BY <1>14, CrashExact
<1> HIDE DEF Goal
<1>15. Goal
  BY <1>2, <1>3, <1>4, <1>5, <1>6, <1>7, <1>8, <1>9, <1>10, <1>11, <1>12,
     <1>13, <1>14
     DEF Next, Advance
<1> QED BY <1>1, <1>15 DEF CInv, Goal

LEMMA InitCInv == Init => CInv
<1> SUFFICES ASSUME Init PROVE CInv
  OBVIOUS
<1>1. IInv
  BY InitIInv
<1>2. \A p \in Peers : Counted(p) = {}
  BY SetsAssumption DEF Init, Counted
<1>3. Exact
  <2>1. \A p \in Peers : Cardinality(Counted(p)) = 0
    BY <1>2, FS_EmptySet
  <2> QED BY <2>1 DEF Exact, Init
<1>4. NoLog501 /\ NoClamp
  BY DEF Init, NoLog501, NoClamp
<1> QED BY <1>1, <1>3, <1>4 DEF CInv

\* On a route without @return_501 the in-flight counters are exact until an
\* operator overwrites them, for any number of workers and requests and any
\* interleaving of their admissions, retries, releases and crashes: no
\* request is counted twice, dropped, or given back to the wrong peer.
THEOREM CountersExact ==
  ASSUME InterceptErrors = FALSE
  PROVE  Spec => []CounterConservation
<1>1. Init => CInv
  BY InitCInv
<1>2. CInv /\ [Next]_vars => CInv'
  BY NextCInv
<1>3. CInv => CounterConservation
  BY DEF CInv, Exact, CounterConservation
<1> QED BY <1>1, <1>2, <1>3, PTL DEF Spec

-----------------------------------------------------------------------------
(***************************************************************************)
(* Session affinity.  The invariant ties the mode a request was picked in  *)
(* to the peers it was picked from.                                        *)
(***************************************************************************)
BeforePick == {"idle", "sum", "gate", "pick"}
InLeastConn == {"lockwait", "scan", "scanLocked"}
AffinityOf(r) ==
  /\ pc[r] \in BeforePick => mode[r] = "none"
  /\ pc[r] \in InLeastConn => mode[r] # "hash"
  /\ mode[r] = "hash" =>
       /\ SidOf[r] \in Sids
       /\ IsRendezvous(SidOf[r], HealthyPeers(healthy[r]), chosen[r])
AInv == IInv /\ \A r \in Requests : AffinityOf(r)

\* Steps after the pick, and steps of other requests.
LEMMA KeepsAffinity ==
  ASSUME NEW q \in Requests, AffinityOf(q),
         mode'[q] = mode[q], chosen'[q] = chosen[q], healthy'[q] = healthy[q],
         pc'[q] \in BeforePick => pc[q] \in BeforePick,
         pc'[q] \in InLeastConn => pc[q] \in InLeastConn
  PROVE  AffinityOf(q)'
  BY DEF AffinityOf

LEMMA NextAInv ==
  ASSUME AInv, [Next]_vars
  PROVE  AInv'
<1> DEFINE Goal == \A q \in Requests : AffinityOf(q)'
<1>1. IInv /\ IInv'
  BY NextIInv DEF AInv
<1>t. /\ pc \in [Requests -> PCs]
      /\ mode \in [Requests -> Modes]
      /\ chosen \in [Requests -> Peers \cup {NoPeer}]
      /\ healthy \in [Requests -> SUBSET Peers]
  BY <1>1 DEF IInv, TypeOK
<1>a. \A q \in Requests : AffinityOf(q)
  BY DEF AInv
<1>2. ASSUME NEW r \in Requests, NEW w \in Workers, EarlyExit(r, w)
      PROVE  Goal
  BY <1>t, <1>a, <1>2, KeepsAffinity DEF EarlyExit, Goto, BeforePick, InLeastConn
<1>3. ASSUME NEW r \in Requests, NEW w \in Workers, AssessBans(r, w)
      PROVE  Goal
  <2>1. AffinityOf(r)'
    BY <1>t, <1>a, <1>3 DEF AssessBans, Goto, AffinityOf, BeforePick, InLeastConn
  <2>2. \A q \in Requests : q # r => AffinityOf(q)'
    BY <1>t, <1>a, <1>3, KeepsAffinity DEF AssessBans, Goto
  <2> QED BY <2>1, <2>2
<1>4. ASSUME NEW r \in Requests, ReadInflight(r) \/ Gate(r)
      PROVE  Goal
  BY <1>t, <1>a, <1>4, KeepsAffinity
     DEF ReadInflight, Gate, Goto, BeforePick, InLeastConn
<1>5. ASSUME NEW r \in Requests, PickHash(r)
      PROVE  Goal
  <2>1. AffinityOf(r)'
    <3>1. PICK p \in HealthyPeers(healthy[r]) :
            /\ IsRendezvous(SidOf[r], HealthyPeers(healthy[r]), p)
            /\ chosen' = [chosen EXCEPT ![r] = p]
      BY <1>5 DEF PickHash
    <3>2. chosen'[r] = p /\ healthy'[r] = healthy[r] /\ mode'[r] = "hash" /\ pc'[r] = "incr"
      BY <1>t, <1>5, <3>1 DEF PickHash, Goto
    <3>3. SidOf[r] \in Sids
      BY <1>5, RequestAssumption DEF PickHash
    <3> QED BY <3>1, <3>2, <3>3 DEF AffinityOf, BeforePick, InLeastConn
  <2>2. \A q \in Requests : q # r => AffinityOf(q)'
    BY <1>t, <1>a, <1>5, KeepsAffinity DEF PickHash, Goto
  <2> QED BY <2>1, <2>2
<1>6. ASSUME NEW r \in Requests, PickLeastConn(r)
      PROVE  Goal
  <2>1. AffinityOf(r)'
    BY <1>t, <1>6
       DEF PickLeastConn, TryLock, Goto, AffinityOf, BeforePick, InLeastConn, Modes
  <2>2. \A q \in Requests : q # r => AffinityOf(q)'
    BY <1>t, <1>a, <1>6, KeepsAffinity DEF PickLeastConn, TryLock, Goto
  <2> QED BY <2>1, <2>2
<1>7. ASSUME NEW r \in Requests, LockAcquire(r) \/ LockTimeout(r)
      PROVE  Goal
  BY <1>t, <1>a, <1>7, KeepsAffinity
     DEF LockAcquire, LockTimeout, Goto, BeforePick, InLeastConn
<1>8. ASSUME NEW r \in Requests, ScanLeastConn(r)
      PROVE  Goal
  <2>1. AffinityOf(r)'
    BY <1>t, <1>a, <1>8
       DEF ScanLeastConn, Goto, AffinityOf, BeforePick, InLeastConn
  <2>2. \A q \in Requests : q # r => AffinityOf(q)'
    BY <1>t, <1>a, <1>8, KeepsAffinity DEF ScanLeastConn, Goto
  <2> QED BY <2>1, <2>2
<1>9. ASSUME NEW r \in Requests,
             \/ Admit(r) \/ RetryRelease(r) \/ RetryAcquire(r) \/ Respond(r)
             \/ LogRelease(r) \/ LogRelease501(r) \/ ClampToZero(r)
      PROVE  Goal
  <2>1. UNCHANGED <<mode, chosen, healthy>>
    BY <1>9
       DEF Admit, RetryRelease, RetryAcquire, Respond, LogRelease, LogRelease501,
           ClampToZero
  <2>2. \E l \in PCs \ (BeforePick \cup InLeastConn) : pc' = [pc EXCEPT ![r] = l]
    BY <1>9
       DEF Admit, RetryRelease, RetryAcquire, Respond, LogRelease, LogRelease501,
           ClampToZero, Decrement, Goto, PCs, BeforePick, InLeastConn
  <2> QED BY <1>t, <1>a, <2>1, <2>2, KeepsAffinity
<1>10. ASSUME NEW w \in Workers, WorkerCrash(w)
       PROVE  Goal
  BY <1>t, <1>a, <1>10, KeepsAffinity DEF WorkerCrash, BeforePick, InLeastConn
<1>11. ASSUME \/ \E p \in Peers : Ban(p) \/ Unban(p)
              \/ AdaptiveTick \/ LockExpire \/ OperatorSet \/ UNCHANGED vars
       PROVE  Goal
  <2>1. UNCHANGED <<mode, chosen, healthy, pc>>
    BY <1>11 DEF Ban, Unban, AdaptiveTick, LockExpire, OperatorSet, vars, reqVars
  <2> QED BY <1>a, <2>1, KeepsAffinity
<1> HIDE DEF Goal
<1>12. Goal
  BY <1>2, <1>3, <1>4, <1>5, <1>6, <1>7, <1>8, <1>9, <1>10, <1>11
     DEF Next, Advance
<1> QED BY <1>1, <1>12 DEF AInv, Goal

\* Rendezvous hashing keeps a session on its peer: for any pool, any bans
\* between the two requests and any hash values, two requests of a session
\* that were routed by hash went to the same peer whenever each one's peer
\* was available to the other.
THEOREM SessionAffinity == Spec => []AffinityStable
<1>1. Init => AInv
  <2> SUFFICES ASSUME Init PROVE AInv
    OBVIOUS
  <2>1. \A r \in Requests : AffinityOf(r)
    BY DEF Init, AffinityOf, InLeastConn
  <2> QED BY <2>1, InitIInv DEF AInv
<1>2. AInv /\ [Next]_vars => AInv'
  BY NextAInv
<1>3. AInv => AffinityStable
  <2> SUFFICES ASSUME AInv, NEW r \in Requests, NEW q \in Requests,
                      SidOf[r] = SidOf[q], mode[r] = "hash", mode[q] = "hash",
                      chosen[r] \in HealthyPeers(healthy[q]),
                      chosen[q] \in HealthyPeers(healthy[r])
               PROVE  chosen[r] = chosen[q]
    BY DEF AffinityStable
  <2> DEFINE h == Hash[SidOf[r]]
             a == chosen[r]
             b == chosen[q]
  <2>1. /\ IsRendezvous(SidOf[r], HealthyPeers(healthy[r]), a)
        /\ IsRendezvous(SidOf[r], HealthyPeers(healthy[q]), b)
        /\ SidOf[r] \in Sids
    BY DEF AInv, AffinityOf
  <2>2. /\ h[b] < h[a] \/ (h[b] = h[a] /\ a <= b)
        /\ h[a] < h[b] \/ (h[a] = h[b] /\ b <= a)
    BY <2>1 DEF IsRendezvous
  <2>3. a \in Peers /\ b \in Peers
    <3>1. healthy[r] \in SUBSET Peers /\ healthy[q] \in SUBSET Peers
      BY DEF AInv, IInv, TypeOK
    <3> QED BY <3>1, LevelSubset DEF HealthyPeers
  <2>4. h[a] \in Nat /\ h[b] \in Nat /\ a \in Int /\ b \in Int
    <3>1. Hash[SidOf[r]] \in [Peers -> Nat]
      BY <2>1, RouteAssumption
    <3>2. a \in Int /\ b \in Int
      BY <2>3, SetsAssumption DEF Peers
    <3> QED BY <2>3, <3>1, <3>2
  <2> HIDE DEF h, a, b
  <2>5. a = b
    BY <2>2, <2>4
  <2> QED BY <2>5 DEF a, b
<1> QED BY <1>1, <1>2, <1>3, PTL DEF Spec

-----------------------------------------------------------------------------
(***************************************************************************)
(* Negative counters.  An operator's correction breaks CInv, so that a     *)
(* release may take a counter below zero; what remains is that the handler *)
(* which did it still has its reset to do.                                 *)
(***************************************************************************)
Clamping == {"clampRetry", "clampLog"}
NoStaleClamp == \A r \in Requests : pc[r] \notin Clamping => clamp[r] = NoPeer
NInv == IInv /\ NoStaleClamp /\ NoNegativeAtRest

\* A release that goes negative names the counter it has to reset.
LEMMA DecrementHeld ==
  ASSUME NInv, NEW r \in Requests, NEW k \in Peers, NEW next, NEW clampAt \in Clamping,
         pc[r] \notin Clamping,
         Decrement(r, k, next, clampAt), UNCHANGED crashes
  PROVE  NoStaleClamp' /\ NoNegativeAtRest'
<1>1. /\ active \in [Peers -> Int] /\ pc \in [Requests -> PCs]
      /\ clamp \in [Requests -> Peers \cup {NoPeer}]
  BY DEF NInv, IInv, TypeOK
<1>2. clamp[r] = NoPeer
  BY DEF NInv, NoStaleClamp
<1>3. active' = [active EXCEPT ![k] = active[k] - 1]
  BY DEF Decrement
<1>4. CASE active[k] - 1 < 0
  <2>1. clamp' = [clamp EXCEPT ![r] = k] /\ pc' = [pc EXCEPT ![r] = clampAt]
    BY <1>4 DEF Decrement, Goto
  <2>2. NoStaleClamp'
    BY <1>1, <2>1 DEF NInv, NoStaleClamp
  <2>3. ASSUME crashes = 0, NEW p \in Peers, active'[p] < 0
        PROVE  \E q \in Requests : clamp'[q] = p
    <3>1. CASE p = k
      BY <1>1, <2>1, <3>1
    <3>2. CASE p # k
      <4>1. active[p] < 0
        BY <1>1, <1>3, <2>3, <3>2
      <4>2. PICK q \in Requests : clamp[q] = p
        BY <2>3, <4>1 DEF NInv, NoNegativeAtRest
      <4>3. q # r
        BY <1>2, <2>3, <4>2, SetsAssumption
      <4> QED BY <1>1, <2>1, <4>2, <4>3
    <3> QED BY <3>1, <3>2
  <2> QED BY <2>2, <2>3 DEF NoNegativeAtRest
<1>5. CASE ~(active[k] - 1 < 0)
  <2>1. clamp' = clamp /\ pc' = [pc EXCEPT ![r] = next]
    BY <1>5 DEF Decrement, Goto
  <2>2. NoStaleClamp'
    BY <1>1, <1>2, <2>1 DEF NInv, NoStaleClamp
  <2>3. \A p \in Peers : active'[p] < 0 => active[p] < 0
    BY <1>1, <1>3, <1>5
  <2>4. NoNegativeAtRest'
    BY <2>1, <2>3 DEF NInv, NoNegativeAtRest
  <2> QED BY <2>2, <2>4
<1> QED BY <1>4, <1>5

\* A step that takes no counter down and touches no clamp.
LEMMA KeepsHeld ==
  ASSUME NInv, UNCHANGED <<clamp, crashes>>,
         \A p \in Peers : active'[p] < 0 => active[p] < 0,
         \A q \in Requests : pc[q] \in Clamping => pc'[q] \in Clamping
  PROVE  NoStaleClamp' /\ NoNegativeAtRest'
  BY DEF NInv, NoStaleClamp, NoNegativeAtRest

LEMMA NextNInv ==
  ASSUME NInv, [Next]_vars
  PROVE  NInv'
<1> DEFINE Goal == NoStaleClamp' /\ NoNegativeAtRest'
<1>1. IInv /\ IInv'
  BY NextIInv DEF NInv
<1>t. /\ active \in [Peers -> Int]
      /\ pc \in [Requests -> PCs]
      /\ clamp \in [Requests -> Peers \cup {NoPeer}]
      /\ crashes \in Nat
  BY <1>1, BoundAssumption DEF IInv, TypeOK
<1>2. ASSUME NEW r \in Requests, NEW w \in Workers,
             EarlyExit(r, w) \/ AssessBans(r, w)
      PROVE  Goal
  BY <1>t, <1>2, KeepsHeld DEF EarlyExit, AssessBans, Goto, history, Clamping
<1>3. ASSUME NEW r \in Requests,
             \/ ReadInflight(r) \/ Gate(r) \/ PickHash(r)
             \/ LockAcquire(r) \/ LockTimeout(r) \/ ScanLeastConn(r)
      PROVE  Goal
  BY <1>t, <1>3, KeepsHeld
     DEF ReadInflight, Gate, PickHash, LockAcquire, LockTimeout, ScanLeastConn,
         Goto, history, Clamping
<1>4. ASSUME NEW r \in Requests, PickLeastConn(r)
      PROVE  Goal
  BY <1>t, <1>4, KeepsHeld DEF PickLeastConn, TryLock, Goto, history, Clamping
<1>5. ASSUME NEW r \in Requests, Respond(r)
      PROVE  Goal
  BY <1>t, <1>5, KeepsHeld DEF Respond, Goto, history, Clamping
<1>6. ASSUME NEW r \in Requests, Admit(r)
      PROVE  Goal
  <2>1. chosen[r] \in Peers
    BY <1>1, <1>6 DEF IInv, Phases, PhaseOf, Admit
  <2>2. \A p \in Peers : active'[p] < 0 => active[p] < 0
    BY <1>t, <1>6, <2>1 DEF Admit, CountIn
  <2>3. \A q \in Requests : pc[q] \in Clamping => pc'[q] \in Clamping
    BY <1>t, <1>6 DEF Admit, Goto, Clamping
  <2> QED BY <1>6, <2>2, <2>3, KeepsHeld DEF Admit, history
<1>7. ASSUME NEW r \in Requests, RetryAcquire(r)
      PROVE  Goal
  <2> DEFINE new == fb[r][attempt[r] + 1]
  <2>1. new \in Peers /\ active' = [active EXCEPT ![new] = active[new] + 1]
    BY <1>1, <1>7, RetryAcquirePeer DEF RetryAcquire, CountIn
  <2> HIDE DEF new
  <2>2. \A p \in Peers : active'[p] < 0 => active[p] < 0
    BY <1>t, <2>1
  <2>3. \A q \in Requests : pc[q] \in Clamping => pc'[q] \in Clamping
    BY <1>t, <1>7 DEF RetryAcquire, Goto, Clamping
  <2> QED BY <1>7, <2>2, <2>3, KeepsHeld DEF RetryAcquire, history
<1>8. ASSUME NEW r \in Requests, RetryRelease(r)
      PROVE  Goal
  <2>1. key[r] \in Peers
    BY <1>1, <1>8 DEF IInv, Phases, PhaseOf, RetryRelease
  <2> QED BY <1>8, <2>1, DecrementHeld DEF RetryRelease, history, Clamping
<1>9. ASSUME NEW r \in Requests, LogRelease(r)
      PROVE  Goal
  <2>1. CASE key[r] = NoPeer
    BY <1>t, <1>9, <2>1, KeepsHeld DEF LogRelease, Goto, history, Clamping
  <2>2. CASE key[r] # NoPeer
    <3>1. key[r] \in Peers
      BY <1>1, <2>2 DEF IInv, TypeOK
    <3> QED BY <1>9, <2>2, <3>1, DecrementHeld DEF LogRelease, history, Clamping
  <2> QED BY <2>1, <2>2
<1>10. ASSUME NEW r \in Requests, LogRelease501(r)
       PROVE  Goal
  <2>1. chosen[r] \in Peers
    BY <1>1, <1>10 DEF IInv, Phases, PhaseOf, LogRelease501
  <2> QED BY <1>10, <2>1, DecrementHeld DEF LogRelease501, history, Clamping
<1>11. ASSUME NEW r \in Requests, ClampToZero(r)
       PROVE  Goal
  <2>1. PICK l \in PCs \ Clamping : pc' = [pc EXCEPT ![r] = l]
    <3>1. CASE pc[r] = "clampRetry"
      BY <1>11, <3>1 DEF ClampToZero, Goto, PCs, Clamping
    <3>2. CASE pc[r] # "clampRetry"
      BY <1>11, <3>2 DEF ClampToZero, Goto, PCs, Clamping
    <3> QED BY <3>1, <3>2
  <2>2. /\ clamp[r] \in Peers
        /\ active' = [active EXCEPT ![clamp[r]] = 0]
        /\ clamp' = [clamp EXCEPT ![r] = NoPeer]
        /\ crashes' = crashes
    BY <1>1, <1>11 DEF ClampToZero, IInv, Phases, PhaseOf, history
  <2>3. NoStaleClamp'
    BY <1>t, <2>1, <2>2 DEF NInv, NoStaleClamp
  <2>4. ASSUME crashes = 0, NEW p \in Peers, active'[p] < 0
        PROVE  \E q \in Requests : clamp'[q] = p
    <3>1. p # clamp[r] /\ active[p] < 0
      BY <1>t, <2>2, <2>4
    <3>2. PICK q \in Requests : clamp[q] = p
      BY <2>4, <3>1 DEF NInv, NoNegativeAtRest
    <3> QED BY <1>t, <2>2, <3>1, <3>2
  <2> QED BY <2>2, <2>3, <2>4 DEF NoNegativeAtRest
<1>12. ASSUME \/ \E p \in Peers : Ban(p) \/ Unban(p)
              \/ AdaptiveTick \/ LockExpire \/ UNCHANGED vars
       PROVE  Goal
  <2>1. UNCHANGED <<active, clamp, crashes, pc>>
    BY <1>12 DEF Ban, Unban, AdaptiveTick, LockExpire, vars, reqVars, history
  <2> QED BY <2>1, KeepsHeld
<1>13. ASSUME OperatorSet
       PROVE  Goal
  <2>1. UNCHANGED <<clamp, crashes, pc>>
    BY <1>13 DEF OperatorSet, reqVars
  <2>2. \A p \in Peers : active'[p] < 0 => active[p] < 0
    BY <1>t, <1>13, BoundAssumption DEF OperatorSet
  <2> QED BY <2>1, <2>2, KeepsHeld
<1>14. ASSUME NEW w \in Workers, WorkerCrash(w)
       PROVE  Goal
  <2>1. crashes' # 0
    BY <1>t, <1>14 DEF WorkerCrash
  <2>2. NoStaleClamp'
    BY <1>t, <1>14 DEF WorkerCrash, NInv, NoStaleClamp, Clamping
  <2> QED BY <2>1, <2>2 DEF NoNegativeAtRest
<1> HIDE DEF Goal
<1>15. Goal
  BY <1>2, <1>3, <1>4, <1>5, <1>6, <1>7, <1>8, <1>9, <1>10, <1>11, <1>12,
     <1>13, <1>14
     DEF Next, Advance
<1> QED BY <1>1, <1>15 DEF NInv, Goal

\* "if v < 0 then d:set(key, 0)": with operator corrections, retries and
\* @return_501 in any order, a counter is negative only while the handler
\* that took it there has not done its reset yet, as long as no worker died.
THEOREM NegativeOnlyInPassing == Spec => []NoNegativeAtRest
<1>1. Init => NInv
  <2> SUFFICES ASSUME Init PROVE NInv
    OBVIOUS
  <2>1. NoStaleClamp /\ NoNegativeAtRest
    BY DEF Init, NoStaleClamp, NoNegativeAtRest
  <2> QED BY <2>1, InitIInv DEF NInv
<1>2. NInv /\ [Next]_vars => NInv'
  BY NextNInv
<1>3. NInv => NoNegativeAtRest
  BY DEF NInv
<1> QED BY <1>1, <1>2, <1>3, PTL DEF Spec
-----------------------------------------------------------------------------
(***************************************************************************)
(* The retry chain.  The fallback list is ordered when do_route builds it, *)
(* against the healthy peers of that moment; the invariant keeps the list, *)
(* the first peer and those healthy peers together with the peers tried.   *)
(***************************************************************************)
\* The active tier is the highest one: no healthy peer is above it.
LEMMA ActiveLevelHighest ==
  ASSUME NEW H \in SUBSET Peers, H # {}
  PROVE  /\ ActiveLevel(H) \in Nat
         /\ \A p \in H : Priority[p] <= ActiveLevel(H)
<1> DEFINE S == {Priority[p] : p \in H}
<1>1. S \in SUBSET Int /\ S # {} /\ \A x \in S : x \in Nat
  BY RouteAssumption
<1>2. IsFiniteSet(S)
  <2> DEFINE f == [p \in H |-> Priority[p]]
  <2>1. f \in Surjection(H, S)
    BY DEF Surjection
  <2>2. IsFiniteSet(H)
    BY PeersFinite, FS_Subset
  <2> QED BY <2>1, <2>2, FS_Surjection
<1>3. PICK m \in S : \A y \in S : m >= y
  <2> HIDE DEF S
  <2> QED BY <1>1, <1>2, Greatest
<1>4. Max(S) \in S /\ \A y \in S : Max(S) >= y
  BY <1>3 DEF Max
<1>5. Max(S) \in Nat /\ \A p \in H : Priority[p] \in Nat /\ Max(S) >= Priority[p]
  BY <1>1, <1>4, RouteAssumption
<1> QED BY <1>5 DEF ActiveLevel

\* What the fallback list s of a request picked for peer c promises, H being
\* the healthy peers of its assessment.
Ordered(H, c, s) ==
  LET lvl == ActiveLevel(H) IN
  /\ c \in Peers /\ Priority[c] = lvl
  /\ \A i \in 1..Len(s) : s[i] # c /\ Priority[s[i]] <= lvl
  /\ \A i, j \in 1..Len(s) : i < j =>
       /\ s[i] # s[j]
       /\ \/ Priority[s[i]] > Priority[s[j]]
          \/ Priority[s[i]] = lvl /\ Priority[s[j]] = lvl
  /\ \A i \in 1..Len(s) : Priority[s[i]] # lvl =>
       \A q \in Level(H, lvl) : q = c \/ \E j \in 1..(i - 1) : s[j] = q

LEMMA FallbackOrdered ==
  ASSUME NEW H \in SUBSET Peers, NEW c \in HealthyPeers(H),
         NEW s \in FallbackLists(H, c)
  PROVE  Ordered(H, c, s)
<1> DEFINE lvl == ActiveLevel(H)
           rest == (IF CrossTier THEN H ELSE HealthyPeers(H)) \ {c}
<1>1. PICK K \in FallbackMembers(H, c) : s \in Injection(1..Cardinality(K), K)
  BY DEF FallbackLists
<1>2. /\ K \subseteq rest /\ Level(rest, lvl) \subseteq K
      /\ \A q \in rest : Priority[q] # lvl =>
           \E k \in Level(K, Priority[q]) : Level(K, Priority[q]) = {k}
  BY <1>1 DEF FallbackMembers
<1>3. /\ c \in H /\ c \in Peers /\ Priority[c] = lvl /\ rest \subseteq H
      /\ H # {} /\ K \subseteq Peers
  BY <1>2, LevelSubset DEF HealthyPeers, Level
<1>4. lvl \in Nat /\ \A p \in H : Priority[p] \in Nat /\ Priority[p] <= lvl
  BY <1>3, ActiveLevelHighest, RouteAssumption
<1>5. IsFiniteSet(K) /\ Cardinality(K) \in Nat
  BY <1>3, PeersFinite, FS_Subset, FS_CardinalityType
<1>6. s \in [1..Cardinality(K) -> K] /\ s \in Injection(1..Cardinality(K), K)
  BY <1>1, Fun_InjectionProperties
<1>7. Len(s) = Cardinality(K) /\ DOMAIN s = 1..Len(s)
  BY <1>5, <1>6
<1>8. \A i, j \in 1..Len(s) : i < j => s[i] # s[j]
  BY <1>5, <1>6, <1>7, Fun_InjectionProperties
<1>9. \A q \in K : \E j \in 1..Len(s) : s[j] = q
  <2>1. Cardinality(1..Cardinality(K)) = Cardinality(K)
    BY <1>5, FS_Interval
  <2>2. s \in Surjection(1..Cardinality(K), K)
    BY <1>5, <1>6, <2>1, FS_Injection
  <2> QED BY <1>7, <2>2 DEF Surjection
<1>10. \A i \in 1..Len(s) : s[i] \in K /\ s[i] \in rest /\ s[i] \in H
  BY <1>2, <1>3, <1>6, <1>7
<1>11. \A i, j \in 1..Len(s) : i < j =>
         \/ Priority[s[i]] > Priority[s[j]]
         \/ Priority[s[i]] = Priority[s[j]]
  BY <1>7 DEF FallbackLists
<1> HIDE DEF lvl, rest
<1>12. ASSUME NEW i \in 1..Len(s)
       PROVE  s[i] # c /\ Priority[s[i]] <= lvl
  BY <1>4, <1>10, <1>12 DEF rest
<1>13. ASSUME NEW i \in 1..Len(s), NEW j \in 1..Len(s), i < j
       PROVE  /\ s[i] # s[j]
              /\ \/ Priority[s[i]] > Priority[s[j]]
                 \/ Priority[s[i]] = lvl /\ Priority[s[j]] = lvl
  <2>1. s[i] # s[j]
    BY <1>8, <1>13
  <2>2. ASSUME Priority[s[i]] = Priority[s[j]], Priority[s[i]] # lvl
        PROVE  FALSE
    <3>1. PICK k : Level(K, Priority[s[i]]) = {k}
      BY <1>2, <1>10, <2>2
    <3>2. s[i] \in Level(K, Priority[s[i]]) /\ s[j] \in Level(K, Priority[s[i]])
      BY <1>10, <2>2 DEF Level
    <3> QED BY <2>1, <3>1, <3>2
  <2>3. \/ Priority[s[i]] > Priority[s[j]]
        \/ Priority[s[i]] = Priority[s[j]]
    BY <1>11, <1>13
  <2> QED BY <2>1, <2>2, <2>3
<1>14. ASSUME NEW i \in 1..Len(s), Priority[s[i]] # lvl,
              NEW q \in Level(H, lvl), q # c
       PROVE  \E j \in 1..(i - 1) : s[j] = q
  <2>1. q \in K /\ Priority[q] = lvl
    <3>1. q \in H /\ Priority[q] = lvl
      BY <1>14 DEF Level
    <3>2. q \in rest
      BY <1>14, <3>1 DEF rest, HealthyPeers, lvl
    <3> QED BY <1>2, <3>1, <3>2 DEF Level
  <2>2. PICK j \in 1..Len(s) : s[j] = q
    BY <1>9, <2>1
  <2>3. Priority[s[i]] < lvl
    <3>1. Priority[s[i]] \in Nat /\ Priority[s[i]] <= lvl
      BY <1>4, <1>10
    <3> QED BY <1>4, <1>14, <3>1
  <2>4. i # j
    BY <1>14, <2>1, <2>2
  <2>5. ~ (i < j)
    <3>1. ASSUME i < j PROVE FALSE
      <4>1. \/ Priority[s[i]] > Priority[s[j]]
            \/ Priority[s[i]] = lvl /\ Priority[s[j]] = lvl
        BY <1>13, <3>1
      <4>2. Priority[s[i]] \in Nat
        BY <1>4, <1>10
      <4> QED BY <1>4, <1>14, <2>1, <2>2, <2>3, <4>1, <4>2
    <3> QED BY <3>1
  <2>6. j \in 1..(i - 1)
    BY <1>5, <1>7, <2>4, <2>5
  <2> QED BY <2>2, <2>6
<1> QED BY <1>3, <1>12, <1>13, <1>14 DEF Ordered, lvl
BeforeAdmit == {"idle", "sum", "gate", "pick", "lockwait", "scan", "scanLocked", "incr"}
ChainOf(r) ==
  /\ pc[r] = "incr" => chosen[r] \in HealthyPeers(healthy[r])
  /\ pc[r] \in BeforeAdmit => tried[r] = <<>> /\ attempt[r] = 0
  /\ pc[r] \in {"proxy", "clampRetry", "retry"} => tried[r] # <<>>
  /\ tried[r] # <<>> =>
       /\ Ordered(healthy[r], chosen[r], fb[r])
       /\ attempt[r] <= MoreTries(r)
       /\ Len(tried[r]) = attempt[r] + 1
       /\ tried[r][1] = chosen[r]
       /\ \A i \in 1..attempt[r] : tried[r][i + 1] = fb[r][i]
Chain == \A r \in Requests : ChainOf(r)
KInv  == IInv /\ Chain

\* A request that a step leaves alone, or moves between two places of the
\* same kind.
LEMMA KeepsChain ==
  ASSUME NEW r \in Requests, ChainOf(r),
         healthy'[r] = healthy[r], chosen'[r] = chosen[r], fb'[r] = fb[r],
         attempt'[r] = attempt[r], tried'[r] = tried[r],
         pc'[r] = "incr" => pc[r] = "incr",
         pc'[r] \in BeforeAdmit => pc[r] \in BeforeAdmit,
         pc'[r] \in {"proxy", "clampRetry", "retry"} =>
           pc[r] \in {"proxy", "clampRetry", "retry"}
  PROVE  ChainOf(r)'
<1>1. MoreTries(r)' = MoreTries(r)
  BY DEF MoreTries
<1> QED BY <1>1 DEF ChainOf

\* Every way to pick a peer picks one of the active tier.
LEMMA PickChain ==
  ASSUME NEW r \in Requests, KInv, pc[r] \in {"pick", "scan", "scanLocked"},
         NEW p \in HealthyPeers(healthy[r]),
         chosen' = [chosen EXCEPT ![r] = p], pc' = [pc EXCEPT ![r] = "incr"],
         UNCHANGED <<healthy, fb, attempt, tried>>
  PROVE  Chain'
<1>1. /\ pc \in [Requests -> PCs]
      /\ chosen \in [Requests -> Peers \cup {NoPeer}]
      /\ \A q \in Requests : ChainOf(q)
  BY DEF KInv, IInv, TypeOK, Chain
<1>2. ChainOf(r)'
  <2>1. tried'[r] = <<>> /\ attempt'[r] = 0
    BY <1>1 DEF ChainOf, BeforeAdmit
  <2>2. chosen'[r] = p /\ healthy'[r] = healthy[r] /\ pc'[r] = "incr"
    BY <1>1
  <2> QED BY <2>1, <2>2 DEF ChainOf
<1>3. \A q \in Requests : q # r => ChainOf(q)'
  BY <1>1, KeepsChain
<1> QED BY <1>2, <1>3 DEF Chain

LEMMA AdmitChain ==
  ASSUME NEW r \in Requests, KInv, Admit(r)
  PROVE  Chain'
<1>1. /\ pc \in [Requests -> PCs]
      /\ chosen \in [Requests -> Peers \cup {NoPeer}]
      /\ healthy \in [Requests -> SUBSET Peers]
      /\ fb \in [Requests -> Seq(Peers)] /\ fb' \in [Requests -> Seq(Peers)]
      /\ tried \in [Requests -> Seq(Peers)]
      /\ attempt \in [Requests -> 0..MaxMoreTries]
      /\ \A q \in Requests : ChainOf(q)
  BY AdmitType DEF KInv, IInv, TypeOK, Chain
<1>2. PICK s \in FallbackLists(healthy[r], chosen[r]) : fb' = [fb EXCEPT ![r] = s]
  BY DEF Admit
<1>3. chosen[r] \in HealthyPeers(healthy[r]) /\ attempt[r] = 0
  BY <1>1 DEF Admit, ChainOf, BeforeAdmit
<1>4. Ordered(healthy[r], chosen[r], s)
  BY <1>1, <1>2, <1>3, FallbackOrdered
<1>5. /\ fb'[r] = s /\ tried'[r] = <<chosen[r]>> /\ pc'[r] = "proxy"
      /\ chosen'[r] = chosen[r] /\ healthy'[r] = healthy[r] /\ attempt'[r] = 0
  BY <1>1, <1>2, <1>3 DEF Admit, Goto
<1>6. MoreTries(r)' \in Nat
  <2>1. fb'[r] \in Seq(Peers)
    BY <1>1
  <2> QED BY <2>1, RouteAssumption DEF MoreTries
<1>7. ChainOf(r)'
  <2>1. Len(tried'[r]) = attempt'[r] + 1 /\ tried'[r][1] = chosen'[r] /\ tried'[r] # <<>>
    BY <1>5
  <2>2. \A i \in 1..attempt'[r] : FALSE
    BY <1>5
  <2>3. attempt'[r] <= MoreTries(r)'
    BY <1>5, <1>6
  <2>4. Ordered(healthy[r], chosen[r], fb[r])'
    BY <1>4, <1>5
  <2> QED BY <1>5, <2>1, <2>2, <2>3, <2>4 DEF ChainOf, BeforeAdmit
<1>8. \A q \in Requests : q # r => ChainOf(q)'
  BY <1>1, <1>2, KeepsChain DEF Admit, Goto
<1> QED BY <1>7, <1>8 DEF Chain

\* The retry goes to the entry of the fallback list that is next in line.
LEMMA RetryChainStep ==
  ASSUME NEW r \in Requests, KInv, RetryAcquire(r)
  PROVE  Chain'
<1> DEFINE new == fb[r][attempt[r] + 1]
<1>1. /\ pc \in [Requests -> PCs]
      /\ tried \in [Requests -> Seq(Peers)]
      /\ attempt \in [Requests -> 0..MaxMoreTries]
      /\ \A q \in Requests : ChainOf(q)
      /\ MaxMoreTries \in Nat
  BY RouteAssumption DEF KInv, IInv, TypeOK, Chain
<1>2. new \in Peers /\ attempt[r] < MoreTries(r) /\ MoreTries(r) \in Nat
  BY RetryAcquirePeer, MoreTriesType DEF RetryAcquire, KInv, IInv, Phases, PhaseOf
<1>3. /\ tried'[r] = Append(tried[r], new) /\ attempt'[r] = attempt[r] + 1
      /\ pc'[r] = "proxy" /\ fb'[r] = fb[r] /\ chosen'[r] = chosen[r]
      /\ healthy'[r] = healthy[r] /\ MoreTries(r)' = MoreTries(r)
  BY <1>1, RetryAcquirePeer DEF RetryAcquire, Goto, KInv, MoreTries
<1>4. \A q \in Requests : q # r =>
        /\ tried'[q] = tried[q] /\ attempt'[q] = attempt[q] /\ pc'[q] = pc[q]
        /\ fb'[q] = fb[q] /\ chosen'[q] = chosen[q] /\ healthy'[q] = healthy[q]
  BY <1>1 DEF RetryAcquire, Goto
<1>5. /\ tried[r] # <<>>
      /\ Ordered(healthy[r], chosen[r], fb[r])
      /\ Len(tried[r]) = attempt[r] + 1
      /\ tried[r][1] = chosen[r]
      /\ \A i \in 1..attempt[r] : tried[r][i + 1] = fb[r][i]
  BY <1>1 DEF RetryAcquire, ChainOf
<1>n. new = fb[r][attempt[r] + 1]
  OBVIOUS
<1> HIDE DEF new
<1>6. /\ tried[r] \in Seq(Peers) /\ attempt[r] \in Nat
      /\ Len(tried'[r]) = attempt'[r] + 1 /\ tried'[r] # <<>>
      /\ tried'[r][1] = chosen'[r]
  <2>1. tried[r] \in Seq(Peers) /\ attempt[r] \in Nat
    BY <1>1
  <2>2. Len(tried'[r]) = Len(tried[r]) + 1
    BY <1>2, <1>3, <2>1
  <2>3. tried'[r][1] = tried[r][1]
    BY <1>2, <1>3, <1>5, <2>1
  <2>4. tried'[r] # <<>>
    BY <1>2, <1>3, <2>1
  <2> QED BY <1>3, <1>5, <2>1, <2>2, <2>3, <2>4
<1>7. \A i \in 1..attempt'[r] : tried'[r][i + 1] = fb'[r][i]
  <2> SUFFICES ASSUME NEW i \in 1..(attempt[r] + 1)
               PROVE  Append(tried[r], new)[i + 1] = fb[r][i]
    BY <1>3
  <2>1. CASE i = attempt[r] + 1
    <3>1. i + 1 = Len(tried[r]) + 1
      BY <1>5, <2>1
    <3>2. Append(tried[r], new)[i + 1] = new
      BY <1>2, <1>6, <3>1
    <3> QED BY <1>n, <2>1, <3>2
  <2>2. CASE i # attempt[r] + 1
    <3>1. i \in 1..attempt[r] /\ i + 1 \in 1..Len(tried[r])
      BY <1>5, <1>6, <2>2
    <3>2. Append(tried[r], new)[i + 1] = tried[r][i + 1]
      BY <1>2, <1>6, <3>1
    <3> QED BY <1>5, <3>1, <3>2
  <2> QED BY <2>1, <2>2
<1>8. ChainOf(r)'
  <2>1. attempt'[r] <= MoreTries(r)'
    BY <1>2, <1>3, <1>6
  <2>2. Ordered(healthy[r], chosen[r], fb[r])'
    BY <1>3, <1>5
  <2> QED BY <1>3, <1>6, <1>7, <2>1, <2>2 DEF ChainOf, BeforeAdmit
<1>9. \A q \in Requests : q # r => ChainOf(q)'
  BY <1>1, <1>4, KeepsChain
<1> QED BY <1>8, <1>9 DEF Chain

LEMMA NextKInv ==
  ASSUME KInv, [Next]_vars
  PROVE  KInv'
<1>1. IInv /\ IInv'
  BY NextIInv DEF KInv
<1>t. /\ pc \in [Requests -> PCs]
      /\ chosen \in [Requests -> Peers \cup {NoPeer}]
      /\ healthy \in [Requests -> SUBSET Peers]
      /\ \A q \in Requests : ChainOf(q)
  BY <1>1 DEF IInv, TypeOK, KInv, Chain
<1>2. ASSUME NEW r \in Requests, NEW w \in Workers, EarlyExit(r, w)
      PROVE  Chain'
  BY <1>t, <1>2, KeepsChain DEF EarlyExit, Goto, BeforeAdmit, Chain
<1>3. ASSUME NEW r \in Requests, NEW w \in Workers, AssessBans(r, w)
      PROVE  Chain'
  <2>1. PICK l \in {"log", "sum"} : pc' = [pc EXCEPT ![r] = l]
    BY <1>3 DEF AssessBans, Goto
  <2>2. tried'[r] = <<>> /\ attempt'[r] = 0 /\ pc'[r] = l
    BY <1>t, <1>3, <2>1 DEF AssessBans, ChainOf, BeforeAdmit
  <2>3. ChainOf(r)'
    BY <2>2 DEF ChainOf, BeforeAdmit
  <2>4. \A q \in Requests : q # r => ChainOf(q)'
    BY <1>t, <1>3, <2>1, KeepsChain DEF AssessBans
  <2> QED BY <2>3, <2>4 DEF Chain
<1>4. ASSUME NEW r \in Requests, ReadInflight(r) \/ Gate(r)
      PROVE  Chain'
  BY <1>t, <1>4, KeepsChain DEF ReadInflight, Gate, Goto, BeforeAdmit, Chain
<1>5. ASSUME NEW r \in Requests, PickHash(r)
      PROVE  Chain'
  BY <1>5, PickChain DEF PickHash, Goto
<1>6. ASSUME NEW r \in Requests, PickLeastConn(r)
      PROVE  Chain'
  BY <1>t, <1>6, KeepsChain DEF PickLeastConn, TryLock, Goto, BeforeAdmit, Chain
<1>7. ASSUME NEW r \in Requests, LockAcquire(r) \/ LockTimeout(r)
      PROVE  Chain'
  BY <1>t, <1>7, KeepsChain DEF LockAcquire, LockTimeout, Goto, BeforeAdmit, Chain
<1>8. ASSUME NEW r \in Requests, ScanLeastConn(r)
      PROVE  Chain'
  BY <1>8, PickChain DEF ScanLeastConn, LeastLoaded, Goto
<1>9. ASSUME NEW r \in Requests, Admit(r)
      PROVE  Chain'
  BY <1>9, AdmitChain
<1>10. ASSUME NEW r \in Requests, RetryAcquire(r)
       PROVE  Chain'
  BY <1>10, RetryChainStep
<1>11. ASSUME NEW r \in Requests,
              \/ RetryRelease(r) \/ Respond(r) \/ LogRelease(r) \/ LogRelease501(r)
              \/ ClampToZero(r)
       PROVE  Chain'
  <2>1. UNCHANGED <<healthy, chosen, fb, attempt, tried>>
    BY <1>11 DEF RetryRelease, Respond, LogRelease, LogRelease501, ClampToZero
  <2>2. \E l \in PCs \ BeforeAdmit :
          /\ pc' = [pc EXCEPT ![r] = l]
          /\ l \in {"proxy", "clampRetry", "retry"} =>
               pc[r] \in {"proxy", "clampRetry", "retry"}
    <3>1. CASE RetryRelease(r)
      BY <3>1 DEF RetryRelease, Decrement, Goto, PCs, BeforeAdmit
    <3>2. CASE Respond(r)
      BY <3>2 DEF Respond, Goto, PCs, BeforeAdmit
    <3>3. CASE LogRelease(r) \/ LogRelease501(r)
      BY <3>3 DEF LogRelease, LogRelease501, Decrement, Goto, PCs, BeforeAdmit
    <3>4. CASE ClampToZero(r) /\ pc[r] = "clampRetry"
      BY <3>4 DEF ClampToZero, Goto, PCs, BeforeAdmit
    <3>5. CASE ClampToZero(r) /\ pc[r] # "clampRetry"
      <4>1. pc' = [pc EXCEPT ![r] = "done"]
        BY <3>5 DEF ClampToZero, Goto
      <4>2. "done" \in PCs \ BeforeAdmit /\ "done" \notin {"proxy", "clampRetry", "retry"}
        BY DEF PCs, BeforeAdmit
      <4> QED BY <4>1, <4>2, Zenon
    <3> QED BY <1>11, <3>1, <3>2, <3>3, <3>4, <3>5
  <2>3. ASSUME NEW q \in Requests PROVE ChainOf(q)'
    <3>1. PICK l \in PCs \ BeforeAdmit :
            /\ pc' = [pc EXCEPT ![r] = l]
            /\ l \in {"proxy", "clampRetry", "retry"} =>
                 pc[r] \in {"proxy", "clampRetry", "retry"}
      BY <2>2
    <3>2. l # "incr" /\ l \notin BeforeAdmit
      BY <3>1 DEF BeforeAdmit
    <3>3. CASE q = r
      BY <1>t, <2>1, <3>1, <3>2, <3>3, KeepsChain
    <3>4. CASE q # r
      BY <1>t, <2>1, <3>1, <3>4, KeepsChain
    <3> QED BY <3>3, <3>4
  <2> QED BY <2>3 DEF Chain
<1>12. ASSUME NEW w \in Workers, WorkerCrash(w)
       PROVE  Chain'
  BY <1>t, <1>12, KeepsChain DEF WorkerCrash, BeforeAdmit, Chain
<1>13. ASSUME \/ \E p \in Peers : Ban(p) \/ Unban(p)
              \/ AdaptiveTick \/ LockExpire \/ OperatorSet \/ UNCHANGED vars
       PROVE  Chain'
  <2>1. UNCHANGED <<healthy, chosen, fb, attempt, tried, pc>>
    BY <1>13 DEF Ban, Unban, AdaptiveTick, LockExpire, OperatorSet, vars, reqVars
  <2> QED BY <1>t, <2>1, KeepsChain DEF Chain
<1>14. Chain'
  BY <1>2, <1>3, <1>4, <1>5, <1>6, <1>7, <1>8, <1>9, <1>10, <1>11, <1>12, <1>13
     DEF Next, Advance
<1> QED BY <1>1, <1>14 DEF KInv

\* What the invariant says of the peers tried.
LEMMA ChainIsOrdered ==
  ASSUME KInv
  PROVE  RetryChain
<1> SUFFICES ASSUME NEW r \in Requests
             PROVE  LET t == tried[r]  lvl == ActiveLevel(healthy[r]) IN
                    /\ Len(t) <= MaxMoreTries + 1
                    /\ \A i, j \in DOMAIN t : i < j =>
                         /\ t[i] # t[j]
                         /\ \/ Priority[t[i]] > Priority[t[j]]
                            \/ Priority[t[i]] = lvl /\ Priority[t[j]] = lvl
                    /\ \A i \in DOMAIN t : Priority[t[i]] # lvl =>
                         \A p \in Level(healthy[r], lvl) : \E j \in 1..i : t[j] = p
  BY DEF RetryChain
<1> DEFINE t == tried[r]
           lvl == ActiveLevel(healthy[r])
           s == fb[r]
           c == chosen[r]
           n == attempt[r]
<1>1. /\ t \in Seq(Peers) /\ s \in Seq(Peers) /\ n \in 0..MaxMoreTries
      /\ MoreTries(r) \in Nat /\ MoreTries(r) <= Len(s) /\ MaxMoreTries \in Nat
      /\ healthy[r] \in SUBSET Peers
  BY MoreTriesType, RouteAssumption DEF KInv, IInv, TypeOK
<1>2. CASE t = <<>>
  <2>1. Len(t) = 0 /\ DOMAIN t = {}
    BY <1>2
  <2> QED BY <1>1, <2>1
<1>3. CASE t # <<>>
  <2>1. /\ Ordered(healthy[r], c, s) /\ n <= MoreTries(r) /\ Len(t) = n + 1
        /\ t[1] = c /\ \A i \in 1..n : t[i + 1] = s[i]
    BY <1>3 DEF KInv, Chain, ChainOf
  <2>2. /\ c \in Peers /\ Priority[c] = lvl
        /\ \A i \in 1..Len(s) : s[i] # c /\ Priority[s[i]] <= lvl
        /\ \A i, j \in 1..Len(s) : i < j =>
             /\ s[i] # s[j]
             /\ \/ Priority[s[i]] > Priority[s[j]]
                \/ Priority[s[i]] = lvl /\ Priority[s[j]] = lvl
        /\ \A i \in 1..Len(s) : Priority[s[i]] # lvl =>
             \A q \in Level(healthy[r], lvl) : q = c \/ \E j \in 1..(i - 1) : s[j] = q
    BY <2>1 DEF Ordered
  <2>3. lvl \in Nat /\ \A p \in Peers : Priority[p] \in Nat
    BY <2>2, RouteAssumption
  <2> HIDE DEF t, s, c, n, lvl
  <2>4. ASSUME NEW i \in DOMAIN t, i # 1
        PROVE  i - 1 \in 1..n /\ i - 1 \in 1..Len(s) /\ t[i] = s[i - 1] /\ s[i - 1] \in Peers
    <3>1. i \in 1..Len(t)
      BY <1>1, <2>4
    <3>2. i \in Int /\ i - 1 \in 1..n /\ (i - 1) + 1 = i
      BY <1>1, <2>1, <2>4, <3>1
    <3>3. i - 1 \in 1..Len(s)
      BY <1>1, <2>1, <3>2
    <3>4. t[(i - 1) + 1] = s[i - 1]
      BY <2>1, <3>2
    <3> QED BY <1>1, <3>2, <3>3, <3>4
  <2>5. ASSUME NEW i \in DOMAIN t, NEW j \in DOMAIN t, i < j
        PROVE  /\ t[i] # t[j]
               /\ \/ Priority[t[i]] > Priority[t[j]]
                  \/ Priority[t[i]] = lvl /\ Priority[t[j]] = lvl
    <3>0. i \in 1..Len(t) /\ j \in 1..Len(t) /\ j # 1 /\ i \in Int /\ j \in Int
      <4>1. DOMAIN t = 1..Len(t) /\ Len(t) \in Nat
        BY <1>1
      <4> QED BY <2>5, <4>1
    <3>1. j - 1 \in 1..Len(s) /\ t[j] = s[j - 1] /\ s[j - 1] \in Peers
      BY <2>4, <3>0
    <3>2. CASE i = 1
      <4>1. t[i] = c
        BY <2>1, <3>2
      <4>2. s[j - 1] # c /\ Priority[s[j - 1]] <= lvl
        BY <2>2, <3>1
      <4>3. Priority[s[j - 1]] \in Nat
        BY <2>3, <3>1
      <4> QED BY <2>2, <2>3, <3>1, <4>1, <4>2, <4>3
    <3>3. CASE i # 1
      <4>1. i - 1 \in 1..Len(s) /\ t[i] = s[i - 1]
        BY <2>4, <3>3
      <4>2. i - 1 < j - 1
        BY <2>5, <3>0
      <4> QED BY <2>2, <3>1, <4>1, <4>2
    <3> QED BY <3>2, <3>3
  <2>6. ASSUME NEW i \in DOMAIN t, Priority[t[i]] # lvl,
               NEW p \in Level(healthy[r], lvl)
        PROVE  \E j \in 1..i : t[j] = p
    <3>0. i \in 1..Len(t) /\ i \in Int
      BY <1>1, <2>6
    <3>1. i # 1
      BY <2>1, <2>2, <2>6
    <3>2. i - 1 \in 1..n /\ i - 1 \in 1..Len(s) /\ t[i] = s[i - 1]
      BY <2>4, <3>1
    <3>3. CASE p = c
      <4>1. 1 \in 1..i
        BY <3>0
      <4> QED BY <2>1, <3>3, <4>1
    <3>4. CASE p # c
      <4>1. PICK k \in 1..((i - 1) - 1) : s[k] = p
        BY <2>2, <2>6, <3>2, <3>4
      <4>2. k \in 1..n /\ k + 1 \in 1..i
        BY <1>1, <3>0, <3>2
      <4>3. t[k + 1] = p
        BY <2>1, <4>1, <4>2
      <4> QED BY <4>2, <4>3
    <3> QED BY <3>3, <3>4
  <2>7. Len(t) <= MaxMoreTries + 1
    BY <1>1, <2>1
  <2> QED BY <2>5, <2>6, <2>7 DEF t, lvl
<1> QED BY <1>2, <1>3

\* The retry chain holds for any pool, any tiers, any bans and any load: no
\* peer is tried twice, at most max_more_tries retries are made, and the
\* whole active tier is tried before the tiers below it, in their order.
THEOREM RetriesInOrder == Spec => []RetryChain
<1>1. Init => KInv
  <2> SUFFICES ASSUME Init PROVE KInv
    OBVIOUS
  <2>1. Chain
    BY DEF Init, Chain, ChainOf
  <2> QED BY <2>1, InitIInv DEF KInv
<1>2. KInv /\ [Next]_vars => KInv'
  BY NextKInv
<1>3. KInv => RetryChain
  BY ChainIsOrdered
<1> QED BY <1>1, <1>2, <1>3, PTL DEF Spec

-----------------------------------------------------------------------------
(***************************************************************************)
(* What the gate overlooks.  While a handler reads the counters one by     *)
(* one, the sum of those it has read exceeds what it has added up by no    *)
(* more than the requests counted in behind its back; at the gate the sum  *)
(* is complete, and until its own increment only such requests raise it.   *)
(***************************************************************************)
Read(r) == SumFunctionOnSet(active, 1..(cursor[r] - 1))
Total   == SumFunctionOnSet(active, Peers)

ReadingOf(r) ==
  /\ pc[r] = "idle" => cursor[r] = 1 /\ rtSum[r] = 0 /\ unseen[r] = 0
  /\ pc[r] = "gate" => cursor[r] = NPeers + 1
  /\ pc[r] \in {"sum", "gate"} => Read(r) <= rtSum[r] + unseen[r]
  /\ pc[r] \in PastGate /\ ~IsProbe[r] => ~HitRt(r, Total - unseen[r], limit[r])

RInv == CInv /\ (resets = 0 => \A r \in Requests : ReadingOf(r))

\* The sets a handler sums over.
LEMMA ReadSets ==
  ASSUME TypeOK, NEW r \in Requests
  PROVE  /\ 1..(cursor[r] - 1) \in SUBSET Peers
         /\ \A p \in Peers : p \in 1..(cursor[r] - 1) <=> p < cursor[r]
         /\ Read(r) \in Int /\ Total \in Int
         /\ cursor[r] \in Int /\ rtSum[r] \in Int /\ unseen[r] \in Int /\ limit[r] \in Int
<1>1. /\ cursor[r] \in Int /\ rtSum[r] \in Int /\ unseen[r] \in Int /\ limit[r] \in Int
      /\ cursor[r] <= NPeers + 1 /\ NPeers \in Int
  BY SetsAssumption DEF TypeOK
<1>2. /\ 1..(cursor[r] - 1) \in SUBSET Peers
      /\ \A p \in Peers : p \in 1..(cursor[r] - 1) <=> p < cursor[r]
  BY <1>1 DEF Peers
<1>3. Read(r) \in Int /\ Total \in Int
  BY <1>2, SumOfPeers DEF Read, Total, TypeOK
<1> QED BY <1>1, <1>2, <1>3

\* A request keeps what it knows while it stays where it is, if the counters
\* it has read grow by no more than what goes unseen.
LEMMA KeepsReading ==
  ASSUME TypeOK, TypeOK', NEW q \in Requests, ReadingOf(q),
         cursor'[q] = cursor[q], rtSum'[q] = rtSum[q],
         \/ pc'[q] = pc[q] /\ limit'[q] = limit[q]
         \/ pc[q] \in PastGate /\ pc'[q] \in PastGate /\ limit'[q] = limit[q]
         \/ pc'[q] \notin {"idle", "sum", "gate"} \cup PastGate,
         pc[q] = "idle" => unseen'[q] = unseen[q],
         pc[q] \in {"sum", "gate"} => Read(q)' - unseen'[q] <= Read(q) - unseen[q],
         pc[q] \in PastGate => Total' - unseen'[q] <= Total - unseen[q]
  PROVE  ReadingOf(q)'
<1>1. /\ Read(q) \in Int /\ Total \in Int /\ unseen[q] \in Int /\ rtSum[q] \in Int /\ limit[q] \in Int
      /\ Read(q)' \in Int /\ Total' \in Int /\ unseen'[q] \in Int
  <2>1. active' \in [Peers -> Int] /\ unseen'[q] \in Int
    BY DEF TypeOK
  <2>2. 1..(cursor[q] - 1) \in SUBSET Peers
    BY ReadSets
  <2>3. Read(q)' \in Int /\ Total' \in Int
    BY <2>1, <2>2, SumOfPeers DEF Read, Total
  <2> QED BY <2>1, <2>3, ReadSets
<1>2. (pc[q] = "idle" => unseen'[q] = 0) /\ (pc'[q] = "idle" => pc[q] = "idle")
  BY DEF ReadingOf, PastGate
<1>3. pc'[q] \in {"sum", "gate"} => pc'[q] = pc[q]
  BY DEF PastGate
<1>4. pc'[q] \in {"sum", "gate"} => Read(q)' <= rtSum'[q] + unseen'[q]
  BY <1>1, <1>3 DEF ReadingOf
<1>5. ASSUME pc'[q] \in PastGate, ~IsProbe[q]
      PROVE  ~HitRt(q, Total' - unseen'[q], limit'[q])
  <2>1. pc[q] \in PastGate /\ limit'[q] = limit[q]
    BY <1>5
  <2>2. ~HitRt(q, Total - unseen[q], limit[q]) /\ Total' - unseen'[q] <= Total - unseen[q]
    BY <1>5, <2>1 DEF ReadingOf
  <2> DEFINE a == Total - unseen[q]
             b == Total' - unseen'[q]
             x == limit[q] * SharePct[q]
  <2>3. a \in Int /\ b \in Int /\ x \in Int /\ b <= a
    BY <1>1, <2>2, RequestAssumption
  <2>4. ~(a * 100 >= x)
    BY <2>2 DEF HitRt
  <2> HIDE DEF a, b, x
  <2>5. ~(b * 100 >= x)
    BY <2>3, <2>4
  <2> QED BY <2>1, <2>5 DEF HitRt, a, b, x
<1> QED BY <1>2, <1>3, <1>4, <1>5 DEF ReadingOf

\* Steps that raise no counter and hide none.
LEMMA LowersReading ==
  ASSUME TypeOK, TypeOK', NEW q \in Requests, ReadingOf(q),
         \/ active' = active
         \/ \E k \in Peers : active' = [active EXCEPT ![k] = active[k] - 1],
         UNCHANGED <<cursor, rtSum, limit, unseen>>,
         \/ pc'[q] = pc[q]
         \/ pc[q] \in PastGate /\ pc'[q] \in PastGate
         \/ pc'[q] \notin {"idle", "sum", "gate"} \cup PastGate
  PROVE  ReadingOf(q)'
<1>1. 1..(cursor[q] - 1) \in SUBSET Peers /\ Read(q) \in Int /\ Total \in Int /\ unseen[q] \in Int
  BY ReadSets
<1>2. Read(q)' <= Read(q) /\ Total' <= Total /\ Read(q)' \in Int /\ Total' \in Int
  <2>1. CASE active' = active
    BY <1>1, <2>1 DEF Read, Total
  <2>2. ASSUME NEW k \in Peers, active' = [active EXCEPT ![k] = active[k] - 1]
        PROVE  Read(q)' <= Read(q) /\ Total' <= Total /\ Read(q)' \in Int /\ Total' \in Int
    <3>1. /\ active \in [Peers -> Int] /\ active' \in [Peers -> Int]
          /\ \A x \in Peers \ {k} : active'[x] = active[x]
          /\ active[k] \in Int /\ active'[k] = active[k] - 1
      BY <2>2 DEF TypeOK
    <3>2. ASSUME NEW S \in SUBSET Peers
          PROVE  /\ SumFunctionOnSet(active, S) \in Int /\ SumFunctionOnSet(active', S) \in Int
                 /\ SumFunctionOnSet(active', S) <= SumFunctionOnSet(active, S)
      <4>1. /\ SumFunctionOnSet(active, S) \in Int /\ SumFunctionOnSet(active', S) \in Int
            /\ k \notin S => SumFunctionOnSet(active', S) = SumFunctionOnSet(active, S)
            /\ k \in S => SumFunctionOnSet(active', S) =
                            SumFunctionOnSet(active, S) + (active'[k] - active[k])
        BY <3>1, SumChange
      <4> QED BY <3>1, <4>1
    <3> QED BY <1>1, <3>2 DEF Read, Total
  <2> QED BY <2>1, <2>2
<1> QED BY <1>1, <1>2, KeepsReading

\* A request is counted in: whoever has read the peer misses it, whoever has
\* not will see it.
LEMMA CountInReading ==
  ASSUME TypeOK, TypeOK', NEW r \in Requests, NEW k \in Peers, CountIn(r, k),
         NEW q \in Requests, q # r, ReadingOf(q),
         pc'[q] = pc[q], limit'[q] = limit[q], UNCHANGED <<cursor, rtSum>>
  PROVE  ReadingOf(q)'
<1>1. /\ 1..(cursor[q] - 1) \in SUBSET Peers /\ (k \in 1..(cursor[q] - 1) <=> k < cursor[q])
      /\ Read(q) \in Int /\ Total \in Int /\ unseen[q] \in Int
  BY ReadSets
<1>2. unseen'[q] = IF HasRead(q, k) THEN unseen[q] + 1 ELSE unseen[q]
  BY DEF CountIn
<1>3. /\ Read(q)' = Read(q) + (IF k < cursor[q] THEN 1 ELSE 0)
      /\ Total' = Total + 1
  <2>1. /\ active \in [Peers -> Int] /\ active' \in [Peers -> Int]
        /\ \A x \in Peers \ {k} : active'[x] = active[x]
        /\ active[k] \in Int /\ active'[k] = active[k] + 1
    BY DEF TypeOK, CountIn
  <2>2. ASSUME NEW S \in SUBSET Peers
        PROVE  SumFunctionOnSet(active', S) =
                 SumFunctionOnSet(active, S) + (IF k \in S THEN 1 ELSE 0)
    <3>1. /\ SumFunctionOnSet(active, S) \in Int /\ SumFunctionOnSet(active', S) \in Int
          /\ k \notin S => SumFunctionOnSet(active', S) = SumFunctionOnSet(active, S)
          /\ k \in S => SumFunctionOnSet(active', S) =
                          SumFunctionOnSet(active, S) + (active'[k] - active[k])
      BY <2>1, SumChange
    <3> QED BY <2>1, <3>1
  <2>3. Read(q)' = Read(q) + (IF k \in 1..(cursor[q] - 1) THEN 1 ELSE 0)
    BY <1>1, <2>2 DEF Read
  <2>4. Total' = Total + 1
    BY <2>2 DEF Total
  <2> QED BY <1>1, <2>3, <2>4
<1>4. pc[q] = "idle" => unseen'[q] = unseen[q]
  BY <1>2 DEF HasRead, PastGate
<1>5. pc[q] \in {"sum", "gate"} => Read(q)' - unseen'[q] <= Read(q) - unseen[q]
  BY <1>1, <1>2, <1>3 DEF HasRead
<1>6. pc[q] \in PastGate => Total' - unseen'[q] <= Total - unseen[q]
  BY <1>1, <1>2, <1>3 DEF HasRead
<1> QED BY <1>4, <1>5, <1>6, KeepsReading

\* The next counter is read.
LEMMA ReadReading ==
  ASSUME IInv, NEW r \in Requests, ReadInflight(r), ReadingOf(r)
  PROVE  ReadingOf(r)'
<1> DEFINE c == cursor[r]
<1>1. /\ c \in Peers /\ Read(r) \in Int /\ rtSum[r] \in Int /\ unseen[r] \in Int
      /\ active \in [Peers -> Int] /\ c \in Int /\ NPeers \in Int
  <2>1. TypeOK
    BY DEF IInv
  <2>2. cursor[r] \in 1..(NPeers + 1) /\ cursor[r] <= NPeers /\ active \in [Peers -> Int]
    BY DEF IInv, TypeOK, Phases, PhaseOf, ReadInflight
  <2>3. c \in Peers /\ c \in Int /\ NPeers \in Int
    BY <2>2, SetsAssumption DEF Peers
  <2> QED BY <2>1, <2>2, <2>3, ReadSets
<1>2. /\ pc'[r] = IF c = NPeers THEN "gate" ELSE "sum"
      /\ cursor'[r] = c + 1 /\ rtSum'[r] = rtSum[r] + active[c]
      /\ unseen' = unseen /\ active' = active
  BY DEF IInv, TypeOK, ReadInflight, Goto, history
<1>3. Read(r) <= rtSum[r] + unseen[r]
  BY DEF ReadingOf, ReadInflight
<1>4. Read(r)' = Read(r) + active[c]
  <2>1. cursor'[r] - 1 = c
    BY <1>1, <1>2
  <2>2. SumFunctionOnSet(active, 1..c) = SumFunctionOnSet(active, 1..(c - 1)) + active[c]
    BY <1>1, SumPrefix
  <2> QED BY <1>2, <2>1, <2>2 DEF Read
<1>5. Read(r)' <= rtSum'[r] + unseen'[r]
  <2>1. active[c] \in Int
    BY <1>1
  <2> QED BY <1>1, <1>2, <1>3, <1>4, <2>1
<1> QED BY <1>2, <1>5 DEF ReadingOf, PastGate

\* The gate compares what was read with the limit.
LEMMA GateReading ==
  ASSUME IInv, NEW r \in Requests, Gate(r), ReadingOf(r)
  PROVE  ReadingOf(r)'
<1>1. /\ Read(r) \in Int /\ rtSum[r] \in Int /\ unseen[r] \in Int
      /\ pc \in [Requests -> PCs] /\ limit \in [Requests -> Int]
  BY ReadSets DEF IInv, TypeOK
<1>2. CASE pc' = [pc EXCEPT ![r] = "log"]
  BY <1>1, <1>2 DEF ReadingOf, PastGate
<1>3. CASE /\ GateAdmits(r) /\ pc' = [pc EXCEPT ![r] = "pick"] /\ unseen' = unseen
           /\ limit' = [limit EXCEPT ![r] = Limit(healthy[r], cc)]
  <2>1. Read(r) = Total /\ Total <= rtSum[r] + unseen[r]
    <3>1. cursor[r] = NPeers + 1 /\ Read(r) <= rtSum[r] + unseen[r]
      BY DEF ReadingOf, Gate
    <3>2. 1..(cursor[r] - 1) = Peers
      BY <3>1, SetsAssumption DEF Peers
    <3> QED BY <3>1, <3>2 DEF Read, Total
  <2>2. /\ pc'[r] = "pick" /\ limit'[r] = Limit(healthy[r], cc) /\ Total' = Total
        /\ limit'[r] \in Int
    <3>1. Limit(healthy[r], cc) \in Int
      BY LimitType DEF IInv, TypeOK, Phases, PhaseOf, Gate
    <3> QED BY <1>1, <1>3, <3>1 DEF Gate, Total
  <2>3. ASSUME ~IsProbe[r] PROVE ~HitRt(r, Total' - unseen'[r], limit'[r])
    <3> DEFINE x == limit'[r] * SharePct[r]
    <3>1. ~(rtSum[r] * 100 >= x)
      BY <1>3, <2>2, <2>3 DEF GateAdmits, HitRt
    <3>2. x \in Int /\ Total - unseen[r] <= rtSum[r] /\ Total - unseen[r] \in Int
      BY <1>1, <2>1, <2>2, RequestAssumption
    <3> HIDE DEF x
    <3>3. ~((Total - unseen[r]) * 100 >= x)
      BY <1>1, <3>1, <3>2
    <3> QED BY <1>3, <2>2, <3>3 DEF HitRt, x
  <2> QED BY <2>2, <2>3 DEF ReadingOf
<1> QED BY <1>2, <1>3 DEF Gate, Goto

LEMMA NextRInv ==
  ASSUME InterceptErrors = FALSE, RInv, [Next]_vars
  PROVE  RInv'
<1>1. CInv' /\ CInv /\ IInv /\ IInv' /\ TypeOK /\ TypeOK'
  BY NextCInv DEF RInv, CInv, IInv
<1>2. SUFFICES ASSUME resets' = 0, NEW q \in Requests
               PROVE  ReadingOf(q)'
  BY <1>1 DEF RInv
<1>3. resets = 0 /\ resets' = resets
  <2>1. resets' = resets \/ resets' = resets + 1
    BY DEF Next, Advance, EarlyExit, AssessBans, ReadInflight, Gate, PickHash, PickLeastConn,
         LockAcquire, LockTimeout, ScanLeastConn, Admit, RetryRelease, RetryAcquire, Respond,
         LogRelease, LogRelease501, ClampToZero, Ban, Unban, AdaptiveTick, LockExpire,
         WorkerCrash, OperatorSet, vars, history
  <2>2. resets \in Nat
    BY <1>1 DEF TypeOK
  <2> QED BY <1>2, <2>1, <2>2
<1>4. ReadingOf(q) /\ NoClamp
  BY <1>3 DEF RInv, CInv
<1>t. pc \in [Requests -> PCs] /\ limit \in [Requests -> Int] /\ active \in [Peers -> Int]
      /\ cursor \in [Requests -> 1..(NPeers + 1)]
  BY <1>1 DEF TypeOK
<1> USE DEF Goto
<1>5. ASSUME NEW r \in Requests, NEW w \in Workers, EarlyExit(r, w)
      PROVE  ReadingOf(q)'
  <2>1. /\ UNCHANGED <<active, cursor, rtSum, limit, unseen>>
        /\ pc'[q] = pc[q] \/ pc'[q] \notin {"idle", "sum", "gate"} \cup PastGate
    BY <1>5, <1>t DEF EarlyExit, history, PastGate
  <2> QED BY <1>1, <1>4, <2>1, LowersReading
\* Nothing is read yet.
<1>6. ASSUME NEW r \in Requests, NEW w \in Workers, AssessBans(r, w)
      PROVE  ReadingOf(q)'
  <2>1. /\ UNCHANGED <<active, cursor, rtSum, limit, unseen>>
        /\ q # r => pc'[q] = pc[q]
        /\ pc[r] = "idle" /\ pc'[r] \in {"log", "sum"}
    BY <1>6, <1>t DEF AssessBans, history
  <2>2. CASE q # r \/ pc'[r] = "log"
    <3>1. pc'[q] = pc[q] \/ pc'[q] \notin {"idle", "sum", "gate"} \cup PastGate
      BY <2>1, <2>2 DEF PastGate
    <3> QED BY <1>1, <1>4, <2>1, <3>1, LowersReading
  <2>3. CASE q = r /\ pc'[r] = "sum"
    <3>1. cursor[q] = 1 /\ rtSum[q] = 0 /\ unseen[q] = 0
      BY <1>4, <2>1, <2>3 DEF ReadingOf
    <3>2. Read(q) = 0
      <4>1. 1..(1 - 1) = {}
        OBVIOUS
      <4> QED BY <3>1, <4>1, SumStep, FS_EmptySet DEF Read
    <3>3. Read(q)' = Read(q)
      BY <2>1 DEF Read
    <3> QED BY <2>1, <2>3, <3>1, <3>2, <3>3 DEF ReadingOf, PastGate
  <2> QED BY <2>1, <2>2, <2>3
<1>7. ASSUME NEW r \in Requests, ReadInflight(r)
      PROVE  ReadingOf(q)'
  <2>1. CASE q = r
    BY <1>1, <1>4, <1>7, <2>1, ReadReading
  <2>2. CASE q # r
    <3>1. /\ UNCHANGED <<active, limit, unseen>> /\ pc'[q] = pc[q]
          /\ cursor'[q] = cursor[q] /\ rtSum'[q] = rtSum[q]
      BY <1>1, <1>7, <2>2, <1>t DEF TypeOK, ReadInflight, history
    <3>2. Read(q)' = Read(q) /\ Total' = Total
      BY <3>1 DEF Read, Total
    <3>3. Read(q) \in Int /\ Total \in Int /\ unseen[q] \in Int
      BY <1>1, ReadSets
    <3> QED BY <1>1, <1>4, <3>1, <3>2, <3>3, KeepsReading
  <2> QED BY <2>1, <2>2
<1>8. ASSUME NEW r \in Requests, Gate(r)
      PROVE  ReadingOf(q)'
  <2>1. CASE q = r
    BY <1>1, <1>4, <1>8, <2>1, GateReading
  <2>2. CASE q # r
    <3>1. UNCHANGED active /\ pc'[q] = pc[q] /\ cursor'[q] = cursor[q] /\ rtSum'[q] = rtSum[q]
          /\ limit'[q] = limit[q] /\ unseen'[q] = unseen[q]
      BY <1>1, <1>8, <2>2, <1>t DEF TypeOK, Gate
    <3>2. Read(q)' = Read(q) /\ Total' = Total
      BY <3>1 DEF Read, Total
    <3>3. Read(q) \in Int /\ Total \in Int /\ unseen[q] \in Int
      BY <1>1, ReadSets
    <3> QED BY <1>1, <1>4, <3>1, <3>2, <3>3, KeepsReading
  <2> QED BY <2>1, <2>2
\* On the way from the gate to the increment.
<1>9. ASSUME NEW r \in Requests,
             \/ PickHash(r) \/ PickLeastConn(r) \/ LockAcquire(r) \/ LockTimeout(r) \/ ScanLeastConn(r)
      PROVE  ReadingOf(q)'
  <2>1. UNCHANGED <<active, cursor, rtSum, limit, unseen>>
    BY <1>9 DEF PickHash, PickLeastConn, LockAcquire, LockTimeout, ScanLeastConn, history
  <2>2. pc'[q] = pc[q] \/ (pc[q] \in PastGate /\ pc'[q] \in PastGate)
    BY <1>9, <1>t DEF PickHash, PickLeastConn, TryLock, LockAcquire, LockTimeout, ScanLeastConn, PastGate
  <2> QED BY <1>1, <1>4, <2>1, <2>2, LowersReading
<1>10. ASSUME NEW r \in Requests, Admit(r)
       PROVE  ReadingOf(q)'
  <2>1. chosen[r] \in Peers /\ CountIn(r, chosen[r]) /\ UNCHANGED <<cursor, rtSum>>
        /\ pc' = [pc EXCEPT ![r] = "proxy"] /\ limit' = [limit EXCEPT ![r] = 0]
    BY <1>1, <1>10 DEF IInv, Phases, PhaseOf, Admit
  <2>2. CASE q = r
    <3>1. pc'[q] = "proxy"
      BY <1>t, <2>1, <2>2
    <3> QED BY <3>1 DEF ReadingOf, PastGate
  <2>3. CASE q # r
    <3>1. pc'[q] = pc[q] /\ limit'[q] = limit[q]
      BY <1>t, <2>1, <2>3
    <3> QED BY <1>1, <1>4, <2>1, <2>3, <3>1, CountInReading
  <2> QED BY <2>2, <2>3
<1>11. ASSUME NEW r \in Requests, RetryAcquire(r)
       PROVE  ReadingOf(q)'
  <2> DEFINE new == fb[r][attempt[r] + 1]
  <2>1. new \in Peers /\ CountIn(r, new) /\ UNCHANGED <<cursor, rtSum, limit>>
        /\ pc' = [pc EXCEPT ![r] = "proxy"]
    BY <1>1, <1>11, RetryAcquirePeer DEF RetryAcquire
  <2> HIDE DEF new
  <2>2. CASE q = r
    <3>1. pc'[q] = "proxy"
      BY <1>t, <2>1, <2>2
    <3> QED BY <3>1 DEF ReadingOf, PastGate
  <2>3. CASE q # r
    <3>1. pc'[q] = pc[q] /\ limit'[q] = limit[q]
      BY <1>t, <2>1, <2>3
    <3> QED BY <1>1, <1>4, <2>1, <2>3, <3>1, CountInReading
  <2> QED BY <2>2, <2>3
<1>12. ASSUME NEW r \in Requests, RetryRelease(r) \/ LogRelease(r) \/ Respond(r)
       PROVE  ReadingOf(q)'
  <2>1. UNCHANGED <<cursor, rtSum, limit, unseen>>
    BY <1>12 DEF RetryRelease, LogRelease, Respond, history
  <2>2. \/ active' = active
        \/ \E k \in Peers : active' = [active EXCEPT ![k] = active[k] - 1]
    <3>1. CASE key[r] = NoPeer /\ LogRelease(r)
      BY <3>1 DEF LogRelease
    <3>2. CASE RetryRelease(r) \/ (key[r] # NoPeer /\ LogRelease(r))
      <4>1. key[r] \in Peers
        BY <1>1, <3>2 DEF TypeOK, IInv, Phases, PhaseOf, RetryRelease
      <4> QED BY <3>2, <4>1 DEF RetryRelease, LogRelease, Decrement
    <3>3. CASE Respond(r)
      BY <3>3 DEF Respond
    <3> QED BY <1>12, <3>1, <3>2, <3>3
  <2>3. pc'[q] = pc[q] \/ pc'[q] \notin {"idle", "sum", "gate"} \cup PastGate
    BY <1>12, <1>t DEF RetryRelease, LogRelease, Respond, Decrement, PastGate
  <2> QED BY <1>1, <1>4, <2>1, <2>2, <2>3, LowersReading
<1>13. ASSUME NEW r \in Requests, LogRelease501(r) \/ ClampToZero(r)
       PROVE  FALSE
  BY <1>1, <1>4, <1>13 DEF LogRelease501, ClampToZero, CInv, NoLog501, NoClamp
<1>14. CASE \/ \E p \in Peers : Ban(p) \/ Unban(p)
            \/ AdaptiveTick \/ LockExpire \/ UNCHANGED vars
  <2>1. UNCHANGED <<active, cursor, rtSum, limit, unseen, pc>>
    BY <1>14 DEF Ban, Unban, AdaptiveTick, LockExpire, vars, reqVars, history
  <2> QED BY <1>1, <1>4, <2>1, LowersReading
<1>15. ASSUME NEW w \in Workers, WorkerCrash(w)
       PROVE  ReadingOf(q)'
  <2>1. /\ UNCHANGED <<active, cursor, rtSum, limit, unseen>>
        /\ pc'[q] = pc[q] \/ pc'[q] \notin {"idle", "sum", "gate"} \cup PastGate
    BY <1>15 DEF WorkerCrash, PastGate
  <2> QED BY <1>1, <1>4, <2>1, LowersReading
<1>16. ~OperatorSet
  BY <1>1, <1>3 DEF OperatorSet, TypeOK
<1> QED BY <1>5, <1>6, <1>7, <1>8, <1>9, <1>10, <1>11, <1>12, <1>13, <1>14, <1>15, <1>16
       DEF Next, Advance

\* For any number of workers: whatever the others do between a request's
\* reading of the counters and its own increment, its ceiling is reached only
\* by requests counted in on peers it had read, on a route without
\* @return_501 and until an operator overwrites a counter.
THEOREM LimitButForUnseen ==
  ASSUME InterceptErrors = FALSE
  PROVE  Spec => []OnlyUnseenOverLimit
<1>1. Init => RInv
  <2> SUFFICES ASSUME Init PROVE RInv
    OBVIOUS
  <2>1. CInv
    BY InitCInv
  <2>2. \A r \in Requests : ReadingOf(r)
    BY DEF Init, ReadingOf, PastGate
  <2> QED BY <2>1, <2>2 DEF RInv
<1>2. RInv /\ [Next]_vars => RInv'
  BY NextRInv
<1>3. RInv => OnlyUnseenOverLimit
  <2>1. TypeOK => SumFunction(active) = Total
    <3>1. TypeOK => DOMAIN active = Peers
      BY DEF TypeOK
    <3> QED BY <3>1 DEF SumFunction, Total
  <2> QED BY <2>1 DEF RInv, CInv, IInv, ReadingOf, OnlyUnseenOverLimit
<1> QED BY <1>1, <1>2, <1>3, PTL DEF Spec
=============================================================================
