-------------------------- MODULE RouteMetricsProofs ---------------------------
(***************************************************************************)
(* Proofs about the route resolver and the openresty poller (RouteResolver *)
(* and RouteMetrics), for any number of API groups, ModelRoutes, Services, *)
(* openrestys and events: what a snapshot owes to the cluster, that a      *)
(* scrape can compare the replica gauges, that a desired count was         *)
(* committed to, that a rejection is counted once, and what the poller's   *)
(* verdict means.                                                          *)
(***************************************************************************)
EXTENDS RouteMetrics, FiniteSetTheorems, TLAPS

-----------------------------------------------------------------------------
(***************************************************************************)
(* Finite sets.                                                            *)
(***************************************************************************)
\* Induction over finite sets: a family of subsets of a finite set has a
\* smallest member.
LEMMA SmallestSet ==
  ASSUME NEW S, IsFiniteSet(S), NEW Bad, Bad \subseteq SUBSET S, Bad # {}
  PROVE  \E T \in Bad : \A U \in Bad : U \subseteq T => U = T
<1>1. IsWellFoundedOn(StrictSubsetOrdering(S), SUBSET S)
  BY FS_StrictSubsetOrderingWellFounded, FS_FiniteSubsetsOfFinite
<1>2. PICK T \in Bad : \A U \in Bad : ~ (<<U, T>> \in StrictSubsetOrdering(S))
  BY <1>1, WFMin
<1>3. ASSUME NEW U \in Bad, U \subseteq T PROVE U = T
  BY <1>2, <1>3 DEF StrictSubsetOrdering
<1> QED BY <1>3

HasMax(T) == \E m \in T : \A y \in T : m >= y

\* A finite set of numbers has a greatest element: a smallest set without
\* one would still lack it after losing an element.
LEMMA Greatest ==
  ASSUME NEW S, IsFiniteSet(S)
  PROVE  (S \subseteq Int /\ S # {}) => \E m \in S : \A y \in S : m >= y
<1> DEFINE Bad == {T \in SUBSET S : T # {} /\ ~HasMax(T)}
<1>1. Bad # {} => \E T \in Bad : \A Y \in Bad : Y \subseteq T => Y = T
  <2>1. Bad \subseteq SUBSET S
    OBVIOUS
  <2> HIDE DEF Bad
  <2> QED BY <2>1, SmallestSet
<1>2. SUFFICES ASSUME S \subseteq Int, Bad # {} PROVE FALSE
  BY DEF HasMax
<1>3. PICK T \in Bad : \A Y \in Bad : Y \subseteq T => Y = T
  BY <1>1, <1>2
<1>4. T \subseteq S /\ T # {} /\ ~HasMax(T)
  BY <1>3
<1>5. PICK x \in T : TRUE
  BY <1>4
<1>6. T \ {x} \notin Bad
  BY <1>3, <1>5
<1>7. T \ {x} = {} \/ HasMax(T \ {x})
  BY <1>4, <1>6
<1>8. T \subseteq Int /\ x \in Int
  BY <1>2, <1>4, <1>5
<1> QED BY <1>4, <1>5, <1>7, <1>8 DEF HasMax

(***************************************************************************)
(* Sums over the slices. SumFunctionOnSet takes the elements of a set in   *)
(* an unspecified order; what it returns does not depend on it.            *)
(***************************************************************************)
\* The element the fold takes next, and the function it is computed by.
Pick(s) == CHOOSE x \in s : TRUE
Rec(g, T, f) ==
  g = [s \in SUBSET T |-> IF s = {} THEN 0 ELSE f[Pick(s)] + g[s \ {Pick(s)}]]

\* Two such functions agree on the finite sets both are defined for.
LEMMA SumUnique ==
  ASSUME NEW f, NEW T, NEW U, NEW g, NEW h, Rec(g, T, f), Rec(h, U, f),
         NEW V, V \subseteq T, V \subseteq U, IsFiniteSet(V)
  PROVE  g[V] = h[V]
<1> DEFINE Bad == {W \in SUBSET V : g[W] # h[W]}
<1>1. SUFFICES ASSUME Bad # {} PROVE FALSE
  OBVIOUS
<1>2. PICK W \in Bad : \A Y \in Bad : Y \subseteq W => Y = W
  <2>1. Bad \subseteq SUBSET V
    OBVIOUS
  <2> HIDE DEF Bad
  <2> QED BY <1>1, <2>1, SmallestSet
<1>3. W \subseteq V /\ IsFiniteSet(W) /\ g[W] # h[W] /\ W \in SUBSET T /\ W \in SUBSET U
  BY <1>2, FS_Subset
<1> DEFINE x == Pick(W)
<1>4. g[W] = IF W = {} THEN 0 ELSE f[x] + g[W \ {x}]
  BY <1>3 DEF Rec
<1>5. h[W] = IF W = {} THEN 0 ELSE f[x] + h[W \ {x}]
  BY <1>3 DEF Rec
<1>6. W # {} /\ x \in W
  BY <1>3, <1>4, <1>5 DEF Pick
<1> HIDE DEF x
<1>7. IsFiniteSet(W \ {x}) /\ W \ {x} \subseteq V
  BY <1>3, FS_RemoveElement
<1>8. W \ {x} \notin Bad
  BY <1>2, <1>3, <1>6, <1>7
<1>9. g[W \ {x}] = h[W \ {x}]
  BY <1>7, <1>8
<1> QED BY <1>3, <1>4, <1>5, <1>9

LEMMA SumExists ==
  ASSUME NEW f, NEW S, IsFiniteSet(S)
  PROVE  \E g : Rec(g, S, f)
<1> DEFINE Bad == {T \in SUBSET S : ~ \E g : Rec(g, T, f)}
<1>1. SUFFICES ASSUME Bad # {} PROVE FALSE
  OBVIOUS
<1>2. PICK T \in Bad : \A Y \in Bad : Y \subseteq T => Y = T
  <2>1. Bad \subseteq SUBSET S
    OBVIOUS
  <2> HIDE DEF Bad
  <2> QED BY <1>1, <2>1, SmallestSet
<1>3. T \subseteq S /\ IsFiniteSet(T) /\ ~ \E g : Rec(g, T, f)
  BY <1>2, FS_Subset
<1> DEFINE G(U) == CHOOSE g : Rec(g, U, f)
<1>4. ASSUME NEW U, U \subseteq T, U # T
      PROVE  Rec(G(U), U, f)
  <2>1. IsFiniteSet(U) /\ U \subseteq S
    BY <1>3, <1>4, FS_Subset
  <2>2. U \notin Bad
    BY <1>2, <1>3, <1>4, <2>1
  <2>3. \E g : Rec(g, U, f)
    BY <2>1, <2>2
  <2> QED BY <2>3
<1> DEFINE Sub(s) == s \ {Pick(s)}
           val(s) == IF s = {} THEN 0 ELSE f[Pick(s)] + G(Sub(s))[Sub(s)]
           g == [s \in SUBSET T |-> val(s)]
<1> HIDE DEF G
<1>5. ASSUME NEW s \in SUBSET T, s # {}
      PROVE  g[Sub(s)] = G(Sub(s))[Sub(s)]
  <2> DEFINE u == Sub(s)
  <2>1. u \subseteq T /\ u # T /\ Pick(s) \in s
    BY <1>5 DEF Pick
  <2>2. g[u] = val(u)
    BY <2>1
  <2>3. Rec(G(u), u, f)
    BY <1>4, <2>1
  <2> HIDE DEF u
  <2>4. G(u)[u] = IF u = {} THEN 0 ELSE f[Pick(u)] + G(u)[Sub(u)]
    <3>1. u \in SUBSET u
      OBVIOUS
    <3> QED BY <2>3, <3>1 DEF Rec
  <2>5. CASE u = {}
    BY <2>2, <2>4, <2>5 DEF u
  <2>6. CASE u # {}
    <3>1. Sub(u) \subseteq T /\ Sub(u) # T /\ Sub(u) \subseteq u /\ IsFiniteSet(Sub(u))
      <4>1. Sub(u) \subseteq T /\ Sub(u) # T /\ Sub(u) \subseteq u
        BY <2>1
      <4> QED BY <1>3, <4>1, FS_Subset
    <3>2. Rec(G(Sub(u)), Sub(u), f)
      BY <1>4, <3>1
    <3>3. G(u)[Sub(u)] = G(Sub(u))[Sub(u)]
      <4> DEFINE v == Sub(u)
      <4> HIDE DEF v
      <4>1. Rec(G(v), v, f) /\ v \subseteq u /\ IsFiniteSet(v)
        BY <3>1, <3>2 DEF v
      <4>2. G(u)[v] = G(v)[v]
        BY <2>3, <4>1, SumUnique
      <4> QED BY <4>2 DEF v
    <3> QED BY <2>2, <2>4, <2>6, <3>3 DEF u
  <2> QED BY <2>5, <2>6
<1>6. ASSUME NEW s \in SUBSET T
      PROVE  val(s) = IF s = {} THEN 0 ELSE f[Pick(s)] + g[s \ {Pick(s)}]
  BY <1>5
<1>7. g = [s \in SUBSET T |-> IF s = {} THEN 0 ELSE f[Pick(s)] + g[s \ {Pick(s)}]]
  <2> HIDE DEF val
  <2> DEFINE w(s) == IF s = {} THEN 0 ELSE f[Pick(s)] + g[s \ {Pick(s)}]
  <2>1. \A s \in SUBSET T : val(s) = w(s)
    BY <1>6
  <2> HIDE DEF w
  <2>2. [s \in SUBSET T |-> val(s)] = [s \in SUBSET T |-> w(s)]
    BY <2>1
  <2> QED BY <2>2 DEF w
<1>8. Rec(g, T, f)
  BY <1>7 DEF Rec
<1> QED BY <1>3, <1>8

LEMMA SumUnfold ==
  ASSUME NEW f, NEW S, IsFiniteSet(S)
  PROVE  \E g : Rec(g, S, f) /\ SumFunctionOnSet(f, S) = g[S]
<1> DEFINE G == CHOOSE g : Rec(g, S, f)
<1>1. Rec(G, S, f)
  BY SumExists
<1>2. SumFunctionOnSet(f, S) = G[S]
  BY DEF SumFunctionOnSet, FoldFunctionOnSet, MapThenFoldSet, Rec, Pick
<1> QED BY <1>1, <1>2

\* The sum of f over S.
LEMMA SumStep ==
  ASSUME NEW f, NEW S, IsFiniteSet(S)
  PROVE  SumFunctionOnSet(f, S) =
           IF S = {} THEN 0
           ELSE f[Pick(S)] + SumFunctionOnSet(f, S \ {Pick(S)})
<1> DEFINE T == S \ {Pick(S)}
<1>1. PICK g : Rec(g, S, f) /\ SumFunctionOnSet(f, S) = g[S]
  BY SumUnfold
<1>2. g[S] = IF S = {} THEN 0 ELSE f[Pick(S)] + g[T]
  <2>1. S \in SUBSET S
    OBVIOUS
  <2> QED BY <1>1, <2>1 DEF Rec
<1>3. IsFiniteSet(T) /\ T \subseteq S
  BY FS_Subset
<1> HIDE DEF T
<1>4. PICK h : Rec(h, T, f) /\ SumFunctionOnSet(f, T) = h[T]
  BY <1>3, SumUnfold
<1>5. g[T] = h[T]
  BY <1>1, <1>3, <1>4, SumUnique
<1> QED BY <1>1, <1>2, <1>4, <1>5 DEF T

LEMMA SumType ==
  ASSUME NEW f, NEW S, IsFiniteSet(S), \A x \in S : f[x] \in Int
  PROVE  SumFunctionOnSet(f, S) \in Int
<1> DEFINE Bad == {T \in SUBSET S : SumFunctionOnSet(f, T) \notin Int}
<1>1. SUFFICES ASSUME Bad # {} PROVE FALSE
  OBVIOUS
<1>2. PICK T \in Bad : \A Y \in Bad : Y \subseteq T => Y = T
  <2>1. Bad \subseteq SUBSET S
    OBVIOUS
  <2> HIDE DEF Bad
  <2> QED BY <1>1, <2>1, SmallestSet
<1>3. T \subseteq S /\ IsFiniteSet(T) /\ SumFunctionOnSet(f, T) \notin Int
  BY <1>2, FS_Subset
<1>4. T # {}
  <2>1. SumFunctionOnSet(f, {}) = 0
    BY SumStep, FS_EmptySet
  <2> QED BY <1>3, <2>1
<1> DEFINE x == Pick(T)
<1>5. x \in T /\ SumFunctionOnSet(f, T) = f[x] + SumFunctionOnSet(f, T \ {x})
  BY <1>3, <1>4, SumStep DEF Pick
<1> HIDE DEF x
<1>6. IsFiniteSet(T \ {x}) /\ T \ {x} \subseteq S
  BY <1>3, FS_RemoveElement
<1>7. T \ {x} \notin Bad
  BY <1>2, <1>3, <1>5, <1>6
<1>8. SumFunctionOnSet(f, T \ {x}) \in Int
  BY <1>6, <1>7
<1> QED BY <1>3, <1>5, <1>8

\* The order in which the elements are taken does not matter.
LEMMA SumRemove ==
  ASSUME NEW f, NEW S, IsFiniteSet(S), \A y \in S : f[y] \in Int, NEW x \in S
  PROVE  SumFunctionOnSet(f, S) = f[x] + SumFunctionOnSet(f, S \ {x})
<1> DEFINE Sum(T) == SumFunctionOnSet(f, T)
           Bad == {T \in SUBSET S : \E y \in T : Sum(T) # f[y] + Sum(T \ {y})}
<1>1. SUFFICES ASSUME Bad # {} PROVE FALSE
  OBVIOUS
<1>2. PICK T \in Bad : \A Y \in Bad : Y \subseteq T => Y = T
  <2>1. Bad \subseteq SUBSET S
    OBVIOUS
  <2> HIDE DEF Bad
  <2> QED BY <1>1, <2>1, SmallestSet
<1>3. T \subseteq S /\ IsFiniteSet(T)
  BY <1>2, FS_Subset
<1>4. PICK y \in T : Sum(T) # f[y] + Sum(T \ {y})
  BY <1>2
<1> DEFINE c == Pick(T)
<1>5. c \in T /\ Sum(T) = f[c] + Sum(T \ {c})
  BY <1>3, <1>4, SumStep DEF Pick
<1> HIDE DEF c, Sum
<1>6. c # y
  BY <1>4, <1>5
<1>7. ASSUME NEW U, U \subseteq T, U # T, NEW z \in U
      PROVE  Sum(U) = f[z] + Sum(U \ {z})
  <2>1. IsFiniteSet(U) /\ U \subseteq S
    BY <1>3, <1>7, FS_Subset
  <2>2. U \notin Bad
    BY <1>2, <1>3, <1>7, <2>1
  <2> QED BY <1>7, <2>1, <2>2
<1> DEFINE R == T \ {c, y}
<1>8. /\ (T \ {c}) \ {y} = R /\ (T \ {y}) \ {c} = R
      /\ T \ {c} \subseteq T /\ T \ {c} # T /\ y \in T \ {c}
      /\ T \ {y} \subseteq T /\ T \ {y} # T /\ c \in T \ {y}
  BY <1>4, <1>5, <1>6
<1>9. Sum(T \ {c}) = f[y] + Sum(R)
  <2>1. Sum(T \ {c}) = f[y] + Sum((T \ {c}) \ {y})
    BY <1>7, <1>8
  <2> QED BY <1>8, <2>1
<1>10. Sum(T \ {y}) = f[c] + Sum(R)
  <2>1. Sum(T \ {y}) = f[c] + Sum((T \ {y}) \ {c})
    BY <1>7, <1>8
  <2> QED BY <1>8, <2>1
<1>11. f[c] \in Int /\ f[y] \in Int /\ Sum(R) \in Int
  <2>1. IsFiniteSet(R) /\ \A z \in R : f[z] \in Int
    BY <1>3, FS_Subset
  <2> QED BY <1>3, <1>4, <1>5, <2>1, SumType DEF Sum
<1> QED BY <1>4, <1>5, <1>9, <1>10, <1>11

\* Summing is monotone; sums of naturals are naturals, those of zeros zero.
LEMMA SumMonotone ==
  ASSUME NEW S, IsFiniteSet(S), NEW f, NEW g,
         \A x \in S : f[x] \in Int /\ g[x] \in Int /\ f[x] <= g[x]
  PROVE  SumFunctionOnSet(f, S) <= SumFunctionOnSet(g, S)
<1> DEFINE F(T) == SumFunctionOnSet(f, T)
           G(T) == SumFunctionOnSet(g, T)
           Bad == {T \in SUBSET S : ~(F(T) <= G(T))}
<1>1. SUFFICES ASSUME Bad # {} PROVE FALSE
  OBVIOUS
<1>2. PICK T \in Bad : \A Y \in Bad : Y \subseteq T => Y = T
  <2>1. Bad \subseteq SUBSET S
    OBVIOUS
  <2> HIDE DEF Bad
  <2> QED BY <1>1, <2>1, SmallestSet
<1>3. T \subseteq S /\ IsFiniteSet(T) /\ ~(F(T) <= G(T))
  BY <1>2, FS_Subset
<1>4. T # {}
  <2>1. F({}) = 0 /\ G({}) = 0
    BY SumStep, FS_EmptySet
  <2> QED BY <1>3, <2>1
<1> DEFINE x == Pick(T)
<1>5. x \in T /\ F(T) = f[x] + F(T \ {x}) /\ G(T) = g[x] + G(T \ {x})
  BY <1>3, <1>4, SumStep DEF Pick
<1> HIDE DEF x
<1>6. IsFiniteSet(T \ {x}) /\ T \ {x} \subseteq S
  BY <1>3, FS_RemoveElement
<1>7. T \ {x} \notin Bad
  BY <1>2, <1>3, <1>5, <1>6
<1>8. F(T \ {x}) <= G(T \ {x})
  BY <1>6, <1>7
<1>9. F(T \ {x}) \in Int /\ G(T \ {x}) \in Int
  BY <1>6, SumType
<1>10. f[x] \in Int /\ g[x] \in Int /\ f[x] <= g[x]
  BY <1>3, <1>5
<1> HIDE DEF F, G
<1> QED BY <1>3, <1>5, <1>8, <1>9, <1>10

LEMMA SumAgree ==
  ASSUME NEW S, IsFiniteSet(S), NEW f, NEW g,
         \A x \in S : f[x] \in Int /\ f[x] = g[x]
  PROVE  SumFunctionOnSet(f, S) = SumFunctionOnSet(g, S)
<1>1. /\ SumFunctionOnSet(f, S) \in Int
      /\ SumFunctionOnSet(g, S) \in Int
  BY SumType
<1>2. /\ \A x \in S : f[x] \in Int /\ g[x] \in Int /\ f[x] <= g[x]
      /\ \A x \in S : g[x] \in Int /\ f[x] \in Int /\ g[x] <= f[x]
  OBVIOUS
<1>3. SumFunctionOnSet(f, S) <= SumFunctionOnSet(g, S)
  BY <1>2, SumMonotone
<1>4. SumFunctionOnSet(g, S) <= SumFunctionOnSet(f, S)
  BY <1>2, SumMonotone
<1> QED BY <1>1, <1>3, <1>4

LEMMA SumNat ==
  ASSUME NEW S, IsFiniteSet(S), NEW f, \A x \in S : f[x] \in Nat
  PROVE  SumFunctionOnSet(f, S) \in Nat
<1> DEFINE Bad == {T \in SUBSET S : SumFunctionOnSet(f, T) \notin Nat}
<1>1. SUFFICES ASSUME Bad # {} PROVE FALSE
  OBVIOUS
<1>2. PICK T \in Bad : \A Y \in Bad : Y \subseteq T => Y = T
  <2>1. Bad \subseteq SUBSET S
    OBVIOUS
  <2> HIDE DEF Bad
  <2> QED BY <1>1, <2>1, SmallestSet
<1>3. T \subseteq S /\ IsFiniteSet(T) /\ SumFunctionOnSet(f, T) \notin Nat
  BY <1>2, FS_Subset
<1>4. T # {}
  <2>1. SumFunctionOnSet(f, {}) = 0
    BY SumStep, FS_EmptySet
  <2> QED BY <1>3, <2>1
<1> DEFINE x == Pick(T)
<1>5. x \in T /\ SumFunctionOnSet(f, T) = f[x] + SumFunctionOnSet(f, T \ {x})
  BY <1>3, <1>4, SumStep DEF Pick
<1> HIDE DEF x
<1>6. IsFiniteSet(T \ {x}) /\ T \ {x} \subseteq S
  BY <1>3, FS_RemoveElement
<1>7. T \ {x} \notin Bad
  BY <1>2, <1>3, <1>5, <1>6
<1>8. SumFunctionOnSet(f, T \ {x}) \in Nat
  BY <1>6, <1>7
<1> QED BY <1>3, <1>5, <1>8

LEMMA SumZero ==
  ASSUME NEW S, IsFiniteSet(S), NEW f, \A x \in S : f[x] = 0
  PROVE  SumFunctionOnSet(f, S) = 0
<1> DEFINE Bad == {T \in SUBSET S : SumFunctionOnSet(f, T) # 0}
<1>1. SUFFICES ASSUME Bad # {} PROVE FALSE
  OBVIOUS
<1>2. PICK T \in Bad : \A Y \in Bad : Y \subseteq T => Y = T
  <2>1. Bad \subseteq SUBSET S
    OBVIOUS
  <2> HIDE DEF Bad
  <2> QED BY <1>1, <2>1, SmallestSet
<1>3. T \subseteq S /\ IsFiniteSet(T) /\ SumFunctionOnSet(f, T) # 0
  BY <1>2, FS_Subset
<1>4. T # {}
  <2>1. SumFunctionOnSet(f, {}) = 0
    BY SumStep, FS_EmptySet
  <2> QED BY <1>3, <2>1
<1> DEFINE x == Pick(T)
<1>5. x \in T /\ SumFunctionOnSet(f, T) = f[x] + SumFunctionOnSet(f, T \ {x})
  BY <1>3, <1>4, SumStep DEF Pick
<1> HIDE DEF x
<1>6. T \ {x} \notin Bad /\ T \ {x} \subseteq S
  BY <1>2, <1>3, <1>5
<1> QED BY <1>3, <1>5, <1>6

\* A change of f at x alone changes the sum by as much.
LEMMA SumChange ==
  ASSUME NEW S, IsFiniteSet(S), NEW f, NEW g, NEW x \in S,
         \A y \in S : f[y] \in Int /\ g[y] \in Int,
         \A y \in S : y # x => f[y] = g[y]
  PROVE  SumFunctionOnSet(g, S) - g[x] = SumFunctionOnSet(f, S) - f[x]
<1> DEFINE R == S \ {x}
<1>1. IsFiniteSet(R)
  BY FS_RemoveElement
<1>2. SumFunctionOnSet(f, S) = f[x] + SumFunctionOnSet(f, R)
  BY SumRemove
<1>3. SumFunctionOnSet(g, S) = g[x] + SumFunctionOnSet(g, R)
  BY SumRemove
<1>4. \A y \in R : f[y] \in Int /\ f[y] = g[y]
  OBVIOUS
<1> HIDE DEF R
<1>5. SumFunctionOnSet(f, R) = SumFunctionOnSet(g, R)
  BY <1>1, <1>4, SumAgree
<1>6. SumFunctionOnSet(f, R) \in Int
  BY <1>1, <1>4, SumType
<1> QED BY <1>2, <1>3, <1>5, <1>6

\* A new element adds its value.
LEMMA SumNew ==
  ASSUME NEW S, IsFiniteSet(S), NEW f, NEW g, NEW x, x \notin S, g[x] \in Int,
         \A y \in S : f[y] \in Int /\ g[y] = f[y]
  PROVE  SumFunctionOnSet(g, S \cup {x}) = g[x] + SumFunctionOnSet(f, S)
<1> DEFINE T == S \cup {x}
<1>1. IsFiniteSet(T)
  BY FS_AddElement
<1>2. \A y \in T : g[y] \in Int
  OBVIOUS
<1>3. T \ {x} = S /\ x \in T
  OBVIOUS
<1> HIDE DEF T
<1>4. SumFunctionOnSet(g, T) = g[x] + SumFunctionOnSet(g, T \ {x})
  BY <1>1, <1>2, <1>3, SumRemove
<1>5. SumFunctionOnSet(g, S) = SumFunctionOnSet(f, S)
  <2>1. \A y \in S : f[y] \in Int /\ f[y] = g[y]
    OBVIOUS
  <2> QED BY <2>1, SumAgree
<1> QED BY <1>3, <1>4, <1>5 DEF T


-----------------------------------------------------------------------------
(***************************************************************************)
(* Types.                                                                  *)
(***************************************************************************)
Items == UNION {{[obj |-> o, conf |-> Conf[o][v]] : v \in DOMAIN Conf[o]} : o \in ObjSet}
Confs == UNION {{Conf[o][v] : v \in DOMAIN Conf[o]} : o \in ObjSet}
Targets == [base : Bases \cup {None}, route : Routes, service : Range(Stripped) \cup {None}]
Series3 == Range(Stripped) \X Routes \X {"prefill", "router", ""}
Reps == {r \in [label : Series3, total : Nat, ready : Nat, desired : Nat \cup {None}] :
           r.ready <= r.total}

RoundShape ==
  /\ DOMAIN round = {"gi", "any", "items", "engines", "byIP", "targets", "reps",
                     "cache", "at", "depth"}
  /\ round.gi \in 1..(Len(Groups) + 1)
  /\ round.items \in Seq(Items)
  /\ round.engines \in {None} \cup [Slices -> Reports]
  /\ round.targets \in Seq(Targets)
  /\ round.reps \in Seq(Reps)
  /\ round.depth \in 0..OwnerWalkMaxDepth
  /\ DOMAIN round.cache \subseteq Workloads
  /\ \A w \in DOMAIN round.cache : round.cache[w] \in Nat \cup {None}

WalkShape ==
  rpc = "walk" => /\ round.items # <<>> /\ ~NoBackend(Item)
                  /\ round.at \in [ips : Readiness, obj : Workloads \cup {None}]

ResolverType ==
  /\ ClusterOK(cluster)
  /\ rpc \in {"idle", "list", "items", "walk", "fill"}
  /\ RoundShape /\ WalkShape
  /\ pdSkip \in 0..PdRetryRounds
  /\ DOMAIN snap = {"byIP", "targets"} /\ snap.targets \in Seq(Targets)
  /\ filled \in 0..Writes(round.reps)
  /\ rpc # "fill" => filled = 0
  /\ DOMAIN gauge = {"total", "ready", "desired"}
  /\ up \in BOOLEAN
  /\ touched \subseteq ObjSet \cup Services /\ stale \subseteq ObjSet \cup Services
  /\ DOMAIN held = Workloads \cup {Disaggregated}

CycleType ==
  /\ DOMAIN cycle = {"targets", "next", "failed"}
  /\ cycle.targets \in Seq(Targets)
  /\ cycle.next \in 1..(Len(cycle.targets) + 1)
  /\ cycle.failed \subseteq Bases \X Routes

PollerType ==
  /\ turned \in Nat /\ restarted \in BOOLEAN
  /\ ppc \in {"idle", "poll"}
  /\ hits \in [Bases \X Routes -> Nat] /\ prev \in [Bases \X Routes -> Nat]
  /\ IsFiniteSet(DOMAIN rejected) /\ \A l \in DOMAIN rejected : rejected[l] \in Nat
  /\ \A l \in DOMAIN pollUp : pollUp[l] \in BOOLEAN
  /\ CycleType

Types == ResolverType /\ PollerType

LEMMA ToSetAppend ==
  ASSUME NEW T, NEW s \in Seq(T), NEW e
  PROVE  ToSet(Append(s, e)) = ToSet(s) \cup {e}
<1>1. /\ DOMAIN Append(s, e) = 1..(Len(s) + 1) /\ DOMAIN s = 1..Len(s)
      /\ \A i \in 1..Len(s) : Append(s, e)[i] = s[i]
      /\ Append(s, e)[Len(s) + 1] = e /\ Len(s) \in Nat
  OBVIOUS
<1> DEFINE a == Append(s, e)
           n == Len(s)
<1> HIDE DEF a, n
<1>2. /\ DOMAIN a = 1..(n + 1) /\ DOMAIN s = 1..n /\ \A i \in 1..n : a[i] = s[i]
      /\ a[n + 1] = e /\ n \in Nat
  BY <1>1 DEF a, n
<1>3. \A i \in 1..(n + 1) : i \in 1..n \/ i = n + 1
  BY <1>2
<1>4. \A i \in 1..n : i \in 1..(n + 1)
  BY <1>2
<1>5. n + 1 \in 1..(n + 1)
  BY <1>2
<1>6. ToSet(a) = ToSet(s) \cup {e}
  BY <1>2, <1>3, <1>4, <1>5 DEF ToSet
<1> QED BY <1>6 DEF a

LEMMA ConfFacts ==
  ASSUME NEW c \in Confs
  PROVE  /\ c.service \in Services \cup {None}
         /\ RouteName(c) \in Routes \cup {None}
         /\ OpenrestyBase(c) \in Bases \cup {None}
         /\ RouteName(c) # None => Target(c) \in Targets
<1>1. PICK o \in ObjSet : \E v \in DOMAIN Conf[o] : c = Conf[o][v]
  BY DEF Confs
<1>2. /\ c.service \in Services \cup {None}
      /\ RouteName(c) \in Routes \cup {None}
      /\ OpenrestyBase(c) \in Bases \cup {None}
  BY <1>1, ResolverAssumption, PollerAssumption
<1>3. c.service # None => NormalizeServiceLabel(c.service) \in Range(Stripped)
  BY <1>2, ClusterAssumption DEF NormalizeServiceLabel, Range
<1> QED BY <1>2, <1>3 DEF Target, Targets

LEMMA ItemFacts ==
  ASSUME RoundShape, round.items # <<>>
  PROVE  /\ Item \in Confs
         /\ Head(round.items) \in Items
         /\ Tail(round.items) \in Seq(Items)
<1>1. Head(round.items) \in Items /\ Tail(round.items) \in Seq(Items)
  BY DEF RoundShape
<1>2. \A it \in Items : it.conf \in Confs
  BY DEF Items, Confs
<1> QED BY <1>1, <1>2 DEF Item

\* The counts of the engines are numbers, the ready ones no more than all.
LEMMA RoleRepType ==
  ASSUME NEW e \in [Slices -> Reports]
  PROVE  /\ RoleRep(e).n \in Nat /\ RoleRep(e).ready \in Nat
         /\ RoleRep(e).ready <= RoleRep(e).n
         /\ RoleRep(e).desired \in Nat \cup {None}
<1> DEFINE N == [i \in DOMAIN e |-> e[i].n]
           R == [i \in DOMAIN e |-> e[i].ready]
           D == [i \in DOMAIN e |-> e[i].spec]
<1>1. /\ DOMAIN e = Slices /\ DOMAIN N = Slices /\ DOMAIN R = Slices /\ DOMAIN D = Slices
      /\ IsFiniteSet(Slices)
  BY ClusterAssumption
<1>2. \A i \in Slices : N[i] \in Nat /\ R[i] \in Nat /\ R[i] <= N[i]
  BY <1>1, ClusterAssumption
<1>3. DesiredOK(e) => \A i \in Slices : D[i] \in Nat
  BY <1>1, ClusterAssumption DEF DesiredOK
<1>4. /\ RoleRep(e).n = SumFunctionOnSet(N, Slices)
      /\ RoleRep(e).ready = SumFunctionOnSet(R, Slices)
      /\ RoleRep(e).desired = IF DesiredOK(e) THEN SumFunctionOnSet(D, Slices) ELSE None
  BY <1>1 DEF RoleRep, SumOf, SumFunction
<1> HIDE DEF N, R, D
<1>5. SumFunctionOnSet(N, Slices) \in Nat /\ SumFunctionOnSet(R, Slices) \in Nat
  BY <1>1, <1>2, SumNat
<1>6. DesiredOK(e) => SumFunctionOnSet(D, Slices) \in Nat
  BY <1>1, <1>3, SumNat
<1>7. SumFunctionOnSet(R, Slices) <= SumFunctionOnSet(N, Slices)
  <2>1. \A i \in Slices : R[i] \in Int /\ N[i] \in Int /\ R[i] <= N[i]
    BY <1>2
  <2> QED BY <1>1, <2>1, SumMonotone
<1> QED BY <1>4, <1>5, <1>6, <1>7

LEMMA RepsOfType ==
  ASSUME RoundShape, NEW c \in Confs, ~NoBackend(c), NEW e \in Readiness,
         NEW desired \in Nat \cup {None}
  PROVE  RepsOf(c, e, desired) \in Seq(Reps)
<1> DEFINE eng == round.engines
           ready == {ip \in DOMAIN e : e[ip]}
           self(role) == Rep(Target(c), role, Cardinality(DOMAIN e), Cardinality(ready), desired)
           prefill == Rep(Target(c), "prefill", RoleRep(eng).n, RoleRep(eng).ready,
                          RoleRep(eng).desired)
<1>1. Target(c).service \in Range(Stripped) /\ Target(c).route \in Routes
  <2>1. c.service \in Services /\ c.service # None /\ RouteName(c) \in Routes
    BY ConfFacts DEF NoBackend
  <2> QED BY <2>1, ClusterAssumption DEF Target, NormalizeServiceLabel, Range
<1>2. /\ Cardinality(DOMAIN e) \in Nat /\ Cardinality(ready) \in Nat
      /\ Cardinality(ready) <= Cardinality(DOMAIN e)
  <2>1. IsFiniteSet(DOMAIN e) /\ ready \subseteq DOMAIN e
    BY ClusterAssumption
  <2> HIDE DEF ready
  <2> QED BY <2>1, FS_Subset, FS_CardinalityType
<1>3. \A role \in {"prefill", "router", ""} : self(role) \in Reps
  <2> HIDE DEF ready
  <2> QED BY <1>1, <1>2 DEF Rep, Reps, Series3
<1>4. eng # None => prefill \in Reps
  <2>1. SUFFICES ASSUME eng # None PROVE prefill \in Reps
    OBVIOUS
  <2>2. eng \in [Slices -> Reports]
    BY <2>1 DEF RoundShape
  <2> HIDE DEF eng
  <2>3. /\ RoleRep(eng).n \in Nat /\ RoleRep(eng).ready \in Nat
        /\ RoleRep(eng).ready <= RoleRep(eng).n
        /\ RoleRep(eng).desired \in Nat \cup {None}
    BY <2>2, RoleRepType
  <2> QED BY <1>1, <2>3 DEF Rep, Reps, Series3
<1>5. \/ RepsOf(c, e, desired) = <<self("")>>
      \/ eng # None /\ RepsOf(c, e, desired) = <<prefill, self("router")>>
  BY DEF RepsOf
<1> HIDE DEF self, prefill, eng
<1>6. self("") \in Reps /\ self("router") \in Reps
  BY <1>3
<1>7. \A a, b \in Reps : <<a>> \in Seq(Reps) /\ <<a, b>> \in Seq(Reps)
  OBVIOUS
<1>8. <<self("")>> \in Seq(Reps)
  BY <1>6, <1>7
<1>9. eng # None => <<prefill, self("router")>> \in Seq(Reps)
  BY <1>4, <1>6, <1>7
<1> QED BY <1>5, <1>8, <1>9

LEMMA AddTargetType ==
  ASSUME NEW s \in Seq(Targets), NEW c \in Confs
  PROVE  AddTarget(s, c) \in Seq(Targets)
<1>1. Polled(c) => Target(c) \in Targets
  BY ConfFacts DEF Polled
<1> QED BY <1>1 DEF AddTarget

\* A change of the cluster disturbs no type.
LEMMA ChangeType ==
  ASSUME ResolverType, NEW c, NEW what, ClusterOK(c), what \subseteq ObjSet \cup Services,
         Change(c, what)
  PROVE  ResolverType'
<1>1. UNCHANGED <<rpc, round, pdSkip, snap, filled, gauge, up>> /\ cluster' = c
      /\ touched' = touched \cup what /\ stale' = stale \cup what
      /\ held' = [w \in DOMAIN held |-> held[w] \cup {CommittedTo(c, w)}]
  BY DEF Change
<1>2. RoundShape' /\ WalkShape'
  BY <1>1 DEF ResolverType, RoundShape, WalkShape, Item
<1> QED BY <1>1, <1>2 DEF ResolverType

LEMMA ClusterChangeType ==
  ASSUME ResolverType, ClusterChange
  PROVE  ResolverType'
<1> DEFINE Versions == {Gone} \cup UNION {DOMAIN Conf[o] : o \in ObjSet}
<1>0. /\ cluster \in [crs : [GroupSet -> [ObjSet -> Versions]], served : SUBSET GroupSet,
                      lws : BOOLEAN, eps : [Services -> Readiness],
                      spec : [Workloads -> Nat \cup {None}], slices : [Slices -> Reports]]
      /\ \A g \in GroupSet, o \in ObjSet : cluster.crs[g][o] \in {Gone} \cup DOMAIN Conf[o]
  BY DEF ResolverType, ClusterOK
<1>1. CASE ChangeModelRoute
  <2>0. PICK g \in GroupSet, o \in ObjSet : \E v \in Copies[g][o] :
          Change([cluster EXCEPT !.crs[g][o] = v], {o})
    BY <1>1 DEF ChangeModelRoute
  <2>1. PICK v \in Copies[g][o] : Change([cluster EXCEPT !.crs[g][o] = v], {o})
    BY <2>0
  <2>2. v \in {Gone} \cup DOMAIN Conf[o]
    BY ClusterAssumption
  <2>3. v \in Versions
    BY <2>2
  <2>4. ClusterOK([cluster EXCEPT !.crs[g][o] = v])
    BY <1>0, <2>2, <2>3 DEF ClusterOK
  <2> QED BY <2>1, <2>4, ChangeType
<1>2. CASE ChangeServed
  <2>1. PICK g \in GroupSet :
          Change([cluster EXCEPT !.served = SymDiff(@, {g})],
                 {o \in ObjSet : cluster.crs[g][o] # Gone})
    BY <1>2 DEF ChangeServed
  <2>2. SymDiff(cluster.served, {g}) \subseteq GroupSet
    BY <1>0 DEF SymDiff
  <2>3. ClusterOK([cluster EXCEPT !.served = SymDiff(@, {g})])
    BY <1>0, <2>2 DEF ClusterOK
  <2>4. {o \in ObjSet : cluster.crs[g][o] # Gone} \subseteq ObjSet \cup Services
    OBVIOUS
  <2> QED BY <2>1, <2>3, <2>4, ChangeType
<1>3. CASE ChangeEndpoints
  <2>0. PICK s \in Services : \E e \in EndpointStates[s] :
          Change([cluster EXCEPT !.eps[s] = e], {s})
    BY <1>3 DEF ChangeEndpoints
  <2>1. PICK e \in EndpointStates[s] : Change([cluster EXCEPT !.eps[s] = e], {s})
    BY <2>0
  <2>2. e \in Readiness
    BY DEF Readiness
  <2>3. ClusterOK([cluster EXCEPT !.eps[s] = e])
    BY <1>0, <2>2 DEF ClusterOK
  <2> QED BY <2>1, <2>3, ChangeType
<1>4. CASE Scale
  <2>0. PICK w \in Workloads : \E k \in Counts[w] :
          Change([cluster EXCEPT !.spec[w] = k], {})
    BY <1>4 DEF Scale
  <2>1. PICK k \in Counts[w] : Change([cluster EXCEPT !.spec[w] = k], {})
    BY <2>0
  <2>2. k \in Nat
    BY ClusterAssumption
  <2>3. ClusterOK([cluster EXCEPT !.spec[w] = k])
    BY <1>0, <2>2 DEF ClusterOK
  <2> QED BY <2>1, <2>3, ChangeType
<1>5. CASE ChangeSlice
  <2>0. PICK i \in Slices : \E e \in SliceStates[i] :
          Change([cluster EXCEPT !.slices[i] = e], {})
    BY <1>5 DEF ChangeSlice
  <2>1. PICK e \in SliceStates[i] : Change([cluster EXCEPT !.slices[i] = e], {})
    BY <2>0
  <2>2. e \in Reports
    BY DEF Reports
  <2>3. ClusterOK([cluster EXCEPT !.slices[i] = e])
    BY <1>0, <2>2 DEF ClusterOK
  <2> QED BY <2>1, <2>3, ChangeType
<1>6. CASE ChangePermission
  <2>1. Change([cluster EXCEPT !.lws = ~@], {})
    BY <1>6 DEF ChangePermission
  <2>2. ClusterOK([cluster EXCEPT !.lws = ~@])
    BY <1>0 DEF ClusterOK
  <2> QED BY <2>1, <2>2, ChangeType
<1> QED BY <1>1, <1>2, <1>3, <1>4, <1>5, <1>6 DEF ClusterChange

LEMMA ItemsOfType ==
  ASSUME ResolverType, NEW g \in GroupSet, NEW s \in Listings(Unseen(g))
  PROVE  /\ ItemsOf(s, g) \in Seq(Items) /\ DOMAIN ItemsOf(s, g) = DOMAIN s
         /\ s \in Seq(Unseen(g))
<1> DEFINE K == Unseen(g)
<1>1. s \in [1..Cardinality(K) -> K]
  BY DEF Listings, Bijection, Injection
<1>2. IsFiniteSet(K)
  <2>1. IsFiniteSet(ObjSet)
    <3>1. Objs \in [1..Len(Objs) -> ObjSet] /\ Len(Objs) \in Nat
      BY ResolverAssumption
    <3>2. IsFiniteSet(1..Len(Objs))
      <4>1. 1 \in Int /\ Len(Objs) \in Int
        BY <3>1
      <4> QED BY <4>1, FS_Interval
    <3>3. ObjSet = {Objs[i] : i \in 1..Len(Objs)}
      BY <3>1 DEF ObjSet, ToSet
    <3> DEFINE n == Len(Objs)
    <3> HIDE DEF n
    <3>4. Objs \in Surjection(1..n, ObjSet)
      BY <3>1, <3>3 DEF Surjection, n
    <3> QED BY <3>2, <3>4, FS_Surjection DEF n
  <2>2. K \subseteq ObjSet
    BY DEF Unseen
  <2> QED BY <2>1, <2>2, FS_Subset
<1>3. Cardinality(K) \in Nat
  BY <1>2, FS_CardinalityType
<1>4. s \in Seq(K) /\ DOMAIN s = 1..Len(s) /\ Len(s) \in Nat
  BY <1>1, <1>3
<1>5. ASSUME NEW k \in DOMAIN s
      PROVE  [obj |-> s[k], conf |-> Conf[s[k]][cluster.crs[g][s[k]]]] \in Items
  <2>1. s[k] \in ObjSet /\ cluster.crs[g][s[k]] # Gone
    BY <1>1, <1>5 DEF Unseen
  <2>2. cluster.crs[g][s[k]] \in DOMAIN Conf[s[k]]
    BY <2>1 DEF ResolverType, ClusterOK
  <2> QED BY <2>1, <2>2 DEF Items
<1>6. ItemsOf(s, g) \in [1..Len(s) -> Items]
  BY <1>4, <1>5 DEF ItemsOf
<1> HIDE DEF K
<1> QED BY <1>4, <1>6 DEF K

LEMMA ListType ==
  ASSUME ResolverType, Begin \/ ListGroup \/ ListFails \/ NothingServed \/ PdRoles
  PROVE  ResolverType'
<1>1. CASE Begin
  <2>1. round' = NoRound /\ rpc' = "list" /\ filled = 0 /\ pdSkip' \in 0..PdRetryRounds
    <3>1. PdRetryRounds \in Nat
      BY ResolverAssumption
    <3> QED BY <1>1, <3>1 DEF Begin, ResolverType
  <2>2. RoundShape'
    <3>1. 1 \in 1..(Len(Groups) + 1) /\ 0 \in 0..OwnerWalkMaxDepth
      BY ResolverAssumption
    <3> QED BY <2>1, <3>1 DEF RoundShape, NoRound, Empty
  <2>3. 0 \in 0..Writes(<<>>)
    BY DEF Writes
  <2>4. round'.reps = <<>>
    BY <2>1 DEF NoRound
  <2>5. /\ ClusterOK(cluster)' /\ WalkShape' /\ filled' = filled
        /\ DOMAIN snap' = {"byIP", "targets"} /\ snap'.targets \in Seq(Targets)
        /\ DOMAIN gauge' = {"total", "ready", "desired"} /\ up' \in BOOLEAN
        /\ touched' \subseteq ObjSet \cup Services /\ stale' \subseteq ObjSet \cup Services
        /\ DOMAIN held' = Workloads \cup {Disaggregated}
    BY <1>1 DEF Begin, ResolverType, WalkShape, ClusterOK
  <2> QED BY <2>1, <2>2, <2>3, <2>4, <2>5 DEF ResolverType
<1>2. CASE ListGroup
  <2> DEFINE g == Groups[round.gi]
  <2>1. /\ rpc = "list" /\ round.gi <= Len(Groups)
        /\ UNCHANGED <<cluster, rpc, pdSkip, snap, filled, gauge, up, touched, stale, held>>
    BY <1>2 DEF ListGroup, InList
  <2>2. g \in GroupSet /\ round.gi + 1 \in 1..(Len(Groups) + 1)
    BY <2>1, ResolverAssumption DEF ResolverType, RoundShape
  <2>3. RoundShape' /\ round'.reps = round.reps
    <3>1. CASE g \in cluster.served
      <4>1. PICK s \in Listings(Unseen(g)) :
              round' = [round EXCEPT !.gi = @ + 1, !.any = TRUE, !.items = @ \o ItemsOf(s, g)]
        BY <1>2, <3>1 DEF ListGroup
      <4>2. ItemsOf(s, g) \in Seq(Items)
        BY <2>2, ItemsOfType
      <4>3. round.items \o ItemsOf(s, g) \in Seq(Items)
        BY <4>2 DEF ResolverType, RoundShape
      <4> QED BY <2>2, <4>1, <4>3 DEF ResolverType, RoundShape
    <3>2. CASE g \notin cluster.served
      <4>1. round' = [round EXCEPT !.gi = @ + 1]
        BY <1>2, <3>2 DEF ListGroup
      <4> QED BY <2>2, <4>1 DEF ResolverType, RoundShape
    <3> QED BY <3>1, <3>2
  <2> QED BY <2>1, <2>3 DEF ResolverType, WalkShape, ClusterOK
<1>3. CASE ListFails \/ NothingServed
  <2>1. rpc = "list" /\ Abandon
    BY <1>3 DEF ListFails, NothingServed, InList
  <2> QED BY <2>1 DEF Abandon, ResolverType, RoundShape, WalkShape, ClusterOK
<1>4. CASE PdRoles
  <2>1. /\ rpc = "list" /\ rpc' = "items"
        /\ UNCHANGED <<cluster, snap, filled, gauge, up, touched, stale, held>>
    BY <1>4 DEF PdRoles
  <2>2. pdSkip' \in 0..PdRetryRounds
    BY <1>4, ResolverAssumption DEF PdRoles, ResolverType
  <2>3. round' = round \/ round' = [round EXCEPT !.engines = cluster.slices]
    BY <1>4 DEF PdRoles
  <2>4. cluster.slices \in [Slices -> Reports]
    BY DEF ResolverType, ClusterOK
  <2>5. RoundShape' /\ round'.reps = round.reps
    BY <2>3, <2>4 DEF ResolverType, RoundShape
  <2> QED BY <2>1, <2>2, <2>5 DEF ResolverType, WalkShape, ClusterOK
<1> QED BY <1>1, <1>2, <1>3, <1>4

LEMMA ItemType ==
  ASSUME ResolverType, ItemPolledOnly \/ ItemEndpoints \/ ItemFails
  PROVE  ResolverType'
<1> DEFINE more == AddTarget(round.targets, Item)
<1>1. InItem /\ rpc = "items" /\ round.items # <<>>
  BY DEF ItemPolledOnly, ItemEndpoints, ItemFails, InItem
<1>2. /\ Item \in Confs /\ Tail(round.items) \in Seq(Items)
      /\ Item.service \in Services \cup {None}
  BY <1>1, ItemFacts, ConfFacts DEF ResolverType
<1>3. more \in Seq(Targets)
  BY <1>2, AddTargetType DEF ResolverType, RoundShape
<1> HIDE DEF more
<1>4. CASE ItemPolledOnly \/ ItemFails
  <2>1. round' = [round EXCEPT !.targets = more, !.items = Tail(@)]
    BY <1>4 DEF ItemPolledOnly, ItemFails, more
  <2>2. /\ UNCHANGED <<cluster, rpc, pdSkip, snap, filled, gauge, up, stale, held>>
        /\ touched' \subseteq ObjSet \cup Services
    BY <1>2, <1>4 DEF ItemPolledOnly, ItemFails, ResolverType, NoBackend
  <2>3. RoundShape' /\ round'.reps = round.reps
    BY <1>2, <1>3, <2>1 DEF ResolverType, RoundShape
  <2> QED BY <1>1, <2>2, <2>3 DEF ResolverType, WalkShape, ClusterOK
<1>5. CASE ItemEndpoints
  <2> DEFINE e == cluster.eps[Item.service]
             info == [ip \in DOMAIN e |-> RouteInfo(Item)]
             at == [ips |-> e, obj |-> IF e = Empty THEN None ELSE PodOf[Item.service]]
  <2>1. /\ rpc' = "walk" /\ ~NoBackend(Item)
        /\ round' = [round EXCEPT !.targets = more, !.byIP = Over(info, @), !.depth = 0, !.at = at]
        /\ UNCHANGED <<cluster, pdSkip, snap, filled, gauge, up, touched, stale, held>>
    BY <1>5 DEF ItemEndpoints, more
  <2>2. Item.service \in Services
    BY <1>2, <2>1 DEF NoBackend
  <2>3. e \in Readiness /\ PodOf[Item.service] \in Workloads
    BY <2>2, ChainAssumption DEF ResolverType, ClusterOK
  <2>4. at \in [ips : Readiness, obj : Workloads \cup {None}]
    BY <2>3
  <2> HIDE DEF info, at
  <2>5. /\ round'.reps = round.reps /\ round'.items = round.items /\ round'.at = at
        /\ RoundShape'
    <3>1. 0 \in 0..OwnerWalkMaxDepth
      BY ResolverAssumption
    <3> QED BY <1>3, <2>1, <3>1 DEF ResolverType, RoundShape
  <2>6. WalkShape'
    BY <1>1, <2>1, <2>4, <2>5 DEF WalkShape, Item
  <2> QED BY <1>1, <2>1, <2>5, <2>6 DEF ResolverType, ClusterOK
<1> QED BY <1>4, <1>5

LEMMA WalkedType ==
  ASSUME ResolverType, rpc = "walk", NEW cache, NEW desired \in Nat \cup {None},
         DOMAIN cache \subseteq Workloads,
         \A w \in DOMAIN cache : cache[w] \in Nat \cup {None},
         Walked(cache, desired),
         UNCHANGED <<cluster, pdSkip, snap, filled, gauge, up, touched, stale, held>>
  PROVE  ResolverType'
<1>1. /\ Item \in Confs /\ ~NoBackend(Item) /\ Tail(round.items) \in Seq(Items)
      /\ round.at.ips \in Readiness
  BY ItemFacts DEF ResolverType, WalkShape
<1> DEFINE new == RepsOf(Item, round.at.ips, desired)
<1>2. new \in Seq(Reps)
  BY <1>1, RepsOfType DEF ResolverType
<1> HIDE DEF new
<1>3. round' = [round EXCEPT !.items = Tail(@), !.at = None, !.cache = cache, !.reps = @ \o new]
      /\ rpc' = "items"
  BY DEF Walked, new
<1>4. round.reps \o new \in Seq(Reps)
  BY <1>2 DEF ResolverType, RoundShape
<1>5. RoundShape'
  BY <1>1, <1>3, <1>4 DEF ResolverType, RoundShape
<1>6. filled = 0 /\ 0 \in 0..Writes(round.reps \o new)
  BY <1>4 DEF ResolverType, Writes
<1>7. round'.reps = round.reps \o new
  BY <1>3 DEF ResolverType, RoundShape
<1> QED BY <1>3, <1>5, <1>6, <1>7 DEF ResolverType, WalkShape, ClusterOK

LEMMA WalkType ==
  ASSUME ResolverType, WalkUp \/ WalkFails \/ WalkEnds
  PROVE  ResolverType'
<1>0. /\ rpc = "walk"
      /\ UNCHANGED <<cluster, pdSkip, snap, filled, gauge, up, touched, stale, held>>
  BY DEF WalkUp, WalkFails, WalkEnds, InWalk
<1>1. /\ DOMAIN round.cache \subseteq Workloads
      /\ \A w \in DOMAIN round.cache : round.cache[w] \in Nat \cup {None}
  BY DEF ResolverType, RoundShape
<1>2. CASE WalkFails \/ WalkEnds
  <2>1. Walked(round.cache, None)
    BY <1>2 DEF WalkFails, WalkEnds
  <2> QED BY <1>0, <1>1, <2>1, WalkedType
<1>3. CASE WalkUp
  <2> DEFINE w == round.at.obj
             cache == Over(round.cache, [x \in {w} |-> cluster.spec[w]])
  <2>1. w \in Workloads /\ round.depth < OwnerWalkMaxDepth
    BY <1>0, <1>3 DEF WalkUp, InWalk, ResolverType, WalkShape
  <2>2. cluster.spec[w] \in Nat \cup {None}
    BY <2>1 DEF ResolverType, ClusterOK
  <2>3. /\ DOMAIN cache \subseteq Workloads
        /\ \A x \in DOMAIN cache : cache[x] \in Nat \cup {None}
        /\ cache[w] \in Nat \cup {None}
    <3>1. /\ DOMAIN cache = DOMAIN round.cache \cup {w}
          /\ \A x \in DOMAIN round.cache : cache[x] = round.cache[x]
          /\ w \notin DOMAIN round.cache => cache[w] = cluster.spec[w]
      BY DEF Over
    <3> HIDE DEF cache
    <3> QED BY <1>1, <2>1, <2>2, <3>1
  <2>4. CASE AtTop(w)
    <3>1. Walked(cache, cache[w])
      BY <1>3, <2>4 DEF WalkUp
    <3> HIDE DEF cache
    <3> QED BY <1>0, <2>3, <3>1, WalkedType
  <2>5. CASE ~AtTop(w)
    <3>1. /\ round' = [round EXCEPT !.at.obj = Owner[w], !.cache = cache, !.depth = @ + 1]
          /\ rpc' = rpc
      BY <1>3, <2>5 DEF WalkUp, Deeper
    <3>2. Owner[w] \in Workloads
      BY <2>1, <2>5, ClusterAssumption DEF AtTop
    <3> HIDE DEF cache
    <3>3. round.at \in [ips : Readiness, obj : Workloads \cup {None}] /\ round.items # <<>>
          /\ ~NoBackend(Item)
      BY <1>0 DEF ResolverType, WalkShape
    <3>4. /\ round'.at = [round.at EXCEPT !.obj = Owner[w]] /\ round'.items = round.items
          /\ round'.reps = round.reps
      BY <3>1 DEF ResolverType, RoundShape
    <3>5. RoundShape'
      <4>1. round.depth + 1 \in 0..OwnerWalkMaxDepth
        BY <2>1, ResolverAssumption DEF ResolverType, RoundShape
      <4> QED BY <2>3, <3>1, <4>1 DEF ResolverType, RoundShape
    <3>6. WalkShape'
      <4>1. round'.at \in [ips : Readiness, obj : Workloads \cup {None}]
        BY <3>2, <3>3, <3>4
      <4> QED BY <3>3, <3>4, <4>1 DEF WalkShape, Item
    <3> QED BY <1>0, <3>1, <3>4, <3>5, <3>6 DEF ResolverType, ClusterOK
  <2> QED BY <2>4, <2>5
<1> QED BY <1>2, <1>3

LEMMA FillType ==
  ASSUME ResolverType, Install \/ Fill \/ Finish
  PROVE  ResolverType'
<1>0. Writes(round.reps) \in Nat /\ Writes(<<>>) \in Nat
  BY DEF Writes, ResolverType, RoundShape
<1>1. CASE Install
  <2>1. /\ rpc' = "fill" /\ filled' = 0 /\ stale' = touched
        /\ snap' = [byIP |-> round.byIP, targets |-> round.targets]
        /\ UNCHANGED <<cluster, budget, round, pdSkip, gauge, up, touched, held>>
    BY <1>1 DEF Install
  <2>2. RoundShape' /\ WalkShape' /\ filled' \in 0..Writes(round'.reps)
    BY <1>0, <2>1 DEF ResolverType, RoundShape, WalkShape
  <2>3. DOMAIN snap' = {"byIP", "targets"} /\ snap'.targets \in Seq(Targets)
    BY <2>1 DEF ResolverType, RoundShape
  <2> QED BY <2>1, <2>2, <2>3 DEF ResolverType, ClusterOK
<1>2. CASE Fill
  <2>1. /\ rpc = "fill" /\ filled < Writes(round.reps) /\ filled' = filled + 1
        /\ gauge' = Written(gauge, round.reps, filled')
        /\ UNCHANGED <<cluster, budget, rpc, round, pdSkip, snap, up, touched, stale, held>>
    BY <1>2 DEF Fill
  <2>2. RoundShape' /\ WalkShape' /\ filled' \in 0..Writes(round'.reps)
    BY <1>0, <2>1 DEF ResolverType, RoundShape, WalkShape
  <2>3. DOMAIN gauge' = {"total", "ready", "desired"}
    BY <2>1 DEF ResolverType, Written
  <2> QED BY <2>1, <2>2, <2>3 DEF ResolverType, ClusterOK
<1>3. CASE Finish
  <2>1. /\ rpc' = "idle" /\ up' = TRUE /\ round' = NoRound /\ filled' = 0
        /\ UNCHANGED <<cluster, budget, pdSkip, snap, gauge, touched, stale, held>>
    BY <1>3 DEF Finish
  <2>2. RoundShape' /\ round'.reps = <<>>
    <3>1. 1 \in 1..(Len(Groups) + 1) /\ 0 \in 0..OwnerWalkMaxDepth
      BY ResolverAssumption
    <3> QED BY <2>1, <3>1 DEF RoundShape, NoRound, Empty
  <2> QED BY <1>0, <2>1, <2>2 DEF ResolverType, WalkShape, ClusterOK
<1> QED BY <1>1, <1>2, <1>3

LEMMA ResolverStepType == ASSUME ResolverType, ResolverStep PROVE ResolverType'
BY ListType, ItemType, WalkType, FillType DEF ResolverStep

LEMMA TargetFacts ==
  ASSUME NEW t \in Targets
  PROVE  Key(t) \in Bases \X Routes
BY PollerAssumption DEF Key, BaseOf, Targets

LEMMA CountType ==
  ASSUME PollerType, NEW t \in Targets, CountRejections(t)
  PROVE  /\ prev' \in [Bases \X Routes -> Nat] /\ IsFiniteSet(DOMAIN rejected')
         /\ \A l \in DOMAIN rejected' : rejected'[l] \in Nat
         /\ DOMAIN rejected' = DOMAIN rejected \cup {Label(t)}
<1> DEFINE k == Key(t)
           L == Label(t)
<1>1. k \in Bases \X Routes /\ hits[k] \in Nat /\ prev[k] \in Nat /\ Increase(k) \in Nat
  BY TargetFacts DEF PollerType, Increase
<1>2. PICK n \in Nat : rejected' = Add(rejected, L, n)
  BY <1>1 DEF CountRejections
<1>3. prev' = prev \/ prev' = [prev EXCEPT ![k] = hits[k]]
  BY DEF CountRejections
<1> HIDE DEF k, L
<1>4. /\ DOMAIN rejected' = DOMAIN rejected \cup {L}
      /\ \A l \in DOMAIN rejected' : rejected'[l] \in Nat
  BY <1>2 DEF Add, Over, PollerType
<1>5. IsFiniteSet(DOMAIN rejected \cup {L})
  BY FS_AddElement DEF PollerType
<1> QED BY <1>1, <1>3, <1>4, <1>5 DEF PollerType, L

LEMMA PollerStepType ==
  ASSUME Types, Reject \/ Restart \/ PollerStep
  PROVE  Types'
<1> USE DEF Types
<1>0. ResolverType'
  <2>1. UNCHANGED <<cluster, rpc, round, pdSkip, snap, filled, gauge, up, touched, stale, held>>
    BY DEF Reject, Restart, PollerStep, PollBegin, PollTarget, PollEnd, unspent, resolverVars
  <2> QED BY <2>1 DEF ResolverType, RoundShape, WalkShape, Item, ClusterOK
<1>1. CASE Reject
  <2>1. PICK k \in Bases \X Routes : hits' = [hits EXCEPT ![k] = @ + 1]
    BY <1>1 DEF Reject
  <2>2. hits' \in [Bases \X Routes -> Nat] /\ turned' \in Nat
    BY <1>1, <2>1 DEF Reject, PollerType
  <2>3. UNCHANGED <<restarted, ppc, cycle, prev, rejected, pollUp>>
    BY <1>1 DEF Reject
  <2> QED BY <1>0, <2>2, <2>3 DEF PollerType, CycleType
<1>2. CASE Restart
  <2>1. PICK b \in Bases : hits' = [k \in DOMAIN hits |-> IF k[1] = b THEN 0 ELSE hits[k]]
    BY <1>2 DEF Restart
  <2>2. hits' \in [Bases \X Routes -> Nat]
    BY <2>1 DEF PollerType
  <2>3. restarted' = TRUE /\ UNCHANGED <<turned, ppc, cycle, prev, rejected, pollUp>>
    BY <1>2 DEF Restart
  <2> QED BY <1>0, <2>2, <2>3 DEF PollerType, CycleType
<1>3. CASE PollBegin
  <2>1. /\ ppc' = "poll" /\ cycle' = [NoCycle EXCEPT !.targets = snap.targets]
        /\ pollUp' = Empty /\ UNCHANGED <<hits, turned, restarted, prev, rejected>>
    BY <1>3 DEF PollBegin
  <2>2. CycleType'
    <3>1. snap.targets \in Seq(Targets)
      BY DEF ResolverType
    <3> QED BY <2>1, <3>1 DEF CycleType, NoCycle
  <2> QED BY <1>0, <2>1, <2>2 DEF PollerType, Empty
<1>4. CASE PollTarget
  <2> DEFINE t == cycle.targets[cycle.next]
  <2>1. PICK bad \in SUBSET Pages :
          /\ ppc = "poll" /\ cycle.next <= Len(cycle.targets)
          /\ IF "429_status" \in bad THEN UNCHANGED <<rejected, prev>> ELSE CountRejections(t)
          /\ cycle' = [cycle EXCEPT !.next = @ + 1, !.failed = @ \cup FailedBy(t, bad)]
    BY <1>4 DEF PollTarget
  <2>2. UNCHANGED <<hits, turned, restarted, ppc, pollUp>>
    BY <1>4 DEF PollTarget
  <2>3. t \in Targets
    BY <2>1 DEF PollerType, CycleType
  <2>4. CycleType'
    <3>1. FailedBy(t, bad) \subseteq Bases \X Routes
      BY <2>3, TargetFacts DEF FailedBy
    <3> QED BY <2>1, <3>1 DEF PollerType, CycleType
  <2>5. /\ prev' \in [Bases \X Routes -> Nat] /\ IsFiniteSet(DOMAIN rejected')
        /\ \A l \in DOMAIN rejected' : rejected'[l] \in Nat
    <3>1. CASE "429_status" \in bad
      BY <2>1, <3>1 DEF PollerType
    <3>2. CASE "429_status" \notin bad
      <4>1. CountRejections(t)
        BY <2>1, <3>2
      <4> HIDE DEF t
      <4> QED BY <2>3, <4>1, CountType
    <3> QED BY <3>1, <3>2
  <2> QED BY <1>0, <2>2, <2>4, <2>5 DEF PollerType
<1>5. CASE PollEnd
  <2>1. /\ ppc' = "idle" /\ cycle' = NoCycle
        /\ pollUp' = [l \in {Label(t) : t \in ToSet(cycle.targets)} |-> Verdict(l)]
        /\ UNCHANGED <<hits, turned, restarted, prev, rejected>>
    BY <1>5 DEF PollEnd
  <2>2. CycleType'
    BY <2>1 DEF CycleType, NoCycle
  <2>3. \A l \in DOMAIN pollUp' : pollUp'[l] \in BOOLEAN
    <3>1. \A l \in DOMAIN pollUp' : pollUp'[l] = Verdict(l)
      BY <2>1
    <3>2. \A l : Verdict(l) \in BOOLEAN
      BY DEF Verdict, Ok
    <3> QED BY <3>1, <3>2
  <2> QED BY <1>0, <2>1, <2>2, <2>3 DEF PollerType
<1> QED BY <1>1, <1>2, <1>3, <1>4, <1>5 DEF PollerStep

LEMMA TypesStep == ASSUME Types, [Next]_vars PROVE Types'
<1>1. CASE (ClusterChange \/ ResolverStep) /\ UNCHANGED pollerVars
  <2>1. ResolverType'
    BY <1>1, ClusterChangeType, ResolverStepType DEF Types
  <2>2. PollerType'
    BY <1>1 DEF Types, PollerType, CycleType, pollerVars
  <2> QED BY <2>1, <2>2 DEF Types
<1>2. CASE UNCHANGED vars
  <2>1. ResolverType'
    BY <1>2 DEF Types, ResolverType, RoundShape, WalkShape, Item, ClusterOK, vars, resolverVars
  <2>2. PollerType'
    BY <1>2 DEF Types, PollerType, CycleType, vars, pollerVars
  <2> QED BY <2>1, <2>2 DEF Types
<1> QED BY <1>1, <1>2, PollerStepType DEF Next

LEMMA TypesInit == Init => Types
<1> SUFFICES ASSUME Init PROVE Types
  OBVIOUS
<1>1. ResolverType
  <2>1. /\ cluster = InitCluster /\ rpc = "idle" /\ round = NoRound /\ pdSkip = 0
        /\ snap = [byIP |-> Empty, targets |-> <<>>] /\ filled = 0
        /\ gauge = [total |-> Empty, ready |-> Empty, desired |-> Empty] /\ up = FALSE
        /\ touched = {} /\ stale = ObjSet \cup Services
        /\ held = [w \in Workloads \cup {Disaggregated} |-> {}]
    BY DEF Init, ResolverInit
  <2>2. RoundShape
    <3>1. 1 \in 1..(Len(Groups) + 1) /\ 0 \in 0..OwnerWalkMaxDepth
      BY ResolverAssumption
    <3> QED BY <2>1, <3>1 DEF RoundShape, NoRound, Empty
  <2>3. filled \in 0..Writes(round.reps)
    BY <2>1 DEF NoRound, Writes
  <2>4. ClusterOK(cluster) /\ pdSkip \in 0..PdRetryRounds
    BY <2>1, ClusterAssumption, ResolverAssumption
  <2>5. /\ DOMAIN snap = {"byIP", "targets"} /\ snap.targets \in Seq(Targets)
        /\ DOMAIN gauge = {"total", "ready", "desired"} /\ up \in BOOLEAN
    <3>1. snap.targets = <<>> /\ <<>> \in Seq(Targets)
      BY <2>1
    <3>2. DOMAIN snap = {"byIP", "targets"} /\ DOMAIN gauge = {"total", "ready", "desired"}
      BY <2>1
    <3> QED BY <2>1, <3>1, <3>2
  <2>6. DOMAIN held = Workloads \cup {Disaggregated}
    BY <2>1
  <2>7. /\ rpc \in {"idle", "list", "items", "walk", "fill"}
        /\ WalkShape /\ filled = 0
        /\ touched \subseteq ObjSet \cup Services /\ stale \subseteq ObjSet \cup Services
    BY <2>1 DEF WalkShape
  <2> QED BY <2>2, <2>3, <2>4, <2>5, <2>6, <2>7 DEF ResolverType
<1>2. PollerType
  <2>1. Zero \in [Bases \X Routes -> Nat]
    BY DEF Zero
  <2>2. IsFiniteSet(DOMAIN Empty)
    BY FS_EmptySet DEF Empty
  <2>3. CycleType
    BY DEF Init, CycleType, NoCycle
  <2> QED BY <2>1, <2>2, <2>3 DEF Init, PollerType, Empty
<1> QED BY <1>1, <1>2 DEF Types

LEMMA TypesHold == Spec => []Types
BY TypesInit, TypesStep, PTL DEF Spec

-----------------------------------------------------------------------------
(***************************************************************************)
(* The verdict.  During a cycle the answers are exactly those of the       *)
(* targets asked so far, and a key has failed if and only if one of them   *)
(* did not come whole.                                                     *)
(***************************************************************************)
AnswersSound ==
  ppc = "poll" =>
    /\ \A i \in 1..(cycle.next - 1) : \E a \in answers :
         a.label = Label(cycle.targets[i]) /\ a.key = Key(cycle.targets[i])
    /\ \A k \in cycle.failed : \E a \in answers : a.key = k /\ ~a.ok
    /\ \A a \in answers : IF a.ok THEN a.label \in DOMAIN rejected ELSE a.key \in cycle.failed

VerdictInv == AnswersSound /\ PollUpHonest

LEMMA VerdictTarget ==
  ASSUME Types, VerdictInv, PollTarget
  PROVE  VerdictInv'
<1> DEFINE t == cycle.targets[cycle.next]
           asked(bad) == [label |-> Label(t), key |-> Key(t), ok |-> bad = {}]
<1>1. PICK bad \in SUBSET Pages :
        /\ ppc = "poll" /\ cycle.next <= Len(cycle.targets)
        /\ IF "429_status" \in bad THEN UNCHANGED <<rejected, prev>> ELSE CountRejections(t)
        /\ cycle' = [cycle EXCEPT !.next = @ + 1, !.failed = @ \cup FailedBy(t, bad)]
        /\ answers' = answers \cup {asked(bad)}
  BY DEF PollTarget
<1>2. ppc' = ppc
  BY DEF PollTarget
<1> DEFINE new == asked(bad)
<1>3. new.label = Label(t) /\ new.key = Key(t) /\ (new.ok <=> bad = {})
  OBVIOUS
<1>4. t \in Targets /\ cycle.next \in Nat
  BY <1>1 DEF Types, PollerType, CycleType
<1>5. /\ DOMAIN rejected \subseteq DOMAIN rejected'
      /\ bad = {} => Label(t) \in DOMAIN rejected'
  <2>1. CASE "429_status" \in bad
    BY <1>1, <2>1
  <2>2. CASE "429_status" \notin bad
    <3>1. CountRejections(t) /\ PollerType
      BY <1>1, <2>2 DEF Types
    <3> HIDE DEF t
    <3> QED BY <1>4, <3>1, CountType
  <2> QED BY <2>1, <2>2
<1>6. /\ cycle'.targets = cycle.targets /\ cycle'.next = cycle.next + 1
      /\ cycle'.failed = cycle.failed \cup (IF bad = {} THEN {} ELSE {Key(t)})
  BY <1>1 DEF Types, PollerType, CycleType, FailedBy
<1>7. answers' = answers \cup {new}
  BY <1>1
<1>8. ASSUME NEW i \in 1..(cycle'.next - 1)
      PROVE  \E a \in answers' : a.label = Label(cycle'.targets[i]) /\ a.key = Key(cycle'.targets[i])
  <2>1. CASE i = cycle.next
    BY <1>3, <1>6, <1>7, <2>1
  <2>2. CASE i # cycle.next
    <3>1. i \in 1..(cycle.next - 1)
      BY <1>4, <1>6, <1>8, <2>2
    <3>2. PICK a \in answers : a.label = Label(cycle.targets[i]) /\ a.key = Key(cycle.targets[i])
      BY <1>1, <3>1 DEF VerdictInv, AnswersSound
    <3> QED BY <1>6, <1>7, <3>2
  <2> QED BY <2>1, <2>2
<1> HIDE DEF asked, new
<1>9. ASSUME NEW k \in cycle'.failed
      PROVE  \E a \in answers' : a.key = k /\ ~a.ok
  <2>1. CASE k \in cycle.failed
    BY <1>1, <1>7, <2>1 DEF VerdictInv, AnswersSound
  <2>2. CASE k \notin cycle.failed
    BY <1>3, <1>6, <1>7, <1>9, <2>2
  <2> QED BY <2>1, <2>2
<1>10. ASSUME NEW a \in answers'
       PROVE  IF a.ok THEN a.label \in DOMAIN rejected' ELSE a.key \in cycle'.failed
  <2>1. CASE a \in answers
    BY <1>1, <1>5, <1>6, <2>1 DEF VerdictInv, AnswersSound
  <2>2. CASE a \notin answers
    BY <1>3, <1>5, <1>6, <1>7, <1>10, <2>2
  <2> QED BY <2>1, <2>2
<1>11. AnswersSound'
  BY <1>8, <1>9, <1>10 DEF AnswersSound
<1>12. PollUpHonest'
  BY <1>1, <1>2 DEF PollUpHonest
<1> QED BY <1>11, <1>12 DEF VerdictInv

LEMMA VerdictEnd ==
  ASSUME Types, VerdictInv, PollEnd
  PROVE  VerdictInv'
<1>1. /\ ppc = "poll" /\ cycle.next > Len(cycle.targets) /\ ppc' = "idle"
      /\ pollUp' = [l \in {Label(t) : t \in ToSet(cycle.targets)} |-> Verdict(l)]
      /\ UNCHANGED <<rejected, answers>>
  BY DEF PollEnd
<1> DEFINE n == Len(cycle.targets)
<1>2. n \in Nat /\ DOMAIN cycle.targets = 1..n /\ cycle.next = n + 1
  BY <1>1 DEF Types, PollerType, CycleType
<1>3. ASSUME NEW l \in DOMAIN pollUp'
      PROVE  \E a \in answers : /\ a.label = l
                                /\ pollUp'[l] <=> \A b \in answers : b.key = a.key => b.ok
                                /\ pollUp'[l] => l \in DOMAIN rejected
  <2> DEFINE S == {k \in 1..n : Label(cycle.targets[k]) = l}
             m == Max(S)
  <2>1. m \in S
    <3>1. S # {}
      <4>1. PICK t \in ToSet(cycle.targets) : l = Label(t)
        BY <1>1, <1>3
      <4> QED BY <1>2, <4>1 DEF ToSet
    <3>2. IsFiniteSet(S)
      <4>1. IsFiniteSet(1..n)
        <5>1. 1 \in Int /\ n \in Int
          BY <1>2
        <5> QED BY <5>1, FS_Interval
      <4>2. S \subseteq 1..n
        OBVIOUS
      <4> QED BY <4>1, <4>2, FS_Subset
    <3>3. S \subseteq Int
      BY <1>2
    <3> HIDE DEF S
    <3>4. \E x \in S : \A y \in S : x >= y
      BY <3>1, <3>2, <3>3, Greatest
    <3> QED BY <3>4 DEF Max
  <2>2. pollUp'[l] <=> Key(cycle.targets[m]) \notin cycle.failed
    BY <1>1, <1>3 DEF Verdict, Ok
  <2> HIDE DEF m
  <2>3. m \in 1..(cycle.next - 1) /\ Label(cycle.targets[m]) = l
    BY <1>2, <2>1
  <2>4. PICK a \in answers : a.label = l /\ a.key = Key(cycle.targets[m])
    BY <1>1, <2>3 DEF VerdictInv, AnswersSound
  <2>5. a.key \notin cycle.failed <=> \A b \in answers : b.key = a.key => b.ok
    BY <1>1 DEF VerdictInv, AnswersSound
  <2>6. a.key \notin cycle.failed => l \in DOMAIN rejected
    BY <1>1, <2>4 DEF VerdictInv, AnswersSound
  <2> QED BY <2>2, <2>4, <2>5, <2>6
<1>4. PollUpHonest'
  BY <1>1, <1>3 DEF PollUpHonest
<1>5. AnswersSound'
  BY <1>1 DEF AnswersSound
<1> QED BY <1>4, <1>5 DEF VerdictInv

LEMMA VerdictStep == ASSUME Types, VerdictInv, [Next]_vars PROVE VerdictInv'
<1>1. CASE UNCHANGED <<ppc, cycle, rejected, pollUp, answers>>
  <2>1. AnswersSound'
    BY <1>1 DEF VerdictInv, AnswersSound
  <2>2. PollUpHonest'
    BY <1>1 DEF VerdictInv, PollUpHonest
  <2> QED BY <2>1, <2>2 DEF VerdictInv
<1>2. CASE PollBegin
  <2>1. /\ ppc' = "poll" /\ cycle'.next = 1 /\ cycle'.failed = {} /\ answers' = {}
        /\ pollUp' = Empty
    BY <1>2 DEF PollBegin, NoCycle
  <2> QED BY <2>1 DEF VerdictInv, AnswersSound, PollUpHonest
<1>3. CASE ~PollBegin /\ ~PollTarget /\ ~PollEnd
  <2>1. UNCHANGED <<ppc, cycle, rejected, pollUp, answers>>
    BY <1>3 DEF Next, PollerStep, Reject, Restart, pollerVars, vars
  <2> QED BY <1>1, <2>1
<1> QED BY <1>2, <1>3, VerdictTarget, VerdictEnd

\* Between cycles the exported verdict of a label is that of one openresty and
\* route that carries it: 1 exactly if every page of that pair came, and then
\* its rejection counter exists (pollOnce, fail and the loop over targetOK).
THEOREM VerdictsHonest == Spec => []PollUpHonest
<1>1. Init => VerdictInv
  BY DEF Init, VerdictInv, AnswersSound, PollUpHonest, Empty
<1>2. Spec => []VerdictInv
  BY <1>1, VerdictStep, TypesHold, PTL DEF Spec
<1>3. VerdictInv => PollUpHonest
  BY DEF VerdictInv
<1> QED BY <1>2, <1>3, PTL

-----------------------------------------------------------------------------
(***************************************************************************)
(* The rejection counter.  What is exported and what the next polls will   *)
(* still add to it never exceed the rejections there were; and until an    *)
(* openresty restarts the exported sum is the sum of the counts seen last. *)
(***************************************************************************)
Slots == Bases \X Routes
Due == [k \in Slots |-> Increase(k)]

CountInv ==
  /\ SumFunctionOnSet(rejected, DOMAIN rejected) + SumFunctionOnSet(Due, Slots) <= turned
  /\ ~restarted => /\ \A k \in Slots : prev[k] <= hits[k]
                   /\ SumFunctionOnSet(rejected, DOMAIN rejected) = SumFunctionOnSet(prev, Slots)

LEMMA SlotsFinite == IsFiniteSet(Slots)
BY PollerAssumption, FS_Product DEF Slots

LEMMA CountTypes ==
  ASSUME Types
  PROVE  /\ hits \in [Slots -> Nat] /\ prev \in [Slots -> Nat]
         /\ Due \in [Slots -> Nat] /\ turned \in Nat
         /\ IsFiniteSet(DOMAIN rejected)
         /\ \A l \in DOMAIN rejected : rejected[l] \in Int
         /\ SumFunctionOnSet(rejected, DOMAIN rejected) \in Nat
         /\ SumFunctionOnSet(Due, Slots) \in Nat
         /\ SumFunctionOnSet(prev, Slots) \in Nat
<1>1. /\ hits \in [Slots -> Nat] /\ prev \in [Slots -> Nat] /\ turned \in Nat
      /\ IsFiniteSet(DOMAIN rejected) /\ \A l \in DOMAIN rejected : rejected[l] \in Nat
  BY DEF Types, PollerType, Slots
<1>2. Due \in [Slots -> Nat]
  BY <1>1 DEF Due, Increase
<1>3. SumFunctionOnSet(rejected, DOMAIN rejected) \in Nat
  BY <1>1, SumNat
<1>4. SumFunctionOnSet(Due, Slots) \in Nat
  <2>1. \A k \in Slots : Due[k] \in Nat
    BY <1>2
  <2> QED BY <2>1, SlotsFinite, SumNat
<1>5. SumFunctionOnSet(prev, Slots) \in Nat
  <2>1. \A k \in Slots : prev[k] \in Nat
    BY <1>1
  <2> QED BY <2>1, SlotsFinite, SumNat
<1> QED BY <1>1, <1>2, <1>3, <1>4, <1>5

\* A rejection raises what is due by at most one.
LEMMA CountReject ==
  ASSUME Types, Types', CountInv, Reject
  PROVE  CountInv'
<1>1. PICK k \in Slots : hits' = [hits EXCEPT ![k] = @ + 1]
  BY DEF Reject, Slots
<1>2. turned' = turned + 1 /\ UNCHANGED <<rejected, prev, restarted>>
  BY DEF Reject
<1>3. /\ hits \in [Slots -> Nat] /\ prev \in [Slots -> Nat] /\ turned \in Nat
      /\ SumFunctionOnSet(rejected, DOMAIN rejected) \in Nat
      /\ SumFunctionOnSet(Due, Slots) \in Nat
  BY CountTypes
<1> DEFINE f == Due
           g == Due'
<1>4. /\ \A y \in Slots : f[y] \in Int /\ g[y] \in Int
      /\ \A y \in Slots : y # k => f[y] = g[y]
      /\ g[k] <= f[k] + 1
  BY <1>1, <1>2, <1>3 DEF Due, Increase
<1>5. f[k] \in Int /\ g[k] \in Int
  BY <1>4
<1> HIDE DEF f, g
<1>6. SumFunctionOnSet(g, Slots) - g[k] = SumFunctionOnSet(f, Slots) - f[k]
  BY <1>4, SlotsFinite, SumChange
<1>7. SumFunctionOnSet(g, Slots) \in Int /\ SumFunctionOnSet(f, Slots) \in Int
  <2>1. (\A y \in Slots : f[y] \in Int) /\ (\A y \in Slots : g[y] \in Int)
    BY <1>4
  <2>2. SumFunctionOnSet(g, Slots) \in Int
    BY <2>1, SlotsFinite, SumType
  <2>3. SumFunctionOnSet(f, Slots) \in Int
    BY <2>1, SlotsFinite, SumType
  <2> QED BY <2>2, <2>3
<1>8. SumFunctionOnSet(g, Slots) <= SumFunctionOnSet(f, Slots) + 1
  BY <1>4, <1>5, <1>6, <1>7
<1>9. SumFunctionOnSet(rejected', DOMAIN rejected') + SumFunctionOnSet(g, Slots) <= turned'
  <2>1. SumFunctionOnSet(rejected, DOMAIN rejected) + SumFunctionOnSet(f, Slots) <= turned
    BY DEF CountInv, f
  <2> QED BY <1>2, <1>3, <1>7, <1>8, <2>1
<1>10. ~restarted' => \A y \in Slots : prev'[y] <= hits'[y]
  BY <1>1, <1>2, <1>3 DEF CountInv
<1>11. ~restarted' => SumFunctionOnSet(rejected', DOMAIN rejected') = SumFunctionOnSet(prev', Slots)
  BY <1>2 DEF CountInv
<1>12. Slots' = Slots
  BY DEF Slots
<1> QED BY <1>9, <1>10, <1>11, <1>12 DEF CountInv, g

\* A restart takes what is due at its routes away.
LEMMA CountRestart ==
  ASSUME Types, Types', CountInv, Restart
  PROVE  CountInv'
<1>1. PICK b \in Bases : hits' = [k \in DOMAIN hits |-> IF k[1] = b THEN 0 ELSE hits[k]]
  BY DEF Restart
<1>2. restarted' = TRUE /\ UNCHANGED <<turned, rejected, prev>>
  BY DEF Restart
<1>3. /\ hits \in [Slots -> Nat] /\ prev \in [Slots -> Nat] /\ turned \in Nat
      /\ SumFunctionOnSet(rejected, DOMAIN rejected) \in Nat
      /\ SumFunctionOnSet(Due, Slots) \in Nat
  BY CountTypes
<1> DEFINE f == Due
           g == Due'
<1>4. \A y \in Slots : g[y] \in Int /\ f[y] \in Int /\ g[y] <= f[y]
  BY <1>1, <1>2, <1>3 DEF Due, Increase
<1> HIDE DEF f, g
<1>5. SumFunctionOnSet(g, Slots) <= SumFunctionOnSet(f, Slots)
  BY <1>4, SlotsFinite, SumMonotone
<1>6. SumFunctionOnSet(g, Slots) \in Int
  <2>1. \A y \in Slots : g[y] \in Int
    BY <1>4
  <2> QED BY <2>1, SlotsFinite, SumType
<1>7. SumFunctionOnSet(rejected, DOMAIN rejected) + SumFunctionOnSet(g, Slots) <= turned
  <2>1. SumFunctionOnSet(rejected, DOMAIN rejected) + SumFunctionOnSet(f, Slots) <= turned
    BY DEF CountInv, f
  <2>2. SumFunctionOnSet(f, Slots) \in Nat
    BY <1>3 DEF f
  <2> QED BY <1>3, <1>5, <1>6, <2>1, <2>2
<1>8. Slots' = Slots
  BY DEF Slots
<1> QED BY <1>2, <1>7, <1>8 DEF CountInv, g

\* The sum of the counter after one series got n more.
LEMMA SumAdd ==
  ASSUME NEW r, IsFiniteSet(DOMAIN r), \A l \in DOMAIN r : r[l] \in Int,
         NEW L, NEW n \in Int
  PROVE  SumFunctionOnSet(Add(r, L, n), DOMAIN Add(r, L, n)) = SumFunctionOnSet(r, DOMAIN r) + n
<1> DEFINE a == Add(r, L, n)
<1>1. /\ DOMAIN a = DOMAIN r \cup {L}
      /\ \A l \in DOMAIN r : l # L => a[l] = r[l]
      /\ a[L] = n + (IF L \in DOMAIN r THEN r[L] ELSE 0)
  BY DEF Add, Over
<1> HIDE DEF a
<1>2. SumFunctionOnSet(r, DOMAIN r) \in Int
  BY SumType
<1>3. CASE L \in DOMAIN r
  <2>1. DOMAIN a = DOMAIN r /\ a[L] = n + r[L] /\ r[L] \in Int
    BY <1>1, <1>3
  <2>2. /\ \A y \in DOMAIN r : r[y] \in Int /\ a[y] \in Int
        /\ \A y \in DOMAIN r : y # L => r[y] = a[y]
    BY <1>1, <2>1
  <2>3. SumFunctionOnSet(a, DOMAIN r) - a[L] = SumFunctionOnSet(r, DOMAIN r) - r[L]
    BY <1>3, <2>2, SumChange
  <2>4. SumFunctionOnSet(a, DOMAIN r) \in Int
    <3>1. \A y \in DOMAIN r : a[y] \in Int
      BY <2>2
    <3> QED BY <3>1, SumType
  <2>5. SumFunctionOnSet(a, DOMAIN a) = SumFunctionOnSet(r, DOMAIN r) + n
    BY <1>2, <2>1, <2>3, <2>4
  <2> QED BY <2>5 DEF a
<1>4. CASE L \notin DOMAIN r
  <2>1. DOMAIN a = DOMAIN r \cup {L} /\ a[L] = n /\ \A y \in DOMAIN r : r[y] \in Int /\ a[y] = r[y]
    BY <1>1, <1>4
  <2>2. SumFunctionOnSet(a, DOMAIN r \cup {L}) = a[L] + SumFunctionOnSet(r, DOMAIN r)
    BY <1>4, <2>1, SumNew
  <2>3. SumFunctionOnSet(a, DOMAIN a) = SumFunctionOnSet(r, DOMAIN r) + n
    BY <1>2, <2>1, <2>2
  <2> QED BY <2>3 DEF a
<1> QED BY <1>3, <1>4

\* A poll moves what is due into the counter.
LEMMA CountPoll ==
  ASSUME Types, Types', CountInv, NEW t \in Targets, CountRejections(t),
         UNCHANGED <<hits, turned, restarted>>
  PROVE  CountInv'
<1> DEFINE k == Key(t)
           L == Label(t)
           n == Increase(k)
           f == Due
           g == Due'
           r == rejected
<1>1. k \in Slots
  BY TargetFacts DEF Slots
<1>2. /\ hits \in [Slots -> Nat] /\ prev \in [Slots -> Nat] /\ turned \in Nat
      /\ IsFiniteSet(DOMAIN r) /\ (\A l \in DOMAIN r : r[l] \in Int)
      /\ SumFunctionOnSet(r, DOMAIN r) \in Nat
      /\ SumFunctionOnSet(f, Slots) \in Nat
      /\ SumFunctionOnSet(prev, Slots) \in Nat
  BY CountTypes
<1>3. n \in Nat /\ (hits[k] = 0 => n = 0)
  BY <1>1, <1>2 DEF Increase
<1>4. /\ rejected' = Add(r, L, n)
      /\ prev' = IF hits[k] = 0 THEN prev ELSE [prev EXCEPT ![k] = hits[k]]
  BY <1>3 DEF CountRejections
<1>5. Slots' = Slots
  BY DEF Slots
<1>6. /\ \A y \in Slots : f[y] \in Int /\ g[y] \in Int
      /\ \A y \in Slots : y # k => f[y] = g[y]
      /\ g[k] = 0 /\ f[k] = n
  BY <1>1, <1>2, <1>3, <1>4, <1>5 DEF Due, Increase
<1>7. \A y \in Slots : prev[y] \in Int /\ prev'[y] \in Int
  BY <1>1, <1>2, <1>4
<1>8. \A y \in Slots : y # k => prev[y] = prev'[y]
  BY <1>1, <1>2, <1>4
<1>9. ~restarted => prev'[k] = prev[k] + n
  BY <1>1, <1>2, <1>3, <1>4 DEF CountInv, Increase
<1>10. ~restarted => \A y \in Slots : prev'[y] <= hits[y]
  BY <1>1, <1>2, <1>4 DEF CountInv
<1>11. SumFunctionOnSet(r, DOMAIN r) + SumFunctionOnSet(f, Slots) <= turned
  BY DEF CountInv
<1>12. ~restarted => SumFunctionOnSet(r, DOMAIN r) = SumFunctionOnSet(prev, Slots)
  BY DEF CountInv
<1> HIDE DEF k, L, n, f, g, r
<1>13. SumFunctionOnSet(Add(r, L, n), DOMAIN Add(r, L, n)) = SumFunctionOnSet(r, DOMAIN r) + n
  <2>1. n \in Int
    BY <1>3
  <2> QED BY <1>2, <2>1, SumAdd
<1>14. SumFunctionOnSet(rejected', DOMAIN rejected') = SumFunctionOnSet(r, DOMAIN r) + n
  BY <1>4, <1>13
<1>15. SumFunctionOnSet(g, Slots) = SumFunctionOnSet(f, Slots) - n
  <2>1. SumFunctionOnSet(g, Slots) - g[k] = SumFunctionOnSet(f, Slots) - f[k]
    BY <1>1, <1>6, SlotsFinite, SumChange
  <2>2. SumFunctionOnSet(g, Slots) \in Int
    <3>1. \A y \in Slots : g[y] \in Int
      BY <1>6
    <3> QED BY <3>1, SlotsFinite, SumType
  <2> QED BY <1>2, <1>3, <1>6, <2>1, <2>2
<1>16. SumFunctionOnSet(prev', Slots) - prev'[k] = SumFunctionOnSet(prev, Slots) - prev[k]
  <2> DEFINE p == prev
             q == prev'
  <2>1. /\ \A y \in Slots : p[y] \in Int /\ q[y] \in Int
        /\ \A y \in Slots : y # k => p[y] = q[y]
    BY <1>7, <1>8
  <2> HIDE DEF p, q
  <2>2. SumFunctionOnSet(q, Slots) - q[k] = SumFunctionOnSet(p, Slots) - p[k]
    BY <1>1, <2>1, SlotsFinite, SumChange
  <2> QED BY <2>2 DEF p, q
<1>17. SumFunctionOnSet(prev', Slots) \in Int
  <2> DEFINE q == prev'
  <2>1. \A y \in Slots : q[y] \in Int
    BY <1>7
  <2> HIDE DEF q
  <2>2. SumFunctionOnSet(q, Slots) \in Int
    BY <2>1, SlotsFinite, SumType
  <2> QED BY <2>2 DEF q
<1>18. ~restarted => SumFunctionOnSet(rejected', DOMAIN rejected') = SumFunctionOnSet(prev', Slots)
  <2>1. prev[k] \in Int /\ prev'[k] \in Int
    BY <1>1, <1>7
  <2> QED BY <1>2, <1>3, <1>9, <1>12, <1>14, <1>16, <1>17, <2>1
<1>19. SumFunctionOnSet(rejected', DOMAIN rejected') + SumFunctionOnSet(g, Slots) <= turned
  BY <1>2, <1>3, <1>11, <1>14, <1>15
<1> QED BY <1>5, <1>10, <1>18, <1>19 DEF CountInv, g

LEMMA CountStep == ASSUME Types, Types', CountInv, [Next]_vars PROVE CountInv'
<1>1. ASSUME UNCHANGED <<hits, turned, restarted, prev, rejected>> PROVE CountInv'
  BY <1>1 DEF CountInv, Due, Increase, Slots
<1>2. CASE PollTarget
  <2> DEFINE t == cycle.targets[cycle.next]
  <2>1. PICK bad \in SUBSET Pages :
          /\ cycle.next <= Len(cycle.targets)
          /\ IF "429_status" \in bad THEN UNCHANGED <<rejected, prev>> ELSE CountRejections(t)
    BY <1>2 DEF PollTarget
  <2>2. UNCHANGED <<hits, turned, restarted>>
    BY <1>2 DEF PollTarget
  <2>3. t \in Targets
    BY <2>1 DEF Types, PollerType, CycleType
  <2> HIDE DEF t
  <2>4. CASE "429_status" \in bad
    BY <1>1, <2>1, <2>2, <2>4
  <2>5. CASE "429_status" \notin bad
    BY <2>1, <2>2, <2>3, <2>5, CountPoll
  <2> QED BY <2>4, <2>5
<1>3. CASE ~PollTarget /\ ~Reject /\ ~Restart
  <2>1. UNCHANGED <<hits, turned, restarted, prev, rejected>>
    BY <1>3 DEF Next, PollerStep, PollBegin, PollEnd, pollerVars, vars
  <2> QED BY <1>1, <2>1
<1> QED BY <1>2, <1>3, CountReject, CountRestart

LEMMA CountInit == Init => CountInv
<1> SUFFICES ASSUME Init PROVE CountInv
  OBVIOUS
<1>1. rejected = Empty /\ hits = Zero /\ prev = Zero /\ turned = 0
  BY DEF Init
<1>2. SumFunctionOnSet(rejected, DOMAIN rejected) = 0
  <2>1. DOMAIN rejected = {}
    BY <1>1 DEF Empty
  <2> QED BY <2>1, FS_EmptySet, SumStep
<1> DEFINE z == [k \in Slots |-> 0]
<1>3. prev = z /\ Due = z /\ \A k \in Slots : prev[k] <= hits[k]
  BY <1>1 DEF Due, Zero, Increase, Slots
<1>4. SumFunctionOnSet(z, Slots) = 0
  <2>1. \A k \in Slots : z[k] = 0
    OBVIOUS
  <2> HIDE DEF z
  <2> QED BY <2>1, SlotsFinite, SumZero
<1>5. SumFunctionOnSet(prev, Slots) = 0 /\ SumFunctionOnSet(Due, Slots) = 0
  BY <1>3, <1>4
<1> QED BY <1>1, <1>2, <1>3, <1>5 DEF CountInv

LEMMA TypesGood == ASSUME Types PROVE TypeOK
<1>1. /\ ToSet(round.targets) \subseteq Targets /\ ToSet(snap.targets) \subseteq Targets
  BY DEF Types, ResolverType, RoundShape, ToSet
<1> QED BY <1>1 DEF Types, ResolverType, RoundShape, PollerType, TypeOK, Targets

\* The exported rejection counter counts a rejection at most once, whatever
\* restarts there are and whichever openrestys share a route name, and loses none
\* that a poll saw until one restarts; no counter goes below zero, no target
\* lacks a route and no owner walk passes its bound (pollOnce, p.prev).
THEOREM RejectionsSound == Spec => []CountersSound
<1>1. Spec => []CountInv
  <2>1. Types /\ Types' /\ CountInv /\ [Next]_vars => CountInv'
    BY CountStep
  <2> QED BY <2>1, CountInit, TypesHold, PTL DEF Spec
<1>2. Types /\ CountInv => CountersSound
  <2>1. SUFFICES ASSUME Types, CountInv PROVE RejectionsCountedOnce
    BY TypesGood DEF CountersSound
  <2>2. /\ DOMAIN prev = Slots /\ turned \in Nat
        /\ SumFunctionOnSet(rejected, DOMAIN rejected) \in Nat
        /\ SumFunctionOnSet(Due, Slots) \in Nat
    BY <2>1, CountTypes
  <2>3. SumFunctionOnSet(rejected, DOMAIN rejected) <= turned
    BY <2>1, <2>2 DEF CountInv
  <2> QED BY <2>1, <2>2, <2>3 DEF CountInv, RejectionsCountedOnce, SumOf, SumFunction
<1> QED BY <1>1, <1>2, TypesHold, PTL

-----------------------------------------------------------------------------
(***************************************************************************)
(* The replica gauges.  What a refill has written of a vector so far is,   *)
(* per label, what the last of the round's series with that label says;    *)
(* and two series of a round have one label only if two ModelRoutes may    *)
(* carry it.  So a scrape compares two counts of one series, unless it is  *)
(* shared and the refill is between its two counts.                        *)
(***************************************************************************)
\* A round starts from nothing.
ListFresh ==
  rpc = "list" => /\ round.reps = <<>> /\ round.targets = <<>>
                  /\ round.byIP = Empty /\ round.cache = Empty /\ round.engines = None

DistinctItems ==
  \A i, j \in DOMAIN round.items : round.items[i].obj = round.items[j].obj => i = j

Place(l) == <<l[1], l[2]>>

DistinctSeries ==
  /\ \A r \in DOMAIN round.reps, i \in DOMAIN round.items :
       Series(round.items[i].conf) = Place(round.reps[r].label) => Shared(round.reps[r].label)
  /\ \A r, s \in DOMAIN round.reps :
       round.reps[r].label = round.reps[s].label /\ r # s => Shared(round.reps[r].label)

\* The last series that wrote the entry of label l in vector v: a count that is
\* not known is not written.
WroteLast(r, l, v) ==
  /\ 3 * r + v <= filled /\ round.reps[r].label = l /\ round.reps[r][Vecs[v]] # None
  /\ gauge[Vecs[v]][l] = round.reps[r][Vecs[v]]
  /\ \A s \in DOMAIN round.reps : s > r /\ 3 * s + v <= filled =>
       round.reps[s].label # l \/ round.reps[s][Vecs[v]] = None

FillSound ==
  rpc = "fill" => \A v \in 1..3 : filled >= v =>
    \A l \in DOMAIN gauge[Vecs[v]] : \E r \in DOMAIN round.reps : WroteLast(r, l, v)

Settled ==
  rpc # "fill" \/ filled = 0 =>
    \A l \in DOMAIN gauge.ready \cap DOMAIN gauge.total : gauge.ready[l] <= gauge.total[l]

SeriesInv == ListFresh /\ DistinctItems /\ DistinctSeries /\ FillSound /\ Settled

\* Every step is one of the cluster, one of the resolver, or leaves both alone.
LEMMA Frames ==
  ASSUME [Next]_vars
  PROVE  ClusterChange \/ ResolverStep \/ UNCHANGED unspent
<1>1. CASE ClusterChange
  BY <1>1
<1>2. CASE Reject \/ Restart
  BY <1>2 DEF Reject, Restart
<1>3. CASE PollBegin \/ PollEnd
  BY <1>3 DEF PollBegin, PollEnd, resolverVars, unspent
<1>4. CASE PollTarget
  BY <1>4 DEF PollTarget
<1>5. CASE UNCHANGED vars
  BY <1>5 DEF vars, resolverVars, unspent
<1> QED BY <1>1, <1>2, <1>3, <1>4, <1>5 DEF Next, PollerStep

LEMMA OneChange == ASSUME ClusterChange PROVE \E c, what : Change(c, what)
BY DEF ClusterChange, ChangeModelRoute, ChangeServed, ChangeEndpoints, Scale, ChangeSlice,
       ChangePermission

LEMMA TailItems ==
  ASSUME RoundShape, round.items # <<>>
  PROVE  /\ DOMAIN round.items = 1..Len(round.items) /\ Len(round.items) \in Nat \ {0}
         /\ DOMAIN Tail(round.items) = 1..(Len(round.items) - 1)
         /\ \A i \in DOMAIN Tail(round.items) :
              i + 1 \in DOMAIN round.items /\ Tail(round.items)[i] = round.items[i + 1]
         /\ Head(round.items) = round.items[1] /\ 1 \in DOMAIN round.items
<1> DEFINE s == round.items
<1>1. s \in Seq(Items) /\ s # <<>>
  BY DEF RoundShape
<1> HIDE DEF s
<1>2. DOMAIN s = 1..Len(s) /\ Len(s) \in Nat \ {0} /\ DOMAIN Tail(s) = 1..(Len(s) - 1)
  BY <1>1
<1>3. \A i \in 1..(Len(s) - 1) : i + 1 \in 1..Len(s) /\ Tail(s)[i] = s[i + 1]
  BY <1>1, <1>2
<1>4. Head(s) = s[1] /\ 1 \in 1..Len(s)
  BY <1>1, <1>2
<1> QED BY <1>2, <1>3, <1>4 DEF s

\* What is left of the items when the first is done.
LEMMA TailDistinct ==
  ASSUME RoundShape, DistinctItems, round.items # <<>>
  PROVE  /\ \A i, j \in DOMAIN Tail(round.items) :
              Tail(round.items)[i].obj = Tail(round.items)[j].obj => i = j
         /\ \A i \in DOMAIN Tail(round.items) :
              Tail(round.items)[i].obj # Head(round.items).obj
<1> DEFINE s == round.items
           t == Tail(s)
<1>1. /\ \A i \in DOMAIN t : i + 1 \in DOMAIN s /\ t[i] = s[i + 1] /\ i \in Nat
      /\ s[1] = Head(s) /\ 1 \in DOMAIN s
  BY TailItems
<1>2. \A i \in DOMAIN t : i \in Nat /\ i >= 1
  BY TailItems
<1>3. \A i, j \in DOMAIN s : s[i].obj = s[j].obj => i = j
  BY DEF DistinctItems
<1> HIDE DEF s, t
<1>4. \A i, j \in DOMAIN t : t[i].obj = t[j].obj => i + 1 = j + 1
  BY <1>1, <1>3
<1>5. \A i \in DOMAIN t : t[i].obj = Head(s).obj => i + 1 = 1
  BY <1>1, <1>3
<1>6. \A i, j \in DOMAIN t : t[i].obj = t[j].obj => i = j
  BY <1>2, <1>4
<1>7. \A i \in DOMAIN t : t[i].obj # Head(s).obj
  BY <1>2, <1>5
<1> QED BY <1>6, <1>7 DEF s, t

\* A listing brings only ModelRoutes the round does not have.
LEMMA ListDistinct ==
  ASSUME ResolverType, DistinctItems, NEW g \in GroupSet, NEW s \in Listings(Unseen(g)),
         NEW u, u = round.items \o ItemsOf(s, g)
  PROVE  \A i, j \in DOMAIN u : u[i].obj = u[j].obj => i = j
<1> DEFINE a == round.items
           b == ItemsOf(s, g)
           m == Len(a)
           n == Len(b)
<1>1. a \in Seq(Items) /\ b \in Seq(Items)
  BY ItemsOfType DEF ResolverType, RoundShape
<1>2. /\ \A i \in DOMAIN b : b[i].obj \in Unseen(g)
      /\ \A i, j \in DOMAIN b : b[i].obj = b[j].obj => i = j
  <2>1. /\ DOMAIN b = DOMAIN s /\ \A i \in DOMAIN s : b[i].obj = s[i]
    BY DEF ItemsOf
  <2>2. s \in Injection(1..Cardinality(Unseen(g)), Unseen(g))
    BY DEF Listings, Bijection
  <2>3. /\ \A i \in DOMAIN s : s[i] \in Unseen(g)
        /\ \A i, j \in DOMAIN s : s[i] = s[j] => i = j
    BY <2>2 DEF Injection, IsInjective
  <2> HIDE DEF b
  <2> QED BY <2>1, <2>3
<1>3. \A x \in Unseen(g) : \A i \in DOMAIN a : a[i].obj # x
  BY DEF Unseen, ToSet
<1>4. \A i, j \in DOMAIN a : a[i].obj = a[j].obj => i = j
  BY DEF DistinctItems
<1> HIDE DEF a, b
<1>5. u = a \o b
  BY DEF a, b
<1>6. /\ DOMAIN a = 1..m /\ DOMAIN b = 1..n /\ m \in Nat /\ n \in Nat
      /\ DOMAIN u = 1..(m + n)
      /\ \A i \in 1..(m + n) : u[i] = IF i <= m THEN a[i] ELSE b[i - m]
  BY <1>1, <1>5
<1> HIDE DEF m, n
<1>7. \A i \in 1..(m + n) : IF i <= m THEN i \in DOMAIN a ELSE i - m \in DOMAIN b
  BY <1>6
<1>8. SUFFICES ASSUME NEW i \in DOMAIN u, NEW j \in DOMAIN u, u[i].obj = u[j].obj
      PROVE  i = j
  OBVIOUS
<1>9. i \in 1..(m + n) /\ j \in 1..(m + n)
  BY <1>6, <1>8
<1>10. CASE i <= m /\ j <= m
  BY <1>4, <1>6, <1>7, <1>8, <1>9, <1>10
<1>11. CASE ~(i <= m) /\ ~(j <= m)
  <2>1. i - m \in DOMAIN b /\ j - m \in DOMAIN b
    BY <1>7, <1>9, <1>11
  <2>2. u[i] = b[i - m] /\ u[j] = b[j - m]
    BY <1>6, <1>9, <1>11
  <2>3. b[i - m].obj = b[j - m].obj
    BY <1>8, <2>2
  <2>4. i - m = j - m
    BY <1>2, <2>1, <2>3
  <2> QED BY <1>6, <1>9, <2>4
<1>12. CASE i <= m /\ ~(j <= m)
  <2>1. i \in DOMAIN a /\ j - m \in DOMAIN b /\ a[i].obj = b[j - m].obj
    BY <1>6, <1>7, <1>8, <1>9, <1>12
  <2> QED BY <1>2, <1>3, <2>1
<1>13. CASE ~(i <= m) /\ j <= m
  <2>1. j \in DOMAIN a /\ i - m \in DOMAIN b /\ a[j].obj = b[i - m].obj
    BY <1>6, <1>7, <1>8, <1>9, <1>13
  <2> QED BY <1>2, <1>3, <2>1
<1> QED BY <1>10, <1>11, <1>12, <1>13

LEMMA SeriesFrame ==
  ASSUME SeriesInv, UNCHANGED <<rpc, round, filled, gauge>>
  PROVE  SeriesInv'
<1>1. ListFresh' /\ DistinctItems' /\ DistinctSeries'
  BY DEF SeriesInv, ListFresh, DistinctItems, DistinctSeries
<1>2. FillSound' /\ Settled'
  BY DEF SeriesInv, FillSound, WroteLast, Settled
<1> QED BY <1>1, <1>2 DEF SeriesInv

\* Away from the refill only the items and the series of the round matter.
LEMMA SeriesOutside ==
  ASSUME SeriesInv, rpc # "fill", rpc' # "fill", UNCHANGED gauge
  PROVE  FillSound' /\ Settled'
BY DEF SeriesInv, FillSound, Settled

LEMMA ListSeries ==
  ASSUME ResolverType, SeriesInv, Begin \/ ListGroup \/ ListFails \/ NothingServed \/ PdRoles
  PROVE  SeriesInv'
<1>0. /\ rpc # "fill" /\ rpc' # "fill" /\ UNCHANGED gauge
  BY DEF Begin, ListGroup, ListFails, NothingServed, PdRoles, InList, Abandon
<1>1. FillSound' /\ Settled'
  BY <1>0, SeriesOutside
<1>2. CASE Begin
  <2>1. round' = NoRound
    BY <1>2 DEF Begin
  <2>2. /\ round'.reps = <<>> /\ round'.items = <<>> /\ round'.targets = <<>>
        /\ round'.byIP = Empty /\ round'.cache = Empty /\ round'.engines = None
    BY <2>1 DEF NoRound
  <2>3. ListFresh' /\ DistinctItems' /\ DistinctSeries'
    BY <2>2 DEF ListFresh, DistinctItems, DistinctSeries
  <2> QED BY <1>1, <2>3 DEF SeriesInv
<1>3. CASE ListGroup
  <2>0. rpc = "list" /\ rpc' = "list" /\ round.reps = <<>>
    BY <1>3 DEF ListGroup, InList, SeriesInv, ListFresh
  <2>1. /\ round'.reps = round.reps /\ round'.targets = round.targets
        /\ round'.byIP = round.byIP /\ round'.cache = round.cache
        /\ round'.engines = round.engines
    BY <1>3 DEF ListGroup, ResolverType, RoundShape
  <2>2. ListFresh' /\ DistinctSeries'
    <3>1. ListFresh'
      BY <2>0, <2>1 DEF SeriesInv, ListFresh
    <3> QED BY <2>0, <2>1, <3>1 DEF DistinctSeries
  <2>3. DistinctItems'
    <3> DEFINE g == Groups[round.gi]
    <3>1. CASE g \in cluster.served
      <4>1. PICK s \in Listings(Unseen(g)) :
              round' = [round EXCEPT !.gi = @ + 1, !.any = TRUE, !.items = @ \o ItemsOf(s, g)]
        BY <1>3, <3>1 DEF ListGroup
      <4>2. g \in GroupSet
        <5>1. round.gi \in 1..(Len(Groups) + 1) /\ round.gi <= Len(Groups)
          BY <1>3 DEF ListGroup, InList, ResolverType, RoundShape
        <5> QED BY <5>1, ResolverAssumption
      <4>3. round'.items = round.items \o ItemsOf(s, g)
        BY <4>1 DEF ResolverType, RoundShape
      <4> HIDE DEF g
      <4>4. DistinctItems
        BY DEF SeriesInv
      <4>5. \A i, j \in DOMAIN round'.items :
              round'.items[i].obj = round'.items[j].obj => i = j
        BY <4>2, <4>3, <4>4, ListDistinct
      <4> QED BY <4>5 DEF DistinctItems
    <3>2. CASE g \notin cluster.served
      <4>1. round'.items = round.items
        BY <1>3, <3>2 DEF ListGroup, ResolverType, RoundShape
      <4> QED BY <4>1 DEF SeriesInv, DistinctItems
    <3> QED BY <3>1, <3>2
  <2> QED BY <1>1, <2>2, <2>3 DEF SeriesInv
<1>4. CASE ListFails \/ NothingServed
  <2>1. rpc' = "idle" /\ UNCHANGED round
    BY <1>4 DEF ListFails, NothingServed, Abandon
  <2>2. ListFresh' /\ DistinctItems' /\ DistinctSeries'
    BY <2>1 DEF SeriesInv, ListFresh, DistinctItems, DistinctSeries
  <2> QED BY <1>1, <2>2 DEF SeriesInv
<1>5. CASE PdRoles
  <2>1. rpc' = "items" /\ round'.items = round.items /\ round'.reps = round.reps
    BY <1>5 DEF PdRoles, ResolverType, RoundShape
  <2>2. ListFresh' /\ DistinctItems' /\ DistinctSeries'
    BY <2>1 DEF SeriesInv, ListFresh, DistinctItems, DistinctSeries
  <2> QED BY <1>1, <2>2 DEF SeriesInv
<1> QED BY <1>2, <1>3, <1>4, <1>5

\* Two series of one ModelRoute differ in their role.
LEMMA NewSeries ==
  ASSUME RoundShape, NEW c, NEW e, NEW desired,
         NEW new, new = RepsOf(c, e, desired)
  PROVE  /\ \A r \in DOMAIN new : Place(new[r].label) = Series(c)
         /\ \A r, s \in DOMAIN new : new[r].label = new[s].label => r = s
<1> DEFINE self(role) == Rep(Target(c), role, Cardinality(DOMAIN e),
                             Cardinality({ip \in DOMAIN e : e[ip]}), desired)
           prefill == Rep(Target(c), "prefill", RoleRep(round.engines).n,
                          RoleRep(round.engines).ready, RoleRep(round.engines).desired)
<1>1. new = <<self("")>> \/ new = <<prefill, self("router")>>
  BY DEF RepsOf
<1>2. /\ \A role : Place(self(role).label) = Series(c) /\ self(role).label[3] = role
      /\ Place(prefill.label) = Series(c) /\ prefill.label[3] = "prefill"
  BY DEF Rep, Place, Series, Target
<1> HIDE DEF self, prefill
<1>3. CASE new = <<self("")>>
  <2>1. DOMAIN new = {1} /\ new[1] = self("")
    <3>1. \A a : DOMAIN <<a>> = 1..1 /\ <<a>>[1] = a
      OBVIOUS
    <3>2. 1..1 = {1}
      OBVIOUS
    <3> QED BY <1>3, <3>1, <3>2
  <2> QED BY <1>2, <2>1
<1>4. CASE new = <<prefill, self("router")>>
  <2>1. DOMAIN new = {1, 2} /\ new[1] = prefill /\ new[2] = self("router")
    <3>1. \A a, b : DOMAIN <<a, b>> = 1..2 /\ <<a, b>>[1] = a /\ <<a, b>>[2] = b
      OBVIOUS
    <3>2. 1..2 = {1, 2}
      OBVIOUS
    <3> QED BY <1>4, <3>1, <3>2
  <2>2. new[1].label # new[2].label
    BY <1>2, <2>1
  <2> QED BY <1>2, <2>1, <2>2
<1> QED BY <1>1, <1>3, <1>4

\* Two ModelRoutes of the round that carry one series share it.
LEMMA ShareSeries ==
  ASSUME NEW a \in Items, NEW b \in Items, a.obj # b.obj, NEW l,
         Series(a.conf) = Place(l), Series(b.conf) = Place(l)
  PROVE  Shared(l)
<1>1. PICK o \in ObjSet : \E v \in DOMAIN Conf[o] : a = [obj |-> o, conf |-> Conf[o][v]]
  BY DEF Items
<1>2. PICK p \in ObjSet : \E v \in DOMAIN Conf[p] : b = [obj |-> p, conf |-> Conf[p][v]]
  BY DEF Items
<1>3. Carries(o, l)
  BY <1>1 DEF Carries, Place
<1>4. Carries(p, l)
  BY <1>2 DEF Carries, Place
<1>5. a.obj = o /\ b.obj = p
  BY <1>1, <1>2
<1> QED BY <1>3, <1>4, <1>5 DEF Shared

LEMMA ItemSeries ==
  ASSUME ResolverType, SeriesInv, ItemPolledOnly \/ ItemEndpoints \/ ItemFails
  PROVE  SeriesInv'
<1>0. /\ rpc = "items" /\ rpc' \in {"items", "walk"} /\ UNCHANGED gauge
      /\ round.items # <<>>
  BY DEF ItemPolledOnly, ItemEndpoints, ItemFails, InItem
<1>1. FillSound' /\ Settled' /\ ListFresh'
  BY <1>0, SeriesOutside DEF ListFresh
<1>2. CASE ItemEndpoints
  <2>1. round'.items = round.items /\ round'.reps = round.reps
    BY <1>2 DEF ItemEndpoints, ResolverType, RoundShape
  <2>2. DistinctItems' /\ DistinctSeries'
    BY <2>1 DEF SeriesInv, DistinctItems, DistinctSeries
  <2> QED BY <1>1, <2>2 DEF SeriesInv
<1>3. CASE ItemPolledOnly \/ ItemFails
  <2>1. round'.items = Tail(round.items) /\ round'.reps = round.reps
    BY <1>3 DEF ItemPolledOnly, ItemFails, ResolverType, RoundShape
  <2>2. DistinctItems'
    BY <1>0, <2>1, TailDistinct DEF SeriesInv, DistinctItems, ResolverType
  <2>3. \A i \in DOMAIN Tail(round.items) :
          i + 1 \in DOMAIN round.items /\ Tail(round.items)[i] = round.items[i + 1]
    BY <1>0, TailItems DEF ResolverType
  <2>4. DistinctSeries'
    <3> DEFINE t == Tail(round.items)
    <3>1. \A i \in DOMAIN t : \E j \in DOMAIN round.items : t[i] = round.items[j]
      BY <2>3
    <3>2. \A i \in DOMAIN round'.items : \E j \in DOMAIN round.items :
            round'.items[i] = round.items[j]
      BY <2>1, <3>1
    <3> QED BY <2>1, <3>2 DEF SeriesInv, DistinctSeries
  <2> QED BY <1>1, <2>2, <2>4 DEF SeriesInv
<1> QED BY <1>2, <1>3

\* The series of a ModelRoute join those of the round.
LEMMA WalkedSeries ==
  ASSUME ResolverType, SeriesInv, rpc = "walk", NEW cache, NEW desired \in Nat \cup {None},
         Walked(cache, desired), UNCHANGED gauge
  PROVE  SeriesInv'
<1> DEFINE new == RepsOf(Item, round.at.ips, desired)
           reps == round.reps
           n == Len(reps)
           t == Tail(round.items)
<1>0. round.items # <<>> /\ ~NoBackend(Item) /\ round.at.ips \in Readiness
  BY DEF ResolverType, WalkShape
<1>1. /\ new \in Seq(Reps) /\ reps \in Seq(Reps) /\ Item \in Confs
      /\ Head(round.items) \in Items /\ t \in Seq(Items) /\ round.items \in Seq(Items)
  BY <1>0, ItemFacts, RepsOfType DEF ResolverType, RoundShape
<1>2. /\ \A r \in DOMAIN new : Place(new[r].label) = Series(Item)
      /\ \A r, s \in DOMAIN new : new[r].label = new[s].label => r = s
  BY NewSeries DEF ResolverType
<1> HIDE DEF new
<1>3. /\ round'.items = t /\ round'.reps = reps \o new /\ rpc' = "items"
  BY DEF Walked, ResolverType, RoundShape, new
<1>4. FillSound' /\ Settled' /\ ListFresh'
  BY <1>3, SeriesOutside DEF ListFresh
<1>5. DistinctItems'
  BY <1>0, <1>3, TailDistinct DEF SeriesInv, DistinctItems, ResolverType
<1>6. /\ \A i \in DOMAIN t : \E j \in DOMAIN round.items : t[i] = round.items[j]
      /\ \A i \in DOMAIN t : t[i].obj # Head(round.items).obj /\ t[i] \in Items
      /\ 1 \in DOMAIN round.items /\ round.items[1] = Head(round.items)
  BY <1>0, <1>1, TailItems, TailDistinct DEF SeriesInv, ResolverType
<1>7. Series(round.items[1].conf) = Series(Item)
  BY <1>6 DEF Item
<1>8. /\ \A r \in DOMAIN reps, i \in DOMAIN round.items :
           Series(round.items[i].conf) = Place(reps[r].label) => Shared(reps[r].label)
      /\ \A r, s \in DOMAIN reps : reps[r].label = reps[s].label /\ r # s => Shared(reps[r].label)
  BY DEF SeriesInv, DistinctSeries
<1> DEFINE all == reps \o new
<1>9. /\ DOMAIN reps = 1..n /\ n \in Nat /\ DOMAIN all \subseteq Nat
      /\ \A r \in DOMAIN all : IF r <= n THEN r \in DOMAIN reps /\ all[r] = reps[r]
                               ELSE r - n \in DOMAIN new /\ all[r] = new[r - n]
  BY <1>1
<1> HIDE DEF all, n, reps, t
<1>10. ASSUME NEW r \in DOMAIN all, NEW i \in DOMAIN t,
              Series(t[i].conf) = Place(all[r].label)
       PROVE  Shared(all[r].label)
  <2>1. CASE r <= n
    BY <1>6, <1>8, <1>9, <1>10, <2>1
  <2>2. CASE ~(r <= n)
    <3>1. all[r] = new[r - n] /\ r - n \in DOMAIN new
      BY <1>9, <2>2
    <3>2. Place(all[r].label) = Series(Item)
      BY <1>2, <3>1
    <3>3. Series(Head(round.items).conf) = Place(all[r].label)
      BY <3>2 DEF Item
    <3> QED BY <1>1, <1>6, <1>10, <3>3, ShareSeries
  <2> QED BY <2>1, <2>2
<1>11. ASSUME NEW r \in DOMAIN all, NEW s \in DOMAIN all, all[r].label = all[s].label,
              r # s, r <= n
       PROVE  Shared(all[r].label)
  <2>1. CASE s <= n
    BY <1>8, <1>9, <1>11, <2>1
  <2>2. CASE ~(s <= n)
    <3>1. /\ all[s] = new[s - n] /\ s - n \in DOMAIN new
          /\ all[r] = reps[r] /\ r \in DOMAIN reps
      BY <1>9, <1>11, <2>2
    <3>2. Place(reps[r].label) = Series(round.items[1].conf)
      BY <1>2, <1>7, <1>11, <3>1
    <3> QED BY <1>6, <1>8, <3>1, <3>2
  <2> QED BY <2>1, <2>2
<1>12. ASSUME NEW r \in DOMAIN all, NEW s \in DOMAIN all, all[r].label = all[s].label, r # s
       PROVE  Shared(all[r].label)
  <2>1. CASE r <= n \/ s <= n
    BY <1>11, <1>12, <2>1
  <2>2. CASE ~(r <= n) /\ ~(s <= n)
    <3>1. /\ r - n \in DOMAIN new /\ s - n \in DOMAIN new /\ r \in Nat /\ s \in Nat
          /\ new[r - n].label = new[s - n].label
      BY <1>9, <1>12, <2>2
    <3>2. r - n = s - n
      BY <1>2, <3>1
    <3> QED BY <1>9, <1>12, <3>1, <3>2
  <2> QED BY <2>1, <2>2
<1>13. round'.items = t /\ round'.reps = all
  BY <1>3 DEF t, reps, all
<1>14. DistinctSeries'
  BY <1>10, <1>12, <1>13 DEF DistinctSeries
<1> QED BY <1>4, <1>5, <1>14 DEF SeriesInv

LEMMA WalkSeries ==
  ASSUME ResolverType, SeriesInv, WalkUp \/ WalkFails \/ WalkEnds
  PROVE  SeriesInv'
<1>0. rpc = "walk" /\ UNCHANGED gauge
  BY DEF WalkUp, WalkFails, WalkEnds, InWalk
<1>1. CASE WalkFails \/ WalkEnds
  <2>1. Walked(round.cache, None)
    BY <1>1 DEF WalkFails, WalkEnds
  <2> QED BY <1>0, <2>1, WalkedSeries
<1>2. CASE WalkUp
  <2> DEFINE w == round.at.obj
             cache == Over(round.cache, [x \in {w} |-> cluster.spec[w]])
  <2>1. CASE AtTop(w)
    <3>1. Walked(cache, cache[w])
      BY <1>2, <2>1 DEF WalkUp
    <3>2. cache[w] \in Nat \cup {None}
      <4>1. w \in Workloads
        BY <1>0, <1>2 DEF WalkUp, InWalk, ResolverType, WalkShape
      <4>2. cluster.spec[w] \in Nat \cup {None}
        BY <4>1 DEF ResolverType, ClusterOK
      <4>3. \A x \in DOMAIN round.cache : round.cache[x] \in Nat \cup {None}
        BY DEF ResolverType, RoundShape
      <4>4. cache[w] = IF w \in DOMAIN round.cache THEN round.cache[w] ELSE cluster.spec[w]
        BY DEF Over
      <4> QED BY <4>2, <4>3, <4>4
    <3> HIDE DEF cache
    <3> QED BY <1>0, <3>1, <3>2, WalkedSeries
  <2>2. CASE ~AtTop(w)
    <3>1. round' = [round EXCEPT !.at.obj = Owner[w], !.cache = cache, !.depth = @ + 1]
          /\ rpc' = rpc
      BY <1>2, <2>2 DEF WalkUp, Deeper
    <3> HIDE DEF cache
    <3>2. round'.items = round.items /\ round'.reps = round.reps
      BY <3>1 DEF ResolverType, RoundShape
    <3>3. DistinctItems' /\ DistinctSeries'
      BY <3>2 DEF SeriesInv, DistinctItems, DistinctSeries
    <3>4. FillSound' /\ Settled' /\ ListFresh'
      BY <1>0, <3>1, SeriesOutside DEF ListFresh
    <3> QED BY <3>3, <3>4 DEF SeriesInv
  <2> QED BY <2>1, <2>2
<1> QED BY <1>1, <1>2

LEMMA WrittenFacts ==
  ASSUME NEW g, DOMAIN g = {"total", "ready", "desired"}, NEW reps, NEW k,
         NEW w \in 1..3, w = ((k - 1) % 3) + 1
  PROVE  /\ k > 3 => Written(g, reps, k)[Vecs[w]] =
                       Over(Shown(Vecs[w], reps[(k - 1) \div 3]), g[Vecs[w]])
         /\ ~(k > 3) => Written(g, reps, k)[Vecs[w]] = Empty
         /\ \A v \in 1..3 : v # w => Written(g, reps, k)[Vecs[v]] = g[Vecs[v]]
<1>1. \A v \in 1..3 : Vecs[v] \in DOMAIN g /\ (v # w => Vecs[v] # Vecs[w])
  BY DEF Vecs
<1> HIDE DEF Vecs
<1> QED BY <1>1 DEF Written

LEMMA FillOneSeries ==
  ASSUME ResolverType, SeriesInv, Fill
  PROVE  FillSound'
<1> DEFINE reps == round.reps
           n == Len(reps)
           k == filled + 1
<1>1. /\ rpc = "fill" /\ filled < 3 * (n + 1) /\ filled \in Nat /\ filled' = k
      /\ gauge' = Written(gauge, reps, k) /\ rpc' = rpc /\ round' = round
      /\ n \in Nat /\ reps \in Seq(Reps) /\ DOMAIN reps = 1..n
      /\ DOMAIN gauge = {"total", "ready", "desired"}
  BY DEF Fill, Writes, ResolverType, RoundShape
<1>2. k \in 1..(3 * (n + 1))
  BY <1>1
<1> HIDE DEF n, k
<1>3a. PICK q \in {(k - 1) \div 3} : TRUE
  OBVIOUS
<1>3b. PICK w \in {((k - 1) % 3) + 1} : TRUE
  OBVIOUS
<1>3. /\ q \in Nat /\ w \in 1..3 /\ k = 3 * q + w
      /\ k > 3 => q \in 1..n
      /\ k <= 3 => q = 0
  <2>1. w = ((k - 1) % 3) + 1 /\ q = (k - 1) \div 3
    BY <1>3a, <1>3b
  <2>2. k \in Nat /\ k >= 1 /\ k <= 3 * (n + 1)
    BY <1>1, <1>2
  <2>3. \A m \in Nat : m = 3 * (m \div 3) + (m % 3) /\ m % 3 \in 0..2 /\ m \div 3 \in Nat
    OBVIOUS
  <2>4. k - 1 \in Nat
    BY <2>2
  <2>5. k - 1 = 3 * q + (w - 1) /\ w - 1 \in 0..2 /\ q \in Nat /\ w \in Int
    BY <2>1, <2>3, <2>4
  <2> QED BY <1>1, <2>2, <2>5
<1>4. /\ k > 3 => gauge'[Vecs[w]] = Over(Shown(Vecs[w], reps[q]), gauge[Vecs[w]])
      /\ ~(k > 3) => gauge'[Vecs[w]] = Empty
      /\ \A v \in 1..3 : v # w => gauge'[Vecs[v]] = gauge[Vecs[v]]
  <2> HIDE DEF reps
  <2>1. w = ((k - 1) % 3) + 1 /\ q = (k - 1) \div 3
    BY <1>3a, <1>3b
  <2>2. /\ k > 3 => Written(gauge, reps, k)[Vecs[w]] =
                      Over(Shown(Vecs[w], reps[(k - 1) \div 3]), gauge[Vecs[w]])
        /\ ~(k > 3) => Written(gauge, reps, k)[Vecs[w]] = Empty
        /\ \A v \in 1..3 : v # w => Written(gauge, reps, k)[Vecs[v]] = gauge[Vecs[v]]
    BY <1>1, <1>3, <2>1, WrittenFacts
  <2> QED BY <1>1, <2>1, <2>2
<1>5. SUFFICES ASSUME NEW v \in 1..3, k >= v, NEW l \in DOMAIN gauge'[Vecs[v]]
      PROVE  \E r \in DOMAIN reps : WroteLast(r, l, v)'
  BY <1>1 DEF FillSound
<1>6. ASSUME \E r \in DOMAIN reps : WroteLast(r, l, v),
             gauge'[Vecs[v]][l] = gauge[Vecs[v]][l],
             v # w \/ reps[q].label # l \/ reps[q][Vecs[v]] = None
      PROVE  \E r \in DOMAIN reps : WroteLast(r, l, v)'
  <2>0. PICK r \in DOMAIN reps : WroteLast(r, l, v)
    BY <1>6
  <2>1. \A s \in DOMAIN reps : 3 * s + v <= k => 3 * s + v <= filled \/ (s = q /\ v = w)
    <3>1. SUFFICES ASSUME NEW s \in DOMAIN reps, 3 * s + v <= k, ~(3 * s + v <= filled)
          PROVE  s = q /\ v = w
      OBVIOUS
    <3>2. s \in Nat /\ k = filled + 1
      BY <1>1 DEF k
    <3>3. 3 * s + v = 3 * q + w
      BY <1>1, <1>3, <3>1, <3>2
    <3> QED BY <1>3, <3>2, <3>3
  <2>2. 3 * r + v <= k
    <3>1. 3 * r + v <= filled /\ r \in Nat
      BY <1>1, <2>0 DEF WroteLast
    <3> QED BY <1>1, <3>1 DEF k
  <2> HIDE DEF Vecs
  <2>3. WroteLast(r, l, v)'
    BY <1>1, <1>6, <2>0, <2>1, <2>2 DEF WroteLast
  <2> QED BY <2>3
<1>7. CASE v # w
  <2>1. filled >= v
    <3>1. k # v \/ v = w
      BY <1>3
    <3> QED BY <1>1, <1>5, <1>7, <3>1 DEF k
  <2>2. gauge'[Vecs[v]] = gauge[Vecs[v]]
    BY <1>4, <1>7
  <2>3. \E r \in DOMAIN reps : WroteLast(r, l, v)
    BY <1>1, <1>5, <2>1, <2>2 DEF SeriesInv, FillSound
  <2> QED BY <1>6, <1>7, <2>2, <2>3
<1>8. CASE v = w /\ k <= 3
  <2>1. ~(k > 3)
    BY <1>2, <1>8, <1>1
  <2> QED BY <1>4, <1>5, <1>8, <2>1 DEF Empty
<1>9. CASE v = w /\ ~(k <= 3)
  <2>0. k > 3 /\ q \in DOMAIN reps
    BY <1>1, <1>2, <1>3, <1>9
  <2>1. gauge'[Vecs[v]] = Over(Shown(Vecs[v], reps[q]), gauge[Vecs[v]])
    BY <1>4, <1>9, <2>0
  <2> DEFINE new == Shown(Vecs[v], reps[q])
  <2>2. \/ new = Empty /\ reps[q][Vecs[v]] = None
        \/ /\ reps[q][Vecs[v]] # None
           /\ new = [x \in {reps[q].label} |-> reps[q][Vecs[v]]]
    BY DEF Shown
  <2> HIDE DEF new
  <2>3. /\ l \in DOMAIN new \/ l \in DOMAIN gauge[Vecs[v]]
        /\ gauge'[Vecs[v]][l] = IF l \in DOMAIN new THEN new[l] ELSE gauge[Vecs[v]][l]
    BY <1>5, <2>1 DEF Over, new
  <2>4. CASE l \in DOMAIN new
    <3>1. /\ reps[q].label = l /\ reps[q][Vecs[v]] # None
          /\ gauge'[Vecs[v]][l] = reps[q][Vecs[v]]
      BY <2>2, <2>3, <2>4 DEF Empty
    <3>2. \A s \in DOMAIN reps : s > q => ~(3 * s + v <= k)
      BY <1>1, <1>3, <1>9
    <3>3. 3 * q + v <= k
      BY <1>3, <1>9
    <3> HIDE DEF Vecs
    <3>4. WroteLast(q, l, v)'
      BY <1>1, <3>1, <3>2, <3>3 DEF WroteLast
    <3> QED BY <2>0, <3>4
  <2>5. CASE l \notin DOMAIN new
    <3>1. filled >= v
      BY <1>1, <2>0 DEF k
    <3>2. \E r \in DOMAIN reps : WroteLast(r, l, v)
      BY <1>1, <2>3, <2>5, <3>1 DEF SeriesInv, FillSound
    <3>3. gauge'[Vecs[v]][l] = gauge[Vecs[v]][l]
      BY <2>3, <2>5
    <3>4. reps[q].label # l \/ reps[q][Vecs[v]] = None
      BY <2>2, <2>5
    <3> QED BY <1>6, <3>2, <3>3, <3>4
  <2> QED BY <2>4, <2>5
<1> QED BY <1>7, <1>8, <1>9

\* The last series with a label wrote both its counts: total and ready agree.
LEMMA FinishSettles ==
  ASSUME ResolverType, SeriesInv, Finish
  PROVE  Settled'
<1> DEFINE reps == round.reps
           n == Len(reps)
<1>1. /\ rpc = "fill" /\ filled = 3 * (n + 1) /\ UNCHANGED gauge
      /\ reps \in Seq(Reps) /\ DOMAIN reps = 1..n /\ n \in Nat
  BY DEF Finish, Writes, ResolverType, RoundShape
<1>2. Vecs[1] = "total" /\ Vecs[2] = "ready" /\ 1 \in 1..3 /\ 2 \in 1..3
  BY DEF Vecs
<1>3. \A r \in DOMAIN reps : /\ reps[r].total \in Nat /\ reps[r].ready \in Nat
                            /\ reps[r].ready <= reps[r].total
  BY <1>1 DEF Reps
<1> HIDE DEF n
<1>4. SUFFICES ASSUME NEW l \in DOMAIN gauge.ready \cap DOMAIN gauge.total
      PROVE  gauge.ready[l] <= gauge.total[l]
  BY <1>1 DEF Settled
<1>5. filled >= 1 /\ filled >= 2
  BY <1>1
<1>6. PICK r \in DOMAIN reps : WroteLast(r, l, 1)
  BY <1>1, <1>2, <1>4, <1>5 DEF SeriesInv, FillSound
<1>7. PICK s \in DOMAIN reps : WroteLast(s, l, 2)
  BY <1>1, <1>2, <1>4, <1>5 DEF SeriesInv, FillSound
<1>8. \A x \in DOMAIN reps : 3 * x + 1 <= filled /\ 3 * x + 2 <= filled /\ x \in Nat
  BY <1>1
<1>9. /\ reps[r].label = l /\ gauge.total[l] = reps[r].total
      /\ \A x \in DOMAIN reps : x > r => reps[x].label # l \/ reps[x].total = None
  BY <1>2, <1>6, <1>8 DEF WroteLast
<1>10. /\ reps[s].label = l /\ gauge.ready[l] = reps[s].ready
       /\ \A x \in DOMAIN reps : x > s => reps[x].label # l \/ reps[x].ready = None
  BY <1>2, <1>7, <1>8 DEF WroteLast
<1>11. None \notin Nat
  BY ClusterAssumption
<1> HIDE DEF reps
<1>12. ~(s > r) /\ ~(r > s)
  BY <1>3, <1>9, <1>10, <1>11
<1>13. r = s
  BY <1>8, <1>12
<1> QED BY <1>3, <1>9, <1>10, <1>13

LEMMA FillSeries ==
  ASSUME ResolverType, SeriesInv, Install \/ Fill \/ Finish
  PROVE  SeriesInv'
<1>1. CASE Install
  <2>1. /\ rpc = "items" /\ rpc' = "fill" /\ UNCHANGED <<round, gauge>> /\ filled' = 0
    BY <1>1 DEF Install
  <2>2. ListFresh' /\ DistinctItems' /\ DistinctSeries' /\ Settled'
    BY <2>1 DEF SeriesInv, ListFresh, DistinctItems, DistinctSeries, Settled
  <2>3. FillSound'
    <3>1. \A v \in 1..3 : ~(0 >= v)
      OBVIOUS
    <3> QED BY <2>1, <3>1 DEF FillSound
  <2> QED BY <2>2, <2>3 DEF SeriesInv
<1>2. CASE Fill
  <2>1. /\ rpc' = "fill" /\ UNCHANGED round /\ filled' # 0
    BY <1>2 DEF Fill, ResolverType
  <2>2. ListFresh' /\ DistinctItems' /\ DistinctSeries' /\ Settled'
    BY <2>1 DEF SeriesInv, ListFresh, DistinctItems, DistinctSeries, Settled
  <2> QED BY <1>2, <2>2, FillOneSeries DEF SeriesInv
<1>3. CASE Finish
  <2>1. rpc' = "idle" /\ round' = NoRound
    BY <1>3 DEF Finish
  <2>2. round'.items = <<>> /\ round'.reps = <<>>
    BY <2>1 DEF NoRound
  <2>3. ListFresh' /\ DistinctItems' /\ DistinctSeries' /\ FillSound'
    BY <2>1, <2>2 DEF ListFresh, DistinctItems, DistinctSeries, FillSound
  <2> QED BY <1>3, <2>3, FinishSettles DEF SeriesInv
<1> QED BY <1>1, <1>2, <1>3

LEMMA SeriesStep == ASSUME Types, SeriesInv, [Next]_vars PROVE SeriesInv'
<1>1. CASE ResolverStep
  BY <1>1, ListSeries, ItemSeries, WalkSeries, FillSeries DEF Types, ResolverStep
<1>2. CASE ClusterChange
  <2>1. UNCHANGED <<rpc, round, filled, gauge>>
    BY <1>2, OneChange DEF Change
  <2> QED BY <2>1, SeriesFrame
<1>3. CASE UNCHANGED unspent
  BY <1>3, SeriesFrame DEF unspent
<1> QED BY <1>1, <1>2, <1>3, Frames

LEMMA SeriesInit == Init => SeriesInv
<1> SUFFICES ASSUME Init PROVE SeriesInv
  OBVIOUS
<1>1. /\ rpc = "idle" /\ round.items = <<>> /\ round.reps = <<>>
      /\ DOMAIN gauge.total = {}
  BY DEF Init, ResolverInit, NoRound, Empty
<1> QED BY <1>1 DEF SeriesInv, ListFresh, DistinctItems, DistinctSeries, FillSound, Settled

\* Until the total and the ready counts are rewritten one by one, all is as the
\* last round left it; then an entry of either is of the only series that has
\* its label.
LEMMA SeriesComparable == ASSUME Types, SeriesInv PROVE ComparableSeries
<1> DEFINE reps == round.reps
<1>1. SUFFICES ASSUME NEW l \in DOMAIN gauge.ready \cap DOMAIN gauge.total,
                      rpc = "fill", ~Shared(l), filled # 0
      PROVE  gauge.ready[l] <= gauge.total[l]
  BY DEF SeriesInv, Settled, ComparableSeries
<1>2. Vecs[1] = "total" /\ Vecs[2] = "ready" /\ 1 \in 1..3 /\ 2 \in 1..3
  BY DEF Vecs
<1>3. filled \in Nat /\ filled >= 1
  BY <1>1 DEF Types, ResolverType, RoundShape, Writes
<1>4. reps \in Seq(Reps)
  BY DEF Types, ResolverType, RoundShape
<1>5. PICK r \in DOMAIN reps : WroteLast(r, l, 1)
  BY <1>1, <1>2, <1>3 DEF SeriesInv, FillSound
<1>6. reps[r].label = l /\ gauge.total[l] = reps[r].total /\ 3 * r + 1 <= filled
  BY <1>2, <1>5 DEF WroteLast
<1>7. filled >= 2
  <2>1. r \in Nat /\ r >= 1
    BY <1>4
  <2> QED BY <1>3, <1>6, <2>1
<1>8. PICK s \in DOMAIN reps : WroteLast(s, l, 2)
  BY <1>1, <1>2, <1>7 DEF SeriesInv, FillSound
<1>9. reps[s].label = l /\ gauge.ready[l] = reps[s].ready
  BY <1>2, <1>8 DEF WroteLast
<1>10. r = s
  BY <1>1, <1>6, <1>9 DEF SeriesInv, DistinctSeries
<1>11. reps[r] \in Reps
  BY <1>4
<1>12. reps[r].ready <= reps[r].total
  BY <1>11 DEF Reps
<1> QED BY <1>6, <1>9, <1>10, <1>12

\* No series shows more ready backends than backends, not even while the gauges
\* are being rewritten, unless two ModelRoutes share it (refresh, 220-230).
THEOREM SeriesCompare == Spec => []ComparableSeries
<1>1. Spec => []SeriesInv
  BY SeriesInit, SeriesStep, TypesHold, PTL DEF Spec
<1>2. Types /\ SeriesInv => ComparableSeries
  BY SeriesComparable
<1> QED BY <1>1, <1>2, TypesHold, PTL

-----------------------------------------------------------------------------
(***************************************************************************)
(* The desired counts.  Whatever a round has read, of a workload or of the *)
(* engines, is a count that was committed to since it began, because held  *)
(* collects them all; a walk stays above the pod of its Service, so where  *)
(* it ends is the top of that chain and not of another; and a refill       *)
(* leaves only counts of the round it belongs to.                          *)
(***************************************************************************)
HeldNow ==
  rpc # "idle" \/ up => \A w \in DOMAIN held : CommittedTo(cluster, w) \in held[w]

\* The count is one of the engines', or of the top above a Service shown so.
CommittedIn(l, d) ==
  IF l[3] = "prefill" THEN d \in held[Disaggregated]
  ELSE \E s \in Services : Stripped[s] = l[1] /\ TopOf[s] \in Workloads /\ d \in held[TopOf[s]]

RoundHeld ==
  /\ \A w \in DOMAIN round.cache : round.cache[w] \in held[w]
  /\ round.engines # None => RoleRep(round.engines).desired \in held[Disaggregated]
  /\ \A r \in DOMAIN round.reps :
       round.reps[r].desired # None => CommittedIn(round.reps[r].label, round.reps[r].desired)

\* The workload is in every set that holds the pod of s and the owners of its members.
Chained(s, w) ==
  \A C \in SUBSET Workloads :
     PodOf[s] \in C /\ (\A x \in C : Owner[x] # None => Owner[x] \in C) => w \in C

InChain == rpc = "walk" /\ round.at.obj # None => Chained(Item.service, round.at.obj)

GaugeHeld ==
  rpc = "idle" /\ up => \A l \in DOMAIN gauge.desired : CommittedIn(l, gauge.desired[l])

HeldInv == HeldNow /\ RoundHeld /\ InChain /\ GaugeHeld

\* A count that was committed to stays one.
LEMMA CommittedStays ==
  ASSUME DOMAIN held = Workloads \cup {Disaggregated},
         \A w \in DOMAIN held : held[w] \subseteq held'[w],
         NEW l, NEW d, CommittedIn(l, d)
  PROVE  CommittedIn(l, d)'
BY DEF CommittedIn

LEMMA HeldChange ==
  ASSUME ResolverType, HeldInv, NEW c, NEW what, Change(c, what)
  PROVE  HeldInv'
<1>1. /\ UNCHANGED <<rpc, round, gauge, up>> /\ cluster' = c
      /\ held' = [w \in DOMAIN held |-> held[w] \cup {CommittedTo(c, w)}]
      /\ DOMAIN held = Workloads \cup {Disaggregated}
  BY DEF Change, ResolverType
<1>2. /\ DOMAIN held' = DOMAIN held
      /\ \A w \in DOMAIN held : held[w] \subseteq held'[w] /\ CommittedTo(c, w) \in held'[w]
  BY <1>1
<1>3. HeldNow'
  <2>1. \A w \in DOMAIN held' : CommittedTo(cluster', w) \in held'[w]
    BY <1>1, <1>2
  <2> QED BY <2>1 DEF HeldNow, CommittedTo
<1>4. RoundHeld'
  <2>1. DOMAIN round.cache \subseteq DOMAIN held
    BY <1>1 DEF ResolverType, RoundShape
  <2>2. \A w \in DOMAIN round.cache : round.cache[w] \in held'[w]
    BY <1>2, <2>1 DEF HeldInv, RoundHeld
  <2>3. round.engines # None => RoleRep(round.engines).desired \in held'[Disaggregated]
    BY <1>1, <1>2 DEF HeldInv, RoundHeld
  <2>4. \A r \in DOMAIN round.reps : round.reps[r].desired # None =>
          CommittedIn(round.reps[r].label, round.reps[r].desired)'
    <3>1. SUFFICES ASSUME NEW r \in DOMAIN round.reps, round.reps[r].desired # None
          PROVE  CommittedIn(round.reps[r].label, round.reps[r].desired)'
      OBVIOUS
    <3>2. CommittedIn(round.reps[r].label, round.reps[r].desired)
      BY <3>1 DEF HeldInv, RoundHeld
    <3> QED BY <1>1, <1>2, <3>2 DEF CommittedIn
  <2> QED BY <1>1, <2>2, <2>3, <2>4 DEF RoundHeld, CommittedIn
<1>5. InChain'
  BY <1>1 DEF HeldInv, InChain, Item
<1>6. GaugeHeld'
  <2>1. SUFFICES ASSUME rpc = "idle", up, NEW l \in DOMAIN gauge.desired
        PROVE  CommittedIn(l, gauge.desired[l])'
    BY <1>1 DEF GaugeHeld
  <2>2. CommittedIn(l, gauge.desired[l])
    BY <2>1 DEF HeldInv, GaugeHeld
  <2> QED BY <1>1, <1>2, <2>2 DEF CommittedIn
<1> QED BY <1>3, <1>4, <1>5, <1>6 DEF HeldInv

LEMMA HeldFrame ==
  ASSUME HeldInv, UNCHANGED <<cluster, rpc, round, gauge, up, held>>
  PROVE  HeldInv'
<1>1. HeldNow'
  BY DEF HeldInv, HeldNow, CommittedTo
<1>2. RoundHeld'
  BY DEF HeldInv, RoundHeld, CommittedIn
<1>3. InChain'
  BY DEF HeldInv, InChain, Item
<1>4. GaugeHeld'
  BY DEF HeldInv, GaugeHeld, CommittedIn
<1> QED BY <1>1, <1>2, <1>3, <1>4 DEF HeldInv

\* A step in the middle of a round leaves both the cluster and the counts alone.
LEMMA HeldInside ==
  ASSUME HeldInv, rpc # "idle", UNCHANGED <<cluster, held>>
  PROVE  HeldNow'
BY DEF HeldInv, HeldNow, CommittedTo

LEMMA RoundKeeps ==
  ASSUME HeldInv, UNCHANGED held,
         round'.cache = round.cache, round'.engines = round.engines, round'.reps = round.reps
  PROVE  RoundHeld'
BY DEF HeldInv, RoundHeld, CommittedIn

LEMMA ListHeld ==
  ASSUME ResolverType, HeldInv, Begin \/ ListGroup \/ ListFails \/ NothingServed \/ PdRoles
  PROVE  HeldInv'
<1>1. CASE Begin
  <2>1. /\ rpc' = "list" /\ round' = NoRound /\ UNCHANGED cluster
        /\ held' = [w \in DOMAIN held |-> {CommittedTo(cluster, w)}]
    BY <1>1 DEF Begin
  <2>2. HeldNow'
    <3>1. \A w \in DOMAIN held' : CommittedTo(cluster, w) \in held'[w]
      BY <2>1
    <3> QED BY <2>1, <3>1 DEF HeldNow, CommittedTo
  <2>3. DOMAIN round'.cache = {} /\ round'.engines = None /\ round'.reps = <<>>
    BY <2>1 DEF NoRound, Empty
  <2>4. RoundHeld' /\ InChain' /\ GaugeHeld'
    BY <2>1, <2>3 DEF RoundHeld, InChain, GaugeHeld
  <2> QED BY <2>2, <2>4 DEF HeldInv
<1>2. CASE ListGroup
  <2>1. rpc = "list" /\ rpc' = "list" /\ UNCHANGED <<cluster, held>>
    BY <1>2 DEF ListGroup, InList
  <2>2. /\ round'.cache = round.cache /\ round'.engines = round.engines
        /\ round'.reps = round.reps
    BY <1>2 DEF ListGroup, ResolverType, RoundShape
  <2>3. HeldNow' /\ RoundHeld'
    BY <2>1, <2>2, HeldInside, RoundKeeps
  <2> QED BY <2>1, <2>3 DEF HeldInv, InChain, GaugeHeld
<1>3. CASE ListFails \/ NothingServed
  <2>1. rpc = "list" /\ rpc' = "idle" /\ ~up' /\ UNCHANGED <<cluster, held, round>>
    BY <1>3 DEF ListFails, NothingServed, InList, Abandon
  <2>2. HeldNow' /\ RoundHeld'
    BY <2>1, HeldInside, RoundKeeps
  <2> QED BY <2>1, <2>2 DEF HeldInv, InChain, GaugeHeld
<1>4. CASE PdRoles
  <2>1. rpc = "list" /\ rpc' = "items" /\ UNCHANGED <<cluster, held>>
    BY <1>4 DEF PdRoles
  <2>2. /\ round'.cache = round.cache /\ round'.reps = round.reps
        /\ round'.engines = round.engines \/ round'.engines = cluster.slices
    BY <1>4 DEF PdRoles, ResolverType, RoundShape
  <2>3. RoleRep(cluster.slices).desired \in held[Disaggregated]
    <3>1. Disaggregated \in DOMAIN held
      BY DEF ResolverType
    <3>2. CommittedTo(cluster, Disaggregated) \in held[Disaggregated]
      BY <2>1, <3>1 DEF HeldInv, HeldNow
    <3> QED BY <3>2 DEF CommittedTo
  <2>4. round'.engines # None => RoleRep(round'.engines).desired \in held[Disaggregated]
    BY <2>2, <2>3 DEF HeldInv, RoundHeld
  <2>5. RoundHeld'
    BY <2>1, <2>2, <2>4 DEF HeldInv, RoundHeld, CommittedIn
  <2> QED BY <2>1, <2>5, HeldInside DEF HeldInv, InChain, GaugeHeld
<1> QED BY <1>1, <1>2, <1>3, <1>4

LEMMA ItemHeld ==
  ASSUME ResolverType, HeldInv, ItemPolledOnly \/ ItemEndpoints \/ ItemFails
  PROVE  HeldInv'
<1>1. rpc = "items" /\ rpc' # "idle" /\ UNCHANGED <<cluster, held>>
  BY DEF ItemPolledOnly, ItemEndpoints, ItemFails, InItem
<1>2. /\ round'.cache = round.cache /\ round'.engines = round.engines
      /\ round'.reps = round.reps
  BY DEF ItemPolledOnly, ItemEndpoints, ItemFails, ResolverType, RoundShape
<1>3. HeldNow' /\ RoundHeld' /\ GaugeHeld'
  BY <1>1, <1>2, HeldInside, RoundKeeps DEF GaugeHeld
<1>4. InChain'
  <2>1. CASE ItemPolledOnly \/ ItemFails
    <3>1. rpc' = "items"
      BY <2>1, <1>1 DEF ItemPolledOnly, ItemFails
    <3> QED BY <3>1 DEF InChain
  <2>2. CASE ItemEndpoints
    <3>1. /\ round'.items = round.items
          /\ round'.at.obj = None \/ round'.at.obj = PodOf[Item.service]
      BY <2>2 DEF ItemEndpoints, ResolverType, RoundShape
    <3>2. Item' = Item
      BY <3>1 DEF Item
    <3> QED BY <3>1, <3>2 DEF InChain, Chained
  <2> QED BY <2>1, <2>2
<1> QED BY <1>3, <1>4 DEF HeldInv

\* The series of a ModelRoute show counts that were committed to, if the count
\* the walk ended with was.
LEMMA NewHeld ==
  ASSUME HeldInv, NEW c, ~NoBackend(c), c.service \in Services, NEW e, NEW desired,
         desired # None => /\ TopOf[c.service] \in Workloads
                           /\ desired \in held[TopOf[c.service]],
         NEW new, new = RepsOf(c, e, desired)
  PROVE  \A r \in DOMAIN new : new[r].desired # None => CommittedIn(new[r].label, new[r].desired)
<1> DEFINE self(role) == Rep(Target(c), role, Cardinality(DOMAIN e),
                             Cardinality({ip \in DOMAIN e : e[ip]}), desired)
           prefill == Rep(Target(c), "prefill", RoleRep(round.engines).n,
                          RoleRep(round.engines).ready, RoleRep(round.engines).desired)
<1>1. \/ new = <<self("")>>
      \/ round.engines # None /\ new = <<prefill, self("router")>>
  BY DEF RepsOf
<1>2. /\ \A role : /\ self(role).label[1] = Stripped[c.service]
                   /\ self(role).label[3] = role /\ self(role).desired = desired
      /\ prefill.label[3] = "prefill" /\ prefill.desired = RoleRep(round.engines).desired
  BY DEF Rep, Target, NormalizeServiceLabel, NoBackend
<1> HIDE DEF self, prefill
<1>3. \A role \in {"", "router"} :
        self(role).desired # None => CommittedIn(self(role).label, self(role).desired)
  BY <1>2 DEF CommittedIn
<1>4. round.engines # None => CommittedIn(prefill.label, prefill.desired)
  BY <1>2 DEF CommittedIn, HeldInv, RoundHeld
<1>5. CASE new = <<self("")>>
  <2>1. \A r \in DOMAIN new : new[r] = self("")
    <3>1. \A a : \A r \in DOMAIN <<a>> : <<a>>[r] = a
      OBVIOUS
    <3> QED BY <1>5, <3>1
  <2> QED BY <1>3, <2>1
<1>6. CASE round.engines # None /\ new = <<prefill, self("router")>>
  <2>1. \A r \in DOMAIN new : new[r] = prefill \/ new[r] = self("router")
    BY <1>6
  <2> QED BY <1>3, <1>4, <1>6, <2>1
<1> QED BY <1>1, <1>5, <1>6

LEMMA WalkedHeld ==
  ASSUME ResolverType, HeldInv, rpc = "walk", NEW cache, NEW desired \in Nat \cup {None},
         \A w \in DOMAIN cache : cache[w] \in held[w],
         desired # None => /\ TopOf[Item.service] \in Workloads
                           /\ desired \in held[TopOf[Item.service]],
         Walked(cache, desired), UNCHANGED <<cluster, held, gauge>>
  PROVE  HeldInv'
<1> DEFINE new == RepsOf(Item, round.at.ips, desired)
           reps == round.reps
           all == reps \o new
           n == Len(reps)
<1>0. /\ round.items # <<>> /\ ~NoBackend(Item) /\ round.at.ips \in Readiness
      /\ Item \in Confs
  BY ItemFacts DEF ResolverType, WalkShape
<1>1. new \in Seq(Reps) /\ reps \in Seq(Reps) /\ Item.service \in Services
  BY <1>0, RepsOfType, ConfFacts DEF ResolverType, RoundShape, NoBackend
<1>2. \A r \in DOMAIN new : new[r].desired # None => CommittedIn(new[r].label, new[r].desired)
  BY <1>0, <1>1, NewHeld
<1> HIDE DEF new
<1>3. /\ round'.reps = all /\ round'.cache = cache /\ round'.engines = round.engines
      /\ rpc' = "items"
  BY DEF Walked, ResolverType, RoundShape, new
<1>4. \A r \in DOMAIN reps :
        reps[r].desired # None => CommittedIn(reps[r].label, reps[r].desired)
  BY DEF HeldInv, RoundHeld
<1>5. \A r \in DOMAIN all : \/ \E s \in DOMAIN reps : all[r] = reps[s]
                            \/ \E s \in DOMAIN new : all[r] = new[s]
  <2>1. /\ DOMAIN reps = 1..n /\ n \in Nat /\ DOMAIN all \subseteq Nat
        /\ \A r \in DOMAIN all : IF r <= n THEN r \in DOMAIN reps /\ all[r] = reps[r]
                                 ELSE r - n \in DOMAIN new /\ all[r] = new[r - n]
    BY <1>1
  <2> HIDE DEF all, reps, n
  <2> QED BY <2>1
<1> HIDE DEF all, reps
<1>6. \A r \in DOMAIN all : all[r].desired # None => CommittedIn(all[r].label, all[r].desired)
  BY <1>2, <1>4, <1>5
<1>7. RoundHeld'
  BY <1>3, <1>6 DEF HeldInv, RoundHeld, CommittedIn
<1> QED BY <1>3, <1>7, HeldInside DEF HeldInv, InChain, GaugeHeld

\* Where a walk of a ModelRoute's Service finds no owner is the top of its chain.
LEMMA TopReached ==
  ASSUME NEW s \in Services, NEW w \in Workloads, Chained(s, w), Owner[w] = None
  PROVE  TopOf[s] = w
<1>1. PICK C \in SUBSET Workloads : /\ PodOf[s] \in C
                                    /\ \A x \in C : IF Owner[x] = None THEN x = TopOf[s] ELSE Owner[x] \in C
  BY ChainAssumption
<1>2. w \in C
  BY <1>1 DEF Chained
<1> QED BY <1>1, <1>2

LEMMA WalkHeld ==
  ASSUME ResolverType, HeldInv, WalkUp \/ WalkFails \/ WalkEnds
  PROVE  HeldInv'
<1>0. rpc = "walk" /\ UNCHANGED <<cluster, held, gauge>>
  BY DEF WalkUp, WalkFails, WalkEnds, InWalk
<1>1. \A x \in DOMAIN round.cache : round.cache[x] \in held[x]
  BY DEF HeldInv, RoundHeld
<1>2. CASE WalkFails \/ WalkEnds
  <2>1. Walked(round.cache, None)
    BY <1>2 DEF WalkFails, WalkEnds
  <2> QED BY <1>0, <1>1, <2>1, WalkedHeld
<1>3. CASE WalkUp
  <2> DEFINE w == round.at.obj
             cache == Over(round.cache, [x \in {w} |-> cluster.spec[w]])
  <2>1. /\ w \in Workloads /\ w # None /\ Chained(Item.service, w) /\ ~NoBackend(Item)
        /\ round.items # <<>>
    BY <1>0, <1>3 DEF WalkUp, InWalk, ResolverType, WalkShape, HeldInv, InChain
  <2>2. cluster.spec[w] \in held[w] /\ cluster.spec[w] \in Nat \cup {None}
    <3>1. w # Disaggregated /\ w \in DOMAIN held
      BY <2>1, ClusterAssumption DEF ResolverType
    <3>2. CommittedTo(cluster, w) \in held[w]
      BY <1>0, <3>1 DEF HeldInv, HeldNow
    <3> QED BY <2>1, <3>1, <3>2 DEF CommittedTo, ResolverType, ClusterOK
  <2>3. /\ \A x \in DOMAIN cache : cache[x] \in held[x]
        /\ w \in DOMAIN cache /\ cache[w] \in Nat \cup {None}
    <3>1. /\ DOMAIN cache = DOMAIN round.cache \cup {w}
          /\ \A x \in DOMAIN round.cache : cache[x] = round.cache[x]
          /\ w \notin DOMAIN round.cache => cache[w] = cluster.spec[w]
      BY DEF Over
    <3>2. \A x \in DOMAIN round.cache : round.cache[x] \in Nat \cup {None}
      BY DEF ResolverType, RoundShape
    <3> HIDE DEF cache, w
    <3> QED BY <1>1, <2>2, <3>1, <3>2
  <2>4. CASE AtTop(w)
    <3>1. Walked(cache, cache[w])
      BY <1>3, <2>4 DEF WalkUp
    <3>2. Item.service \in Services
      BY <2>1, ItemFacts, ConfFacts DEF ResolverType, NoBackend
    <3>3. TopOf[Item.service] = w
      BY <2>1, <2>4, <3>2, TopReached DEF AtTop
    <3>4. cache[w] \in held[w]
      BY <2>3
    <3> HIDE DEF cache, w
    <3> QED BY <1>0, <2>1, <2>3, <3>1, <3>3, <3>4, WalkedHeld
  <2>5. CASE ~AtTop(w)
    <3>1. /\ round' = [round EXCEPT !.at.obj = Owner[w], !.cache = cache, !.depth = @ + 1]
          /\ rpc' = rpc
      BY <1>3, <2>5 DEF WalkUp, Deeper
    <3>2. Owner[w] # None
      BY <2>5 DEF AtTop
    <3> HIDE DEF cache
    <3>3. /\ round'.at = [round.at EXCEPT !.obj = Owner[w]] /\ round'.items = round.items
          /\ round'.reps = round.reps /\ round'.cache = cache
          /\ round'.engines = round.engines
      BY <3>1 DEF ResolverType, RoundShape
    <3>4. round'.at.obj = Owner[w]
      BY <1>0, <3>3 DEF ResolverType, WalkShape
    <3>5. Chained(Item.service, Owner[w])
      BY <2>1, <3>2 DEF Chained
    <3>6. InChain'
      <4>1. Item' = Item
        BY <3>3 DEF Item
      <4> QED BY <3>4, <3>5, <4>1 DEF InChain, Chained
    <3>7. RoundHeld'
      BY <1>0, <2>3, <3>3 DEF HeldInv, RoundHeld, CommittedIn
    <3> QED BY <1>0, <3>1, <3>6, <3>7, HeldInside DEF HeldInv, GaugeHeld
  <2> QED BY <2>4, <2>5
<1> QED BY <1>2, <1>3

\* When the refill is done every desired count is one of the round's.
LEMMA FinishHeld ==
  ASSUME ResolverType, HeldInv, SeriesInv, Finish
  PROVE  GaugeHeld'
<1> DEFINE reps == round.reps
<1>1. /\ rpc = "fill" /\ filled = 3 * (Len(reps) + 1) /\ UNCHANGED <<gauge, held>>
      /\ reps \in Seq(Reps) /\ Len(reps) \in Nat
  BY DEF Finish, Writes, ResolverType, RoundShape
<1>2. Vecs[3] = "desired" /\ 3 \in 1..3 /\ filled >= 3
  BY <1>1 DEF Vecs
<1>3. SUFFICES ASSUME NEW l \in DOMAIN gauge.desired PROVE CommittedIn(l, gauge.desired[l])
  BY <1>1 DEF GaugeHeld, CommittedIn
<1>4. PICK r \in DOMAIN reps : WroteLast(r, l, 3)
  BY <1>1, <1>2, <1>3 DEF SeriesInv, FillSound
<1>5. reps[r].label = l /\ reps[r].desired # None /\ gauge.desired[l] = reps[r].desired
  BY <1>2, <1>4 DEF WroteLast
<1>6. CommittedIn(reps[r].label, reps[r].desired)
  BY <1>5 DEF HeldInv, RoundHeld
<1> QED BY <1>5, <1>6

LEMMA FillHeld ==
  ASSUME ResolverType, HeldInv, SeriesInv, Install \/ Fill \/ Finish
  PROVE  HeldInv'
<1>1. rpc # "idle" /\ UNCHANGED <<cluster, held>>
  BY DEF Install, Fill, Finish
<1>2. CASE Install \/ Fill
  <2>1. rpc' = "fill" /\ UNCHANGED round
    BY <1>2 DEF Install, Fill
  <2> QED BY <1>1, <2>1, HeldInside, RoundKeeps DEF HeldInv, InChain, GaugeHeld
<1>3. CASE Finish
  <2>1. rpc' = "idle" /\ round' = NoRound
    BY <1>3 DEF Finish
  <2>2. DOMAIN round'.cache = {} /\ round'.engines = None /\ round'.reps = <<>>
    BY <2>1 DEF NoRound, Empty
  <2>3. RoundHeld' /\ InChain'
    BY <2>1, <2>2 DEF RoundHeld, InChain
  <2> QED BY <1>1, <1>3, <2>3, HeldInside, FinishHeld DEF HeldInv
<1> QED BY <1>2, <1>3

LEMMA HeldStep == ASSUME Types, SeriesInv, HeldInv, [Next]_vars PROVE HeldInv'
<1>1. CASE ResolverStep
  BY <1>1, ListHeld, ItemHeld, WalkHeld, FillHeld DEF Types, ResolverStep
<1>2. CASE ClusterChange
  BY <1>2, OneChange, HeldChange DEF Types
<1>3. CASE UNCHANGED unspent
  BY <1>3, HeldFrame DEF unspent
<1> QED BY <1>1, <1>2, <1>3, Frames

LEMMA HeldInit == Init => HeldInv
<1> SUFFICES ASSUME Init PROVE HeldInv
  OBVIOUS
<1>1. /\ rpc = "idle" /\ ~up /\ DOMAIN round.cache = {} /\ round.engines = None
      /\ round.reps = <<>>
  BY DEF Init, ResolverInit, NoRound, Empty
<1> QED BY <1>1 DEF HeldInv, HeldNow, RoundHeld, InChain, GaugeHeld

\* After a successful round every desired count shown was committed to since the
\* round began, by the workload at the top of the pod's owner chain or by all the
\* slices of the engines (desiredForPod, pdRoles and refresh).
THEOREM DesiredCommitted == Spec => []DesiredIsCommitted
<1>1. Spec => []SeriesInv
  BY SeriesInit, SeriesStep, TypesHold, PTL DEF Spec
<1>2. Spec => []HeldInv
  BY <1>1, HeldInit, HeldStep, TypesHold, PTL DEF Spec
<1>3. HeldInv => DesiredIsCommitted
  <2>1. SUFFICES ASSUME HeldInv, rpc = "idle", up, NEW l \in DOMAIN gauge.desired
        PROVE  gauge.desired[l] \in
                 IF l[3] = "prefill" THEN held[Disaggregated]
                 ELSE UNION {held[TopOf[s]] :
                        s \in {x \in Services : Stripped[x] = l[1] /\ TopOf[x] # None}}
    BY DEF DesiredIsCommitted
  <2>2. CommittedIn(l, gauge.desired[l])
    BY <2>1 DEF HeldInv, GaugeHeld
  <2>3. CASE l[3] = "prefill"
    BY <2>2, <2>3 DEF CommittedIn
  <2>4. CASE l[3] # "prefill"
    <3>1. PICK s \in Services : /\ Stripped[s] = l[1] /\ TopOf[s] \in Workloads
                                /\ gauge.desired[l] \in held[TopOf[s]]
      BY <2>2, <2>4 DEF CommittedIn
    <3>2. TopOf[s] # None
      BY <3>1, ClusterAssumption
    <3> QED BY <2>4, <3>1, <3>2
  <2> QED BY <2>3, <2>4
<1> QED BY <1>2, <1>3, PTL

-----------------------------------------------------------------------------
(***************************************************************************)
(* The snapshot.  What a round owes to the cluster, of every ModelRoute    *)
(* that has not changed since it began: while the groups are listed it is  *)
(* an item exactly if a group listed so far has it, as the first of them   *)
(* says; then it is an item or it is covered by the targets and the        *)
(* address map built so far; and if nothing has changed, nothing is built  *)
(* but from ModelRoutes that exist.                                        *)
(***************************************************************************)
\* Holders, Winner, Present and Current of any state c of the cluster.
Having(c, o) == {k \in 1..Len(Groups) :
                   Groups[k] \in c.served /\ c.crs[Groups[k]][o] # Gone}
Says(c, o) == Conf[o][c.crs[Groups[Min(Having(c, o))]][o]]
There(c) == {o \in ObjSet : Having(c, o) # {}}
Saying(c) == {Says(c, o) : o \in There(c)}

\* The first group that has the ModelRoute.
First(c, o, k) == k \in Having(c, o) /\ \A j \in Having(c, o) : k <= j

\* The items hold the ModelRoute exactly if one of the groups before n has it,
\* as the first of them says.
Listed(c, o, items, n) ==
  /\ \A k \in Having(c, o) : k < n => \E i \in DOMAIN items : items[i].obj = o
  /\ \A i \in DOMAIN items : items[i].obj = o =>
       /\ \E k \in Having(c, o) : First(c, o, k) /\ k < n
       /\ items[i].conf = Says(c, o)

ListSound ==
  rpc = "list" => \A o \in ObjSet \ touched : Listed(cluster, o, round.items, round.gi)

\* The targets and the address map hold what ModelRoute d says.
Covered(c, d, targets, byIP, changed) ==
  /\ Polled(d) => \E t \in ToSet(targets) : SamePlace(d, t)
  /\ ~NoBackend(d) /\ d.service \notin changed =>
       DOMAIN c.eps[d.service] \subseteq DOMAIN byIP

\* They hold nothing that no ModelRoute says.
Backed(c, targets, byIP) ==
  /\ \A t \in ToSet(targets) : \E d \in Saying(c) : Polled(d) /\ t = Target(d)
  /\ \A ip \in DOMAIN byIP : \E d \in Saying(c) :
       ~NoBackend(d) /\ ip \in DOMAIN c.eps[d.service] /\ byIP[ip] = RouteInfo(d)

ItemsSound ==
  rpc \in {"items", "walk"} =>
    /\ \A i \in DOMAIN round.items : round.items[i].obj \notin touched =>
         /\ round.items[i].obj \in There(cluster)
         /\ round.items[i].conf = Says(cluster, round.items[i].obj)
    /\ \A o \in There(cluster) \ touched :
         \/ \E i \in DOMAIN round.items : round.items[i].obj = o
         \/ Covered(cluster, Says(cluster, o), round.targets, round.byIP, touched)
    /\ rpc = "walk" => Covered(cluster, Item, round.targets, round.byIP, touched)
    /\ touched = {} => Backed(cluster, round.targets, round.byIP)

SnapSound ==
  /\ \A o \in There(cluster) \ stale :
       Covered(cluster, Says(cluster, o), snap.targets, snap.byIP, stale)
  /\ stale = {} => Backed(cluster, snap.targets, snap.byIP)

SnapInv == ListSound /\ ItemsSound /\ SnapSound

LEMMA LeastIs ==
  ASSUME NEW S, S \subseteq Nat, NEW k \in S, \A j \in S : k <= j
  PROVE  Min(S) = k
<1>1. \A x \in S : (\A y \in S : x <= y) => x = k
  <2>1. \A x \in S : x \in Nat
    OBVIOUS
  <2> QED BY <2>1
<1>2. \E x \in S : \A y \in S : x <= y
  OBVIOUS
<1>3. Min(S) \in S /\ \A y \in S : Min(S) <= y
  BY <1>2 DEF Min
<1> QED BY <1>1, <1>3

LEMMA Least ==
  ASSUME NEW n \in Nat, NEW S, S \subseteq 1..n, S # {}
  PROVE  Min(S) \in S /\ \A y \in S : Min(S) <= y
<1> DEFINE T == {y \in 1..n : n + 1 - y \in S}
<1>1. IsFiniteSet(T)
  <2>1. IsFiniteSet(1..n) /\ T \subseteq 1..n
    BY FS_Interval
  <2> HIDE DEF T
  <2> QED BY <2>1, FS_Subset
<1>2. \A x \in S : n + 1 - x \in T
  <2>1. \A x \in 1..n : n + 1 - x \in 1..n /\ n + 1 - (n + 1 - x) = x
    OBVIOUS
  <2> QED BY <2>1
<1>3. T \subseteq Int /\ T # {}
  <2>1. PICK x \in S : TRUE
    OBVIOUS
  <2>2. n + 1 - x \in T
    BY <1>2
  <2>3. \A y \in T : y \in Int
    OBVIOUS
  <2> QED BY <2>2, <2>3
<1>4. \A y \in T : y \in Int /\ n + 1 - y \in S
  OBVIOUS
<1> HIDE DEF T
<1>5. PICK m \in T : \A y \in T : m >= y
  BY <1>1, <1>3, Greatest
<1>6. \A x \in S : x \in Nat
  OBVIOUS
<1>7. n + 1 - m \in S /\ \A x \in S : n + 1 - m <= x
  BY <1>2, <1>4, <1>5, <1>6
<1> HIDE DEF T
<1>8. Min(S) = n + 1 - m
  <2>1. PICK k \in S : k = n + 1 - m
    BY <1>7
  <2>2. \A j \in S : k <= j
    BY <1>7, <2>1
  <2>3. S \subseteq Nat
    BY <1>6
  <2> QED BY <2>1, <2>2, <2>3, LeastIs
<1> QED BY <1>7, <1>8

\* The group whose word counts is one that has the ModelRoute, and the first.
LEMMA FirstSays ==
  ASSUME NEW c, NEW o, NEW k, First(c, o, k)
  PROVE  Says(c, o) = Conf[o][c.crs[Groups[k]][o]]
<1>1. Having(c, o) \subseteq Nat
  BY DEF Having
<1>2. Min(Having(c, o)) = k
  <2>1. k \in Having(c, o) /\ \A j \in Having(c, o) : k <= j
    BY DEF First
  <2> HIDE DEF Having
  <2> QED BY <1>1, <2>1, LeastIs
<1> QED BY <1>2 DEF Says

LEMMA HasFirst ==
  ASSUME NEW c, NEW o \in There(c)
  PROVE  \E k \in 1..Len(Groups) : First(c, o, k)
<1>1. Having(c, o) \subseteq 1..Len(Groups) /\ Having(c, o) # {} /\ Len(Groups) \in Nat
  BY ResolverAssumption DEF Having, There
<1>2. /\ Min(Having(c, o)) \in Having(c, o)
      /\ \A y \in Having(c, o) : Min(Having(c, o)) <= y
  BY <1>1, Least
<1> QED BY <1>1, <1>2 DEF First

LEMMA SaysConf ==
  ASSUME NEW c, ClusterOK(c), NEW o \in There(c)
  PROVE  Says(c, o) \in Confs
<1>1. PICK k \in 1..Len(Groups) : First(c, o, k)
  BY HasFirst
<1>2. k \in Having(c, o)
  BY <1>1 DEF First
<1>3. Groups[k] \in GroupSet /\ o \in ObjSet /\ c.crs[Groups[k]][o] # Gone
  BY <1>2, ResolverAssumption DEF Having, There
<1>4. c.crs[Groups[k]][o] \in DOMAIN Conf[o]
  BY <1>3 DEF ClusterOK
<1> QED BY <1>1, <1>3, <1>4, FirstSays DEF Confs

\* Two states of the cluster that agree on a ModelRoute in every group served.
Agree(c, d, o) ==
  /\ Having(c, o) = Having(d, o)
  /\ \A k \in Having(c, o) : c.crs[Groups[k]][o] = d.crs[Groups[k]][o]

LEMMA AgreeSays ==
  ASSUME NEW c, NEW d, NEW o \in ObjSet, Agree(c, d, o)
  PROVE  /\ o \in There(c) <=> o \in There(d)
         /\ o \in There(c) => Says(c, o) = Says(d, o)
         /\ \A k : First(c, o, k) <=> First(d, o, k)
<1>1. Having(c, o) = Having(d, o)
  BY DEF Agree
<1>2. /\ o \in There(c) <=> o \in There(d)
      /\ \A k : First(c, o, k) <=> First(d, o, k)
  BY <1>1 DEF There, First
<1>3. ASSUME o \in There(c) PROVE Says(c, o) = Says(d, o)
  <2>1. PICK k \in 1..Len(Groups) : First(c, o, k)
    BY <1>3, HasFirst
  <2>2. First(d, o, k)
    BY <1>2, <2>1
  <2>3. c.crs[Groups[k]][o] = d.crs[Groups[k]][o]
    BY <2>1 DEF Agree, First
  <2> QED BY <2>1, <2>2, <2>3, FirstSays
<1> QED BY <1>2, <1>3

\* What a change of the cluster leaves alone.
LEMMA ChangeAgrees ==
  ASSUME ResolverType, ClusterChange
  PROVE  \E what :
           /\ touched' = touched \cup what /\ stale' = stale \cup what
           /\ UNCHANGED <<rpc, round, snap>>
           /\ \A o \in ObjSet \ what : Agree(cluster, cluster', o)
           /\ \A s \in Services \ what : cluster'.eps[s] = cluster.eps[s]
<1> DEFINE Versions == {Gone} \cup UNION {DOMAIN Conf[o] : o \in ObjSet}
<1>0. cluster \in [crs : [GroupSet -> [ObjSet -> Versions]], served : SUBSET GroupSet,
                   lws : BOOLEAN, eps : [Services -> Readiness],
                   spec : [Workloads -> Nat \cup {None}], slices : [Slices -> Reports]]
  BY DEF ResolverType, ClusterOK
<1>a. \A k \in 1..Len(Groups) : Groups[k] \in GroupSet
  BY ResolverAssumption
<1>b. ASSUME NEW c, NEW what, Change(c, what),
             \A o \in ObjSet \ what : Agree(cluster, c, o),
             \A s \in Services \ what : c.eps[s] = cluster.eps[s]
      PROVE  \E w : /\ touched' = touched \cup w /\ stale' = stale \cup w
                    /\ UNCHANGED <<rpc, round, snap>>
                    /\ \A o \in ObjSet \ w : Agree(cluster, cluster', o)
                    /\ \A s \in Services \ w : cluster'.eps[s] = cluster.eps[s]
  BY <1>b DEF Change
<1>c. ASSUME NEW c, c.crs = cluster.crs, c.served = cluster.served
      PROVE  \A o : Agree(cluster, c, o)
  BY <1>c DEF Agree, Having
<1> HIDE DEF Versions
<1>1. CASE ChangeModelRoute
  <2>0. PICK g \in GroupSet, x \in ObjSet : \E v \in Copies[g][x] :
          Change([cluster EXCEPT !.crs[g][x] = v], {x})
    BY <1>1 DEF ChangeModelRoute
  <2>1. PICK v \in Copies[g][x] : Change([cluster EXCEPT !.crs[g][x] = v], {x})
    BY <2>0
  <2> DEFINE c == [cluster EXCEPT !.crs[g][x] = v]
  <2>2. /\ c.served = cluster.served /\ c.eps = cluster.eps
        /\ \A h \in GroupSet, o \in ObjSet : o # x => c.crs[h][o] = cluster.crs[h][o]
    BY <1>0
  <2> HIDE DEF c
  <2>3. \A o \in ObjSet \ {x} : Having(c, o) = Having(cluster, o)
    BY <1>a, <2>2 DEF Having
  <2>4. \A o \in ObjSet \ {x} : \A k \in Having(cluster, o) :
          cluster.crs[Groups[k]][o] = c.crs[Groups[k]][o]
    BY <1>a, <2>2 DEF Having
  <2>5. \A o \in ObjSet \ {x} : Agree(cluster, c, o)
    BY <2>3, <2>4 DEF Agree
  <2>6. Change(c, {x})
    BY <2>1 DEF c
  <2> QED BY <1>b, <2>2, <2>5, <2>6
<1>2. CASE ChangeServed
  <2>1. PICK g \in GroupSet :
          Change([cluster EXCEPT !.served = SymDiff(@, {g})],
                 {o \in ObjSet : cluster.crs[g][o] # Gone})
    BY <1>2 DEF ChangeServed
  <2> DEFINE c == [cluster EXCEPT !.served = SymDiff(@, {g})]
             what == {o \in ObjSet : cluster.crs[g][o] # Gone}
  <2>2. /\ c.crs = cluster.crs /\ c.eps = cluster.eps
        /\ \A h \in GroupSet : h # g => (h \in c.served <=> h \in cluster.served)
    BY <1>0 DEF SymDiff
  <2>3. \A o \in ObjSet \ what : cluster.crs[g][o] = Gone
    OBVIOUS
  <2>4. Change(c, what)
    BY <2>1
  <2> HIDE DEF c, what
  <2>5. \A o \in ObjSet \ what : Having(c, o) = Having(cluster, o)
    BY <1>a, <2>2, <2>3 DEF Having
  <2>6. \A o \in ObjSet \ what : Agree(cluster, c, o)
    BY <2>2, <2>5 DEF Agree
  <2> QED BY <1>b, <2>2, <2>4, <2>6
<1>3. CASE ChangeEndpoints
  <2>0. PICK s \in Services : \E e \in EndpointStates[s] :
          Change([cluster EXCEPT !.eps[s] = e], {s})
    BY <1>3 DEF ChangeEndpoints
  <2>1. PICK e \in EndpointStates[s] : Change([cluster EXCEPT !.eps[s] = e], {s})
    BY <2>0
  <2> DEFINE c == [cluster EXCEPT !.eps[s] = e]
  <2>2. /\ c.crs = cluster.crs /\ c.served = cluster.served
        /\ \A x \in Services \ {s} : c.eps[x] = cluster.eps[x]
    BY <1>0
  <2>3. Change(c, {s})
    BY <2>1
  <2> HIDE DEF c
  <2> QED BY <1>b, <1>c, <2>2, <2>3
<1>4. CASE Scale
  <2>0. PICK w \in Workloads : \E k \in Counts[w] :
          Change([cluster EXCEPT !.spec[w] = k], {})
    BY <1>4 DEF Scale
  <2>1. PICK k \in Counts[w] : Change([cluster EXCEPT !.spec[w] = k], {})
    BY <2>0
  <2> DEFINE c == [cluster EXCEPT !.spec[w] = k]
  <2>2. c.crs = cluster.crs /\ c.served = cluster.served /\ c.eps = cluster.eps
    BY <1>0
  <2>3. Change(c, {})
    BY <2>1
  <2> HIDE DEF c
  <2> QED BY <1>b, <1>c, <2>2, <2>3
<1>5. CASE ChangeSlice
  <2>0. PICK i \in Slices : \E e \in SliceStates[i] :
          Change([cluster EXCEPT !.slices[i] = e], {})
    BY <1>5 DEF ChangeSlice
  <2>1. PICK e \in SliceStates[i] : Change([cluster EXCEPT !.slices[i] = e], {})
    BY <2>0
  <2> DEFINE c == [cluster EXCEPT !.slices[i] = e]
  <2>2. c.crs = cluster.crs /\ c.served = cluster.served /\ c.eps = cluster.eps
    BY <1>0
  <2>3. Change(c, {})
    BY <2>1
  <2> HIDE DEF c
  <2> QED BY <1>b, <1>c, <2>2, <2>3
<1>6. CASE ChangePermission
  <2> DEFINE c == [cluster EXCEPT !.lws = ~@]
  <2>2. c.crs = cluster.crs /\ c.served = cluster.served /\ c.eps = cluster.eps
    BY <1>0
  <2>3. Change(c, {})
    BY <1>6 DEF ChangePermission
  <2> HIDE DEF c
  <2> QED BY <1>b, <1>c, <2>2, <2>3
<1> QED BY <1>1, <1>2, <1>3, <1>4, <1>5, <1>6 DEF ClusterChange

\* What is covered stays so when more is known, and when only what was known to
\* have changed changes.
LEMMA CoveredStays ==
  ASSUME NEW c, NEW e, NEW d \in Confs, NEW T, NEW U, NEW B, NEW C, NEW ch, NEW xch,
         Covered(c, d, T, B, ch), ToSet(T) \subseteq ToSet(U), DOMAIN B \subseteq DOMAIN C,
         ch \subseteq xch, \A s \in Services \ xch : e.eps[s] = c.eps[s]
  PROVE  Covered(e, d, U, C, xch)
<1>1. Polled(d) => \E t \in ToSet(U) : SamePlace(d, t)
  BY DEF Covered
<1>2. ASSUME ~NoBackend(d), d.service \notin xch
      PROVE  DOMAIN e.eps[d.service] \subseteq DOMAIN C
  <2>1. d.service \in Services
    BY <1>2, ConfFacts DEF NoBackend
  <2>2. e.eps[d.service] = c.eps[d.service]
    BY <1>2, <2>1
  <2>3. DOMAIN c.eps[d.service] \subseteq DOMAIN B
    BY <1>2 DEF Covered
  <2> QED BY <2>2, <2>3
<1> QED BY <1>1, <1>2 DEF Covered

LEMMA BackedStays ==
  ASSUME NEW c, NEW e, ClusterOK(c), \A o \in ObjSet : Agree(c, e, o),
         \A s \in Services : e.eps[s] = c.eps[s], NEW T, NEW B, Backed(c, T, B)
  PROVE  Backed(e, T, B)
<1>1. \A o \in ObjSet : /\ o \in There(c) <=> o \in There(e)
                        /\ o \in There(c) => Says(c, o) = Says(e, o)
  BY AgreeSays
<1>2. \A d \in Saying(c) : d \in Saying(e)
  <2>1. SUFFICES ASSUME NEW o \in There(c) PROVE Says(c, o) \in Saying(e)
    BY DEF Saying
  <2>2. o \in There(e) /\ Says(c, o) = Says(e, o)
    BY <1>1 DEF There
  <2> QED BY <2>2 DEF Saying
<1>3. \A d \in Saying(c) : ~NoBackend(d) => c.eps[d.service] = e.eps[d.service]
  <2>1. SUFFICES ASSUME NEW d \in Saying(c), ~NoBackend(d)
        PROVE  c.eps[d.service] = e.eps[d.service]
    OBVIOUS
  <2>2. d \in Confs
    BY SaysConf DEF Saying
  <2>3. d.service \in Services
    BY <2>1, <2>2, ConfFacts DEF NoBackend
  <2> QED BY <2>3
<1>4. \A t \in ToSet(T) : \E d \in Saying(e) : Polled(d) /\ t = Target(d)
  BY <1>2 DEF Backed
<1>5. ASSUME NEW ip \in DOMAIN B
      PROVE  \E d \in Saying(e) :
               ~NoBackend(d) /\ ip \in DOMAIN e.eps[d.service] /\ B[ip] = RouteInfo(d)
  <2>1. PICK d \in Saying(c) :
          ~NoBackend(d) /\ ip \in DOMAIN c.eps[d.service] /\ B[ip] = RouteInfo(d)
    BY <1>5 DEF Backed
  <2> QED BY <1>2, <1>3, <2>1
<1> QED BY <1>4, <1>5 DEF Backed

LEMMA AddTargetFacts ==
  ASSUME NEW T \in Seq(Targets), NEW d, NEW U, U = AddTarget(T, d)
  PROVE  /\ ToSet(T) \subseteq ToSet(U)
         /\ Polled(d) => \E t \in ToSet(U) : SamePlace(d, t)
         /\ \A t \in ToSet(U) : t \in ToSet(T) \/ (Polled(d) /\ t = Target(d))
<1>1. CASE Polled(d) /\ \A t \in ToSet(T) : t.base # OpenrestyBase(d) \/ t.route # RouteName(d)
  <2>1. U = Append(T, Target(d))
    BY <1>1 DEF AddTarget
  <2>2. ToSet(U) = ToSet(T) \cup {Target(d)}
    BY <2>1, ToSetAppend
  <2>3. SamePlace(d, Target(d))
    BY DEF SamePlace, Target
  <2> QED BY <1>1, <2>2, <2>3
<1>2. CASE ~(Polled(d) /\ \A t \in ToSet(T) : t.base # OpenrestyBase(d) \/ t.route # RouteName(d))
  <2>1. U = T
    BY <1>2 DEF AddTarget
  <2> QED BY <1>2, <2>1 DEF SamePlace
<1> QED BY <1>1, <1>2

\* A change of the cluster takes what it disturbs out of what is promised.
LEMMA SnapChange ==
  ASSUME ResolverType, SnapInv, ClusterChange
  PROVE  SnapInv'
<1>1. PICK what :
           /\ touched' = touched \cup what /\ stale' = stale \cup what
           /\ UNCHANGED <<rpc, round, snap>>
           /\ \A o \in ObjSet \ what : Agree(cluster, cluster', o)
           /\ \A s \in Services \ what : cluster'.eps[s] = cluster.eps[s]
  BY ChangeAgrees
<1>2. ClusterOK(cluster) /\ There(cluster) \subseteq ObjSet /\ There(cluster') \subseteq ObjSet
  BY DEF ResolverType, There
<1>3. ASSUME NEW o \in ObjSet \ what
      PROVE  /\ Having(cluster', o) = Having(cluster, o)
             /\ o \in There(cluster') <=> o \in There(cluster)
             /\ o \in There(cluster) =>
                  Says(cluster', o) = Says(cluster, o) /\ Says(cluster, o) \in Confs
             /\ \A k : First(cluster, o, k) <=> First(cluster', o, k)
  <2>1. Agree(cluster, cluster', o) /\ o \in ObjSet
    BY <1>1, <1>3
  <2>2. Having(cluster', o) = Having(cluster, o)
    BY <2>1 DEF Agree
  <2> QED BY <1>2, <2>1, <2>2, AgreeSays, SaysConf
<1>4. ListSound'
  <2>1. SUFFICES ASSUME rpc = "list", NEW o \in ObjSet \ (touched \cup what)
        PROVE  /\ \A k \in Having(cluster', o) : k < round.gi =>
                    \E i \in DOMAIN round.items : round.items[i].obj = o
               /\ \A i \in DOMAIN round.items : round.items[i].obj = o =>
                    /\ \E k \in Having(cluster', o) : First(cluster', o, k) /\ k < round.gi
                    /\ round.items[i].conf = Says(cluster', o)
    BY <1>1 DEF ListSound, Listed
  <2>2. /\ \A k \in Having(cluster, o) : k < round.gi =>
             \E i \in DOMAIN round.items : round.items[i].obj = o
        /\ \A i \in DOMAIN round.items : round.items[i].obj = o =>
             /\ \E k \in Having(cluster, o) : First(cluster, o, k) /\ k < round.gi
             /\ round.items[i].conf = Says(cluster, o)
    BY <2>1 DEF SnapInv, ListSound, Listed
  <2>3. \A k \in Having(cluster, o) : o \in There(cluster)
    BY <2>1 DEF There
  <2>4. o \in ObjSet \ what
    BY <2>1
  <2> QED BY <1>3, <2>2, <2>3, <2>4
<1>5. \A s \in Services \ (touched \cup what) : cluster'.eps[s] = cluster.eps[s]
  BY <1>1
<1>6. \A s \in Services \ (stale \cup what) : cluster'.eps[s] = cluster.eps[s]
  BY <1>1
<1>7. ASSUME what = {}, NEW T, NEW B, Backed(cluster, T, B)
      PROVE  Backed(cluster', T, B)
  <2>1. /\ \A o \in ObjSet : Agree(cluster, cluster', o)
        /\ \A s \in Services : cluster'.eps[s] = cluster.eps[s]
    BY <1>1, <1>7
  <2> QED BY <1>2, <1>7, <2>1, BackedStays
<1>8. ItemsSound'
  <2>1. SUFFICES ASSUME rpc \in {"items", "walk"}
        PROVE  /\ \A i \in DOMAIN round.items : round.items[i].obj \notin touched \cup what =>
                    /\ round.items[i].obj \in There(cluster')
                    /\ round.items[i].conf = Says(cluster', round.items[i].obj)
               /\ \A o \in There(cluster') \ (touched \cup what) :
                    \/ \E i \in DOMAIN round.items : round.items[i].obj = o
                    \/ Covered(cluster', Says(cluster', o), round.targets, round.byIP,
                               touched \cup what)
               /\ rpc = "walk" => Covered(cluster', Item, round.targets, round.byIP,
                                          touched \cup what)
               /\ touched \cup what = {} => Backed(cluster', round.targets, round.byIP)
    BY <1>1 DEF ItemsSound, Item
  <2>2. /\ \A i \in DOMAIN round.items : round.items[i].obj \notin touched =>
             /\ round.items[i].obj \in There(cluster)
             /\ round.items[i].conf = Says(cluster, round.items[i].obj)
        /\ \A o \in There(cluster) \ touched :
             \/ \E i \in DOMAIN round.items : round.items[i].obj = o
             \/ Covered(cluster, Says(cluster, o), round.targets, round.byIP, touched)
        /\ rpc = "walk" => Covered(cluster, Item, round.targets, round.byIP, touched)
        /\ touched = {} => Backed(cluster, round.targets, round.byIP)
    BY <2>1 DEF SnapInv, ItemsSound
  <2>3. ASSUME NEW i \in DOMAIN round.items, round.items[i].obj \notin touched \cup what
        PROVE  /\ round.items[i].obj \in There(cluster')
               /\ round.items[i].conf = Says(cluster', round.items[i].obj)
    <3>1. /\ round.items[i].obj \in There(cluster)
          /\ round.items[i].conf = Says(cluster, round.items[i].obj)
      BY <2>2, <2>3
    <3>2. round.items[i].obj \in ObjSet \ what
      BY <1>2, <2>3, <3>1
    <3> QED BY <1>3, <3>1, <3>2
  <2>4. ASSUME NEW o \in There(cluster') \ (touched \cup what),
               \A i \in DOMAIN round.items : round.items[i].obj # o
        PROVE  Covered(cluster', Says(cluster', o), round.targets, round.byIP, touched \cup what)
    <3>1. o \in There(cluster) /\ Says(cluster', o) = Says(cluster, o) /\ Says(cluster, o) \in Confs
      BY <1>2, <1>3, <2>4
    <3>2. Covered(cluster, Says(cluster, o), round.targets, round.byIP, touched)
      BY <2>2, <2>4, <3>1
    <3> QED BY <1>5, <3>1, <3>2, CoveredStays
  <2>5. ASSUME rpc = "walk"
        PROVE  Covered(cluster', Item, round.targets, round.byIP, touched \cup what)
    <3>1. Item \in Confs
      BY <2>5, ItemFacts DEF ResolverType, WalkShape
    <3>2. Covered(cluster, Item, round.targets, round.byIP, touched)
      BY <2>2, <2>5
    <3> QED BY <1>5, <3>1, <3>2, CoveredStays
  <2>6. touched \cup what = {} => Backed(cluster', round.targets, round.byIP)
    BY <1>7, <2>2
  <2> QED BY <2>3, <2>4, <2>5, <2>6
<1>9. SnapSound'
  <2>1. /\ \A o \in There(cluster) \ stale :
             Covered(cluster, Says(cluster, o), snap.targets, snap.byIP, stale)
        /\ stale = {} => Backed(cluster, snap.targets, snap.byIP)
    BY DEF SnapInv, SnapSound
  <2>2. ASSUME NEW o \in There(cluster') \ (stale \cup what)
        PROVE  Covered(cluster', Says(cluster', o), snap.targets, snap.byIP, stale \cup what)
    <3>1. o \in There(cluster) /\ Says(cluster', o) = Says(cluster, o) /\ Says(cluster, o) \in Confs
      BY <1>2, <1>3, <2>2
    <3>2. Covered(cluster, Says(cluster, o), snap.targets, snap.byIP, stale)
      BY <2>1, <2>2, <3>1
    <3> QED BY <1>6, <3>1, <3>2, CoveredStays
  <2>3. stale \cup what = {} => Backed(cluster', snap.targets, snap.byIP)
    BY <1>7, <2>1
  <2> QED BY <1>1, <2>2, <2>3 DEF SnapSound
<1> QED BY <1>4, <1>8, <1>9 DEF SnapInv

LEMMA SnapFrame ==
  ASSUME SnapInv, UNCHANGED <<cluster, rpc, round, snap, touched, stale>>
  PROVE  SnapInv'
<1>1. ListSound'
  BY DEF SnapInv, ListSound, Listed
<1>2. ItemsSound'
  BY DEF SnapInv, ItemsSound, Item
<1>3. SnapSound'
  BY DEF SnapInv, SnapSound
<1> QED BY <1>1, <1>2, <1>3 DEF SnapInv

\* A group that is served adds exactly the ModelRoutes that no earlier one had.
LEMMA GroupListed ==
  ASSUME ResolverType, SnapInv, rpc = "list", round.gi <= Len(Groups),
         NEW g, g = Groups[round.gi], g \in cluster.served,
         NEW s \in Listings(Unseen(g)), NEW u, u = round.items \o ItemsOf(s, g),
         NEW o \in ObjSet \ touched
  PROVE  Listed(cluster, o, u, round.gi + 1)
<1> DEFINE a == round.items
           b == ItemsOf(s, g)
           m == Len(a)
           n == Len(b)
           gi == round.gi
<1>0. gi \in 1..Len(Groups) /\ g \in GroupSet
  <2>1. gi \in 1..(Len(Groups) + 1) /\ gi <= Len(Groups)
    BY DEF ResolverType, RoundShape
  <2> QED BY <2>1, ResolverAssumption
<1>1. a \in Seq(Items) /\ b \in Seq(Items)
  BY <1>0, ItemsOfType DEF ResolverType, RoundShape
<1>2. /\ \A i \in DOMAIN b : /\ b[i].obj \in Unseen(g)
                             /\ b[i].conf = Conf[b[i].obj][cluster.crs[g][b[i].obj]]
      /\ \A x \in Unseen(g) : \E i \in DOMAIN b : b[i].obj = x
  <2>1. /\ DOMAIN b = DOMAIN s
        /\ \A i \in DOMAIN s : /\ b[i].obj = s[i]
                               /\ b[i].conf = Conf[s[i]][cluster.crs[g][s[i]]]
    BY DEF ItemsOf
  <2>2. s \in Surjection(1..Cardinality(Unseen(g)), Unseen(g))
    BY DEF Listings, Bijection
  <2>3. /\ \A i \in DOMAIN s : s[i] \in Unseen(g)
        /\ \A x \in Unseen(g) : \E i \in DOMAIN s : s[i] = x
    BY <2>2 DEF Surjection
  <2> HIDE DEF b
  <2> QED BY <2>1, <2>3
<1>3. \A x : x \in Unseen(g) <=> /\ x \in ObjSet /\ cluster.crs[g][x] # Gone
                                 /\ \A i \in DOMAIN a : a[i].obj # x
  BY DEF Unseen, ToSet
<1>4. \A k \in Having(cluster, o) : k < gi => \E i \in DOMAIN a : a[i].obj = o
  BY DEF SnapInv, ListSound, Listed
<1>5. \A i \in DOMAIN a : a[i].obj = o =>
        /\ \E k \in Having(cluster, o) : First(cluster, o, k) /\ k < gi
        /\ a[i].conf = Says(cluster, o)
  BY DEF SnapInv, ListSound, Listed
<1>6. gi \in Having(cluster, o) <=> cluster.crs[g][o] # Gone
  BY <1>0 DEF Having
<1>7. \A k \in Having(cluster, o) : k \in Nat
  BY DEF Having
<1> HIDE DEF a, b, gi
<1>8. u = a \o b
  BY DEF a, b
<1>9. /\ DOMAIN a = 1..m /\ DOMAIN b = 1..n /\ m \in Nat /\ n \in Nat
      /\ DOMAIN u = 1..(m + n)
      /\ \A i \in 1..(m + n) : u[i] = IF i <= m THEN a[i] ELSE b[i - m]
  BY <1>1, <1>8
<1> HIDE DEF m, n
<1>10. \A i \in DOMAIN u : \/ \E j \in DOMAIN a : u[i] = a[j]
                           \/ \E j \in DOMAIN b : u[i] = b[j]
  <2>1. \A i \in 1..(m + n) : IF i <= m THEN i \in 1..m ELSE i - m \in 1..n
    BY <1>9
  <2> QED BY <1>9, <2>1
<1>11. \A j \in DOMAIN a : \E i \in DOMAIN u : u[i] = a[j]
  <2>1. \A j \in 1..m : j \in 1..(m + n) /\ j <= m
    BY <1>9
  <2> QED BY <1>9, <2>1
<1>12. \A j \in DOMAIN b : \E i \in DOMAIN u : u[i] = b[j]
  <2>1. \A j \in 1..n : j + m \in 1..(m + n) /\ ~(j + m <= m) /\ (j + m) - m = j
    BY <1>9
  <2>2. \A j \in 1..n : u[j + m] = b[j] /\ j + m \in DOMAIN u
    BY <1>9, <2>1
  <2> QED BY <1>9, <2>2
<1>13. ASSUME NEW k \in Having(cluster, o), k < gi + 1
       PROVE  \E i \in DOMAIN u : u[i].obj = o
  <2>1. CASE k < gi
    BY <1>4, <1>11, <2>1
  <2>2. CASE k = gi
    <3>1. CASE \E i \in DOMAIN a : a[i].obj = o
      BY <1>11, <3>1
    <3>2. CASE ~\E i \in DOMAIN a : a[i].obj = o
      <4>1. o \in Unseen(g)
        BY <1>3, <1>6, <1>13, <2>2, <3>2
      <4>2. PICK j \in DOMAIN b : b[j].obj = o
        BY <1>2, <4>1
      <4>3. PICK i \in DOMAIN u : u[i] = b[j]
        BY <1>12
      <4> QED BY <4>2, <4>3
    <3> QED BY <3>1, <3>2
  <2>3. k \in Nat /\ gi \in Nat
    BY <1>0, <1>7
  <2>4. k < gi \/ k = gi
    BY <1>13, <2>3
  <2> QED BY <2>1, <2>2, <2>4
<1>14. ASSUME NEW i \in DOMAIN u, u[i].obj = o
       PROVE  /\ \E k \in Having(cluster, o) : First(cluster, o, k) /\ k < gi + 1
              /\ u[i].conf = Says(cluster, o)
  <2>0. gi \in Nat
    BY <1>0
  <2>1. CASE \E j \in DOMAIN a : u[i] = a[j]
    <3>1. /\ \E k \in Having(cluster, o) : First(cluster, o, k) /\ k < gi
          /\ u[i].conf = Says(cluster, o)
      BY <1>5, <1>14, <2>1
    <3>2. \A k \in Having(cluster, o) : k < gi => k < gi + 1
      BY <1>7, <2>0
    <3> QED BY <3>1, <3>2
  <2>2. CASE \E j \in DOMAIN b : u[i] = b[j]
    <3>1. o \in Unseen(g) /\ u[i].conf = Conf[o][cluster.crs[g][o]]
      BY <1>2, <1>14, <2>2
    <3>2. gi \in Having(cluster, o) /\ \A k \in Having(cluster, o) : ~(k < gi)
      BY <1>3, <1>4, <1>6, <3>1
    <3>3. First(cluster, o, gi)
      BY <1>7, <2>0, <3>2 DEF First
    <3>4. Says(cluster, o) = Conf[o][cluster.crs[Groups[gi]][o]]
      BY <3>3, FirstSays
    <3>5. g = Groups[gi] /\ gi < gi + 1
      BY <2>0 DEF gi
    <3> QED BY <3>1, <3>2, <3>3, <3>4, <3>5
  <2> QED BY <1>10, <2>1, <2>2
<1> QED BY <1>13, <1>14 DEF gi, Listed

LEMMA ListSnap ==
  ASSUME ResolverType, SeriesInv, SnapInv,
         Begin \/ ListGroup \/ ListFails \/ NothingServed \/ PdRoles
  PROVE  SnapInv'
<1>0. UNCHANGED <<cluster, snap, stale>>
  BY DEF Begin, ListGroup, ListFails, NothingServed, PdRoles, Abandon
<1>1. SnapSound'
  BY <1>0 DEF SnapInv, SnapSound
<1>2. CASE Begin
  <2>1. rpc' = "list" /\ round' = NoRound
    BY <1>2 DEF Begin
  <2>2. round'.gi = 1 /\ round'.items = <<>>
    BY <2>1 DEF NoRound
  <2>3. \A o : \A k \in Having(cluster', o) : ~(k < 1)
    BY DEF Having
  <2>4. ListSound'
    BY <2>2, <2>3 DEF ListSound, Listed
  <2> QED BY <1>1, <2>1, <2>4 DEF SnapInv, ItemsSound
<1>3. CASE ListGroup
  <2> DEFINE g == Groups[round.gi]
  <2>1. rpc = "list" /\ rpc' = "list" /\ round.gi <= Len(Groups) /\ UNCHANGED touched
    BY <1>3 DEF ListGroup, InList
  <2>2. CASE g \in cluster.served
    <3>1. PICK s \in Listings(Unseen(g)) :
            round' = [round EXCEPT !.gi = @ + 1, !.any = TRUE, !.items = @ \o ItemsOf(s, g)]
      BY <1>3, <2>2 DEF ListGroup
    <3>2. round'.gi = round.gi + 1 /\ round'.items = round.items \o ItemsOf(s, g)
      BY <3>1 DEF ResolverType, RoundShape
    <3>3. ASSUME NEW o \in ObjSet \ touched
          PROVE  Listed(cluster, o, round'.items, round'.gi)
      <4> DEFINE u == round'.items
      <4>1. g = Groups[round.gi] /\ u = round.items \o ItemsOf(s, g)
        BY <3>2
      <4> HIDE DEF g, u
      <4>2. Listed(cluster, o, u, round.gi + 1)
        BY <2>1, <2>2, <4>1, GroupListed
      <4> QED BY <3>2, <4>2 DEF u
    <3>4. ListSound'
      BY <1>0, <2>1, <3>3 DEF ListSound, Listed
    <3> QED BY <1>1, <2>1, <3>4 DEF SnapInv, ItemsSound
  <2>3. CASE g \notin cluster.served
    <3>1. round'.gi = round.gi + 1 /\ round'.items = round.items
      BY <1>3, <2>3 DEF ListGroup, ResolverType, RoundShape
    <3>2. \A o : \A k \in Having(cluster, o) : k < round.gi + 1 => k < round.gi
      <4>1. \A o : \A k \in Having(cluster, o) : k \in Nat /\ k # round.gi
        BY <2>3 DEF Having
      <4>2. round.gi \in Nat
        BY DEF ResolverType, RoundShape
      <4> QED BY <4>1, <4>2
    <3>3. \A o : \A k \in Having(cluster, o) : k < round.gi => k < round.gi + 1
      <4>1. \A o : \A k \in Having(cluster, o) : k \in Nat
        BY DEF Having
      <4>2. round.gi \in Nat
        BY DEF ResolverType, RoundShape
      <4> QED BY <4>1, <4>2
    <3>4. \A o \in ObjSet \ touched :
            /\ \A k \in Having(cluster, o) : k < round.gi + 1 =>
                 \E i \in DOMAIN round.items : round.items[i].obj = o
            /\ \A i \in DOMAIN round.items : round.items[i].obj = o =>
                 /\ \E k \in Having(cluster, o) : First(cluster, o, k) /\ k < round.gi + 1
                 /\ round.items[i].conf = Says(cluster, o)
      BY <2>1, <3>2, <3>3 DEF SnapInv, ListSound, Listed
    <3>5. ListSound'
      BY <1>0, <2>1, <3>1, <3>4 DEF ListSound, Listed
    <3> QED BY <1>1, <2>1, <3>5 DEF SnapInv, ItemsSound
  <2> QED BY <2>2, <2>3
<1>4. CASE ListFails \/ NothingServed
  <2>1. rpc' = "idle"
    BY <1>4 DEF ListFails, NothingServed, Abandon
  <2> QED BY <1>1, <2>1 DEF SnapInv, ListSound, Listed, ItemsSound
<1>5. CASE PdRoles
  <2>1. rpc = "list" /\ rpc' = "items" /\ round.gi > Len(Groups) /\ UNCHANGED touched
    BY <1>5 DEF PdRoles
  <2>2. /\ round'.items = round.items /\ round'.targets = round.targets
        /\ round'.byIP = round.byIP
    BY <1>5 DEF PdRoles, ResolverType, RoundShape
  <2>3. round.targets = <<>> /\ round.byIP = Empty
    BY <2>1 DEF SeriesInv, ListFresh
  <2>4. ASSUME NEW i \in DOMAIN round.items, round.items[i].obj \notin touched
        PROVE  /\ round.items[i].obj \in There(cluster)
               /\ round.items[i].conf = Says(cluster, round.items[i].obj)
    <3>1. round.items[i].obj \in ObjSet
      <4>1. round.items[i] \in Items
        BY DEF ResolverType, RoundShape
      <4> QED BY <4>1 DEF Items
    <3>2. /\ \E k \in Having(cluster, round.items[i].obj) : TRUE
          /\ round.items[i].conf = Says(cluster, round.items[i].obj)
      BY <2>1, <2>4, <3>1 DEF SnapInv, ListSound, Listed
    <3> QED BY <3>1, <3>2 DEF There
  <2>5. ASSUME NEW o \in There(cluster) \ touched
        PROVE  \E i \in DOMAIN round.items : round.items[i].obj = o
    <3>1. o \in ObjSet /\ \E k \in Having(cluster, o) : TRUE
      BY DEF There
    <3>2. PICK k \in Having(cluster, o) : TRUE
      BY <3>1
    <3>3. k < round.gi
      <4>1. k \in 1..Len(Groups) /\ Len(Groups) \in Nat /\ round.gi \in Nat
        BY ResolverAssumption DEF Having, ResolverType, RoundShape
      <4> QED BY <2>1, <4>1
    <3> QED BY <2>1, <3>1, <3>3 DEF SnapInv, ListSound, Listed
  <2>6. Backed(cluster, <<>>, Empty)
    BY DEF Backed, ToSet, Empty
  <2>7. ItemsSound'
    BY <1>0, <2>1, <2>2, <2>3, <2>4, <2>5, <2>6 DEF ItemsSound
  <2> QED BY <1>1, <2>1, <2>7 DEF SnapInv, ListSound, Listed
<1> QED BY <1>2, <1>3, <1>4, <1>5

\* What the first item, whose turn it is, leaves to the rest of the round.
LEMMA ItemDone ==
  ASSUME ResolverType, SeriesInv, SnapInv, rpc \in {"items", "walk"}, round.items # <<>>,
         NEW T, NEW B, NEW ch, Covered(cluster, Item, T, B, ch),
         ToSet(round.targets) \subseteq ToSet(T), DOMAIN round.byIP \subseteq DOMAIN B,
         touched \subseteq ch
  PROVE  /\ \A i \in DOMAIN Tail(round.items) : Tail(round.items)[i].obj \notin ch =>
              /\ Tail(round.items)[i].obj \in There(cluster)
              /\ Tail(round.items)[i].conf = Says(cluster, Tail(round.items)[i].obj)
         /\ \A o \in There(cluster) \ ch :
              \/ \E i \in DOMAIN Tail(round.items) : Tail(round.items)[i].obj = o
              \/ Covered(cluster, Says(cluster, o), T, B, ch)
<1> DEFINE a == round.items
           t == Tail(a)
<1>1. /\ DOMAIN a = 1..Len(a) /\ Len(a) \in Nat \ {0} /\ DOMAIN t = 1..(Len(a) - 1)
      /\ \A i \in DOMAIN t : i + 1 \in DOMAIN a /\ t[i] = a[i + 1]
      /\ Head(a) = a[1] /\ 1 \in DOMAIN a
  BY TailItems DEF ResolverType
<1>2. \A i \in DOMAIN a : a[i].obj \notin touched =>
        /\ a[i].obj \in There(cluster)
        /\ a[i].conf = Says(cluster, a[i].obj)
  BY DEF SnapInv, ItemsSound
<1>3. \A o \in There(cluster) \ touched :
        \/ \E i \in DOMAIN a : a[i].obj = o
        \/ Covered(cluster, Says(cluster, o), round.targets, round.byIP, touched)
  BY DEF SnapInv, ItemsSound
<1>4. Item = a[1].conf
  BY <1>1 DEF Item
<1> HIDE DEF a, t
<1>5. ASSUME NEW i \in DOMAIN t, t[i].obj \notin ch
      PROVE  t[i].obj \in There(cluster) /\ t[i].conf = Says(cluster, t[i].obj)
  BY <1>1, <1>2, <1>5
<1>6. ASSUME NEW o \in There(cluster) \ ch, \A i \in DOMAIN t : t[i].obj # o
      PROVE  Covered(cluster, Says(cluster, o), T, B, ch)
  <2>1. CASE \E i \in DOMAIN a : a[i].obj = o
    <3>1. PICK i \in DOMAIN a : a[i].obj = o
      BY <2>1
    <3>2. i = 1
      <4>1. SUFFICES ASSUME i # 1 PROVE FALSE
        OBVIOUS
      <4>2. i - 1 \in DOMAIN t /\ (i - 1) + 1 = i
        BY <1>1, <3>1, <4>1
      <4>3. t[i - 1] = a[i]
        BY <1>1, <4>2
      <4> QED BY <1>6, <3>1, <4>2, <4>3
    <3>3. Says(cluster, o) = Item
      BY <1>2, <1>4, <1>6, <3>1, <3>2
    <3> QED BY <3>3
  <2>2. CASE ~\E i \in DOMAIN a : a[i].obj = o
    <3>1. Covered(cluster, Says(cluster, o), round.targets, round.byIP, touched)
      BY <1>3, <1>6, <2>2
    <3>2. Says(cluster, o) \in Confs
      BY <1>6, SaysConf DEF ResolverType
    <3> QED BY <3>1, <3>2, CoveredStays
  <2> QED BY <2>1, <2>2
<1> QED BY <1>5, <1>6 DEF t, a

\* If nothing has changed, the first item is a ModelRoute that exists.
LEMMA ItemCurrent ==
  ASSUME ResolverType, SnapInv, rpc \in {"items", "walk"}, round.items # <<>>, touched = {}
  PROVE  Item \in Saying(cluster)
<1>1. 1 \in DOMAIN round.items /\ Item = round.items[1].conf
  BY TailItems DEF Item, ResolverType
<1>2. /\ round.items[1].obj \in There(cluster)
      /\ round.items[1].conf = Says(cluster, round.items[1].obj)
  BY <1>1 DEF SnapInv, ItemsSound
<1> QED BY <1>1, <1>2 DEF Saying

LEMMA BackedMore ==
  ASSUME ResolverType, NEW c, NEW d \in Saying(c), NEW U, U = AddTarget(round.targets, d),
         NEW B, Backed(c, round.targets, round.byIP),
         \A ip \in DOMAIN B :
           \/ ip \in DOMAIN round.byIP /\ B[ip] = round.byIP[ip]
           \/ ~NoBackend(d) /\ ip \in DOMAIN c.eps[d.service] /\ B[ip] = RouteInfo(d)
  PROVE  Backed(c, U, B)
<1>1. round.targets \in Seq(Targets)
  BY DEF ResolverType, RoundShape
<1>2. \A t \in ToSet(U) : t \in ToSet(round.targets) \/ (Polled(d) /\ t = Target(d))
  BY <1>1, AddTargetFacts
<1>3. \A t \in ToSet(U) : \E x \in Saying(c) : Polled(x) /\ t = Target(x)
  BY <1>2 DEF Backed
<1>4. \A ip \in DOMAIN B : \E x \in Saying(c) :
        ~NoBackend(x) /\ ip \in DOMAIN c.eps[x.service] /\ B[ip] = RouteInfo(x)
  BY DEF Backed
<1> QED BY <1>3, <1>4 DEF Backed

LEMMA ItemSnap ==
  ASSUME ResolverType, SeriesInv, SnapInv, ItemPolledOnly \/ ItemEndpoints \/ ItemFails
  PROVE  SnapInv'
<1> DEFINE more == AddTarget(round.targets, Item)
<1>0. /\ rpc = "items" /\ round.items # <<>> /\ UNCHANGED <<cluster, snap, stale>>
  BY DEF ItemPolledOnly, ItemEndpoints, ItemFails, InItem
<1>1. SnapSound'
  BY <1>0 DEF SnapInv, SnapSound
<1>2. /\ ToSet(round.targets) \subseteq ToSet(more)
      /\ Polled(Item) => \E t \in ToSet(more) : SamePlace(Item, t)
  <2>1. round.targets \in Seq(Targets)
    BY DEF ResolverType, RoundShape
  <2> QED BY <2>1, AddTargetFacts
<1>3. touched = {} => Backed(cluster, round.targets, round.byIP) /\ Item \in Saying(cluster)
  BY <1>0, ItemCurrent DEF SnapInv, ItemsSound
<1>4. CASE ItemPolledOnly \/ ItemFails
  <2>1. /\ round'.targets = more /\ round'.items = Tail(round.items)
        /\ round'.byIP = round.byIP /\ rpc' = "items"
    BY <1>0, <1>4 DEF ItemPolledOnly, ItemFails, ResolverType, RoundShape
  <2>2. Covered(cluster, Item, more, round.byIP, touched') /\ touched \subseteq touched'
    <3>1. CASE ItemPolledOnly
      <4>1. NoBackend(Item) /\ touched' = touched
        BY <3>1 DEF ItemPolledOnly
      <4> QED BY <1>2, <4>1 DEF Covered
    <3>2. CASE ItemFails
      <4>1. touched' = touched \cup {Item.service}
        BY <3>2 DEF ItemFails
      <4> QED BY <1>2, <4>1 DEF Covered
    <3> QED BY <1>4, <3>1, <3>2
  <2>3. touched' = {} => Backed(cluster, more, round.byIP)
    <3>1. SUFFICES ASSUME touched' = {} PROVE Backed(cluster, more, round.byIP)
      OBVIOUS
    <3>2. touched = {}
      BY <2>2, <3>1
    <3> QED BY <1>3, <3>2, BackedMore
  <2> HIDE DEF more
  <2>4. /\ \A i \in DOMAIN Tail(round.items) : Tail(round.items)[i].obj \notin touched' =>
             /\ Tail(round.items)[i].obj \in There(cluster)
             /\ Tail(round.items)[i].conf = Says(cluster, Tail(round.items)[i].obj)
        /\ \A o \in There(cluster) \ touched' :
             \/ \E i \in DOMAIN Tail(round.items) : Tail(round.items)[i].obj = o
             \/ Covered(cluster, Says(cluster, o), more, round.byIP, touched')
    BY <1>0, <1>2, <2>2, ItemDone
  <2>5. ItemsSound'
    BY <1>0, <2>1, <2>3, <2>4 DEF ItemsSound
  <2> QED BY <1>1, <2>1, <2>5 DEF SnapInv, ListSound, Listed
<1>5. CASE ItemEndpoints
  <2> DEFINE e == cluster.eps[Item.service]
             info == [ip \in DOMAIN e |-> RouteInfo(Item)]
             byIP == Over(info, round.byIP)
  <2>1. /\ round'.targets = more /\ round'.items = round.items
        /\ round'.byIP = byIP /\ rpc' = "walk" /\ UNCHANGED touched /\ ~NoBackend(Item)
    BY <1>0, <1>5 DEF ItemEndpoints, ResolverType, RoundShape
  <2>2. /\ DOMAIN byIP = DOMAIN e \cup DOMAIN round.byIP
        /\ \A ip \in DOMAIN byIP : IF ip \in DOMAIN e THEN byIP[ip] = RouteInfo(Item)
                                   ELSE byIP[ip] = round.byIP[ip]
    BY DEF Over
  <2>3. Covered(cluster, Item, more, byIP, touched)
    BY <1>2, <2>2 DEF Covered
  <2> HIDE DEF byIP
  <2>4. touched = {} => Backed(cluster, more, byIP)
    <3>1. SUFFICES ASSUME touched = {} PROVE Backed(cluster, more, byIP)
      OBVIOUS
    <3>2. \A ip \in DOMAIN byIP :
            \/ ip \in DOMAIN round.byIP /\ byIP[ip] = round.byIP[ip]
            \/ ~NoBackend(Item) /\ ip \in DOMAIN e /\ byIP[ip] = RouteInfo(Item)
      BY <2>1, <2>2
    <3>3. Backed(cluster, round.targets, round.byIP) /\ Item \in Saying(cluster)
      BY <1>3, <3>1
    <3> HIDE DEF info
    <3> QED BY <3>2, <3>3, BackedMore
  <2> HIDE DEF more, e
  <2>5. Item' = Item
    BY <2>1 DEF Item
  <2>6. /\ \A i \in DOMAIN round.items : round.items[i].obj \notin touched =>
             /\ round.items[i].obj \in There(cluster)
             /\ round.items[i].conf = Says(cluster, round.items[i].obj)
        /\ \A o \in There(cluster) \ touched :
             \/ \E i \in DOMAIN round.items : round.items[i].obj = o
             \/ Covered(cluster, Says(cluster, o), round.targets, round.byIP, touched)
    BY <1>0 DEF SnapInv, ItemsSound
  <2>7. \A o \in There(cluster) \ touched :
          Covered(cluster, Says(cluster, o), round.targets, round.byIP, touched) =>
            Covered(cluster, Says(cluster, o), more, byIP, touched)
    <3>1. ASSUME NEW o \in There(cluster) \ touched,
                 Covered(cluster, Says(cluster, o), round.targets, round.byIP, touched)
          PROVE  Covered(cluster, Says(cluster, o), more, byIP, touched)
      <4>1. Says(cluster, o) \in Confs
        BY SaysConf DEF ResolverType
      <4>2. DOMAIN round.byIP \subseteq DOMAIN byIP
        BY <2>2
      <4> QED BY <1>2, <3>1, <4>1, <4>2, CoveredStays
    <3> QED BY <3>1
  <2>8. ItemsSound'
    BY <1>0, <2>1, <2>3, <2>4, <2>5, <2>6, <2>7 DEF ItemsSound
  <2> QED BY <1>1, <2>1, <2>8 DEF SnapInv, ListSound, Listed
<1> QED BY <1>4, <1>5

LEMMA WalkSnap ==
  ASSUME ResolverType, SeriesInv, SnapInv, WalkUp \/ WalkFails \/ WalkEnds
  PROVE  SnapInv'
<1>0. rpc = "walk" /\ UNCHANGED <<cluster, snap, stale, touched>> /\ round.items # <<>>
  BY DEF WalkUp, WalkFails, WalkEnds, InWalk, ResolverType, WalkShape
<1>1. SnapSound'
  BY <1>0 DEF SnapInv, SnapSound
<1>2. \/ /\ rpc' = "items" /\ round'.items = Tail(round.items)
      \/ /\ rpc' = "walk" /\ round'.items = round.items
  BY <1>0 DEF WalkUp, WalkFails, WalkEnds, Walked, ResolverType, RoundShape
<1>3. round'.targets = round.targets /\ round'.byIP = round.byIP
  BY DEF WalkUp, WalkFails, WalkEnds, Walked, ResolverType, RoundShape
<1>4. CASE rpc' = "walk" /\ round'.items = round.items
  <2>1. Item' = Item
    BY <1>4 DEF Item
  <2>2. ItemsSound'
    BY <1>0, <1>3, <1>4, <2>1 DEF SnapInv, ItemsSound
  <2> QED BY <1>1, <1>4, <2>2 DEF SnapInv, ListSound, Listed
<1>5. CASE rpc' = "items" /\ round'.items = Tail(round.items)
  <2>1. Covered(cluster, Item, round.targets, round.byIP, touched)
    BY <1>0 DEF SnapInv, ItemsSound
  <2>2. /\ \A i \in DOMAIN Tail(round.items) : Tail(round.items)[i].obj \notin touched =>
             /\ Tail(round.items)[i].obj \in There(cluster)
             /\ Tail(round.items)[i].conf = Says(cluster, Tail(round.items)[i].obj)
        /\ \A o \in There(cluster) \ touched :
             \/ \E i \in DOMAIN Tail(round.items) : Tail(round.items)[i].obj = o
             \/ Covered(cluster, Says(cluster, o), round.targets, round.byIP, touched)
    BY <1>0, <2>1, ItemDone
  <2>3. touched = {} => Backed(cluster, round.targets, round.byIP)
    BY <1>0 DEF SnapInv, ItemsSound
  <2>4. ItemsSound'
    BY <1>0, <1>3, <1>5, <2>2, <2>3 DEF ItemsSound
  <2> QED BY <1>1, <1>5, <2>4 DEF SnapInv, ListSound, Listed
<1> QED BY <1>2, <1>4, <1>5

LEMMA FillSnap ==
  ASSUME ResolverType, SnapInv, Install \/ Fill \/ Finish
  PROVE  SnapInv'
<1>1. rpc' \in {"fill", "idle"} /\ UNCHANGED cluster
  BY DEF Install, Fill, Finish
<1>2. ListSound' /\ ItemsSound'
  BY <1>1 DEF ListSound, Listed, ItemsSound
<1>3. SnapSound'
  <2>1. CASE Fill \/ Finish
    <3>1. UNCHANGED <<cluster, snap, stale>>
      BY <2>1 DEF Fill, Finish
    <3> QED BY <3>1 DEF SnapInv, SnapSound
  <2>2. CASE Install
    <3>1. /\ rpc = "items" /\ round.items = <<>> /\ stale' = touched
          /\ snap'.byIP = round.byIP /\ snap'.targets = round.targets
      BY <2>2 DEF Install
    <3> QED BY <1>1, <3>1 DEF SnapInv, ItemsSound, SnapSound
  <2> QED BY <2>1, <2>2
<1> QED BY <1>2, <1>3 DEF SnapInv

LEMMA SnapStep == ASSUME Types, SeriesInv, SnapInv, [Next]_vars PROVE SnapInv'
<1>1. CASE ResolverStep
  BY <1>1, ListSnap, ItemSnap, WalkSnap, FillSnap DEF Types, ResolverStep
<1>2. CASE ClusterChange
  BY <1>2, SnapChange DEF Types
<1>3. CASE UNCHANGED unspent
  BY <1>3, SnapFrame DEF unspent
<1> QED BY <1>1, <1>2, <1>3, Frames

LEMMA SnapInit == Init => SnapInv
<1> SUFFICES ASSUME Init PROVE SnapInv
  OBVIOUS
<1>1. /\ rpc = "idle" /\ stale = ObjSet \cup Services
      /\ snap.targets = <<>> /\ DOMAIN snap.byIP = {}
  BY DEF Init, ResolverInit, Empty
<1>2. There(cluster) \ stale = {}
  BY <1>1 DEF There
<1>3. ToSet(snap.targets) = {}
  BY <1>1 DEF ToSet
<1>4. Backed(cluster, snap.targets, snap.byIP)
  BY <1>1, <1>3 DEF Backed
<1> QED BY <1>1, <1>2, <1>4 DEF SnapInv, ListSound, Listed, ItemsSound, SnapSound

\* The snapshot agrees with the cluster on everything that has not changed since
\* the round that built it began: no polled ModelRoute is missing from the poll
\* list, no pod of a Service that could be read is without a route, and while
\* nothing at all has changed nothing else is in either (build and refresh).
THEOREM SnapshotAgrees == Spec => []SnapshotCurrent
<1>1. Spec => []SeriesInv
  BY SeriesInit, SeriesStep, TypesHold, PTL DEF Spec
<1>2. Spec => []SnapInv
  BY <1>1, SnapInit, SnapStep, TypesHold, PTL DEF Spec
<1>3. SnapInv => SnapshotCurrent
  <2>1. /\ Present = There(cluster) /\ Current = Saying(cluster)
        /\ \A o : Winner(o) = Says(cluster, o)
    BY DEF Present, There, Current, Saying, Winner, Says, Holders, Having
  <2>2. SUFFICES ASSUME SnapInv PROVE SnapshotCurrent
    OBVIOUS
  <2>3. stale = {} =>
          /\ \A t \in ToSet(snap.targets) : \E d \in Saying(cluster) : Polled(d) /\ t = Target(d)
          /\ \A ip \in DOMAIN snap.byIP : \E d \in Saying(cluster) :
               /\ ~NoBackend(d) /\ ip \in DOMAIN cluster.eps[d.service]
               /\ snap.byIP[ip] = RouteInfo(d)
    BY <2>2 DEF SnapInv, SnapSound, Backed
  <2>4. ASSUME NEW o \in There(cluster) \ stale
        PROVE  LET c == Says(cluster, o) IN
                 /\ Polled(c) => \E t \in ToSet(snap.targets) : SamePlace(c, t)
                 /\ ~NoBackend(c) /\ c.service \notin stale =>
                      \A ip \in DOMAIN cluster.eps[c.service] :
                        /\ ip \in DOMAIN snap.byIP
                        /\ stale = {} => \E d \in Saying(cluster) :
                             /\ ~NoBackend(d) /\ ip \in DOMAIN cluster.eps[d.service]
                             /\ Lookup(ip) = RouteInfo(d)
    <3> DEFINE c == Says(cluster, o)
    <3>1. Covered(cluster, c, snap.targets, snap.byIP, stale)
      BY <2>2, <2>4 DEF SnapInv, SnapSound
    <3>2. Polled(c) => \E t \in ToSet(snap.targets) : SamePlace(c, t)
      BY <3>1 DEF Covered
    <3>3. ASSUME ~NoBackend(c), c.service \notin stale, NEW ip \in DOMAIN cluster.eps[c.service]
          PROVE  ip \in DOMAIN snap.byIP
      BY <3>1, <3>3 DEF Covered
    <3>4. ASSUME NEW ip \in DOMAIN snap.byIP, stale = {}
          PROVE  \E d \in Saying(cluster) :
                   /\ ~NoBackend(d) /\ ip \in DOMAIN cluster.eps[d.service]
                   /\ Lookup(ip) = RouteInfo(d)
      BY <2>3, <3>4 DEF Lookup
    <3> HIDE DEF c
    <3>5. ~NoBackend(c) /\ c.service \notin stale =>
            \A ip \in DOMAIN cluster.eps[c.service] :
              /\ ip \in DOMAIN snap.byIP
              /\ stale = {} => \E d \in Saying(cluster) :
                   /\ ~NoBackend(d) /\ ip \in DOMAIN cluster.eps[d.service]
                   /\ Lookup(ip) = RouteInfo(d)
      BY <3>3, <3>4
    <3> QED BY <3>2, <3>5 DEF c
  <2> QED BY <2>1, <2>3, <2>4 DEF SnapshotCurrent
<1> QED BY <1>2, <1>3, PTL
=============================================================================
