-------------------------- MODULE RetentionProofs --------------------------
(***************************************************************************)
(* Proofs about Retention, for any files, sizes, thresholds and retention  *)
(* times and any number of days, passes, failures and restarts: a batch    *)
(* frees what it set out to free, only a restart makes one ask for too     *)
(* much, prune keeps off the files housekeep is working on, and disk       *)
(* pressure takes archives before details and old before new.              *)
(***************************************************************************)
EXTENDS Retention, FiniteSetTheorems, WellFoundedInduction, TLAPS

(***************************************************************************)
(* Files and their sizes.                                                  *)
(***************************************************************************)
LEMMA FileFields ==
  ASSUME NEW f \in Files
  PROVE  /\ f.kind \in Kinds /\ f.day \in Nat /\ f.day \in Days /\ f.day <= MaxDay
         /\ f = [kind |-> f.kind, day |-> f.day]
  BY RetentionAssumption DEF Files, Days

LEMMA NoFileIsNone == NoFile \notin Files
  BY DEF NoFile, Files, Kinds

LEMMA FilesFinite == IsFiniteSet(Files)
<1>1. IsFiniteSet(Days)
  BY RetentionAssumption, FS_Interval DEF Days
<1>2. IsFiniteSet(Kinds)
  <2>1. /\ IsFiniteSet({"tar"})
    BY FS_Singleton
  <2>2. IsFiniteSet({"tar"} \cup {"gz"})
    BY <2>1, FS_AddElement
  <2>3. IsFiniteSet(({"tar"} \cup {"gz"}) \cup {"raw"})
    BY <2>2, FS_AddElement
  <2>4. IsFiniteSet((({"tar"} \cup {"gz"}) \cup {"raw"}) \cup {"jsonl"})
    BY <2>3, FS_AddElement
  <2>5. IsFiniteSet(((({"tar"} \cup {"gz"}) \cup {"raw"}) \cup {"jsonl"}) \cup {"parquet"})
    BY <2>4, FS_AddElement
  <2>6. ((({"tar"} \cup {"gz"}) \cup {"raw"}) \cup {"jsonl"}) \cup {"parquet"} = Kinds
    BY DEF Kinds
  <2> QED BY <2>5, <2>6
<1> DEFINE pair == [f \in Files |-> <<f.kind, f.day>>]
<1>3. pair \in [Files -> Kinds \X Days]
  BY FileFields
<1>4. \A f, g \in Files : pair[f] = pair[g] => f = g
  BY FileFields
<1>5. pair \in Injection(Files, Kinds \X Days)
  BY <1>3, <1>4 DEF Injection, IsInjective
<1> HIDE DEF pair
<1> QED BY <1>1, <1>2, <1>5, FS_Product, FS_Injection

LEMMA Times ==
  ASSUME NEW a \in Nat, NEW m \in Nat, NEW n \in Nat
  PROVE  /\ a * m \in Nat /\ a * (m + n) = a * m + a * n
         /\ m <= n => a * m <= a * n
  BY SMT

Archives(S) == {f \in S : ~IsDetails(f)}
Details(S) == {f \in S : IsDetails(f)}

LEMMA Parts ==
  ASSUME NEW S \in SUBSET Files
  PROVE  /\ IsFiniteSet(Archives(S)) /\ IsFiniteSet(Details(S))
         /\ Cardinality(Archives(S)) \in Nat /\ Cardinality(Details(S)) \in Nat
         /\ SizeOf(S) = ArchiveSize * Cardinality(Archives(S)) + DetailsSize * Cardinality(Details(S))
         /\ SizeOf(S) \in Nat
<1>1. IsFiniteSet(S)
  BY FilesFinite, FS_Subset
<1>2. Archives(S) \in SUBSET S /\ Details(S) \in SUBSET S
  BY DEF Archives, Details
<1>3. IsFiniteSet(Archives(S)) /\ IsFiniteSet(Details(S))
  BY <1>1, <1>2, FS_Subset
<1>4. Cardinality(Archives(S)) \in Nat /\ Cardinality(Details(S)) \in Nat
  BY <1>3, FS_CardinalityType
<1>5. SizeOf(S) = ArchiveSize * Cardinality(Archives(S)) + DetailsSize * Cardinality(Details(S))
  BY DEF SizeOf, Archives, Details
<1>6. SizeOf(S) \in Nat
  BY <1>4, <1>5, RetentionAssumption, Times
<1> QED BY <1>3, <1>4, <1>5, <1>6

LEMMA SizeAdd ==
  ASSUME NEW S \in SUBSET Files, NEW f \in Files, f \notin S
  PROVE  SizeOf(S \cup {f}) = SizeOf(S) + Size(f) /\ Size(f) \in Nat \ {0}
<1>0. S \cup {f} \in SUBSET Files /\ ArchiveSize \in Nat \ {0} /\ DetailsSize \in Nat \ {0}
  BY RetentionAssumption
<1>1. CASE IsDetails(f)
  <2>1. Archives(S \cup {f}) = Archives(S) /\ Details(S \cup {f}) = Details(S) \cup {f}
    BY <1>1 DEF Archives, Details
  <2>2. Cardinality(Details(S) \cup {f}) = Cardinality(Details(S)) + 1
    BY Parts, FS_AddElement DEF Details
  <2>3. DetailsSize * (Cardinality(Details(S)) + 1) = DetailsSize * Cardinality(Details(S)) + DetailsSize
    BY <1>0, Parts, Times
  <2>4. /\ SizeOf(S \cup {f}) = ArchiveSize * Cardinality(Archives(S)) + DetailsSize * (Cardinality(Details(S)) + 1)
        /\ SizeOf(S) = ArchiveSize * Cardinality(Archives(S)) + DetailsSize * Cardinality(Details(S))
    BY <1>0, <2>1, <2>2, Parts
  <2>5. /\ ArchiveSize * Cardinality(Archives(S)) \in Nat /\ DetailsSize * Cardinality(Details(S)) \in Nat
    BY <1>0, Parts, Times
  <2> QED BY <1>0, <1>1, <2>3, <2>4, <2>5 DEF Size
<1>2. CASE ~IsDetails(f)
  <2>1. Details(S \cup {f}) = Details(S) /\ Archives(S \cup {f}) = Archives(S) \cup {f}
    BY <1>2 DEF Archives, Details
  <2>2. Cardinality(Archives(S) \cup {f}) = Cardinality(Archives(S)) + 1
    BY Parts, FS_AddElement DEF Archives
  <2>3. ArchiveSize * (Cardinality(Archives(S)) + 1) = ArchiveSize * Cardinality(Archives(S)) + ArchiveSize
    BY <1>0, Parts, Times
  <2>4. /\ SizeOf(S \cup {f}) = ArchiveSize * (Cardinality(Archives(S)) + 1) + DetailsSize * Cardinality(Details(S))
        /\ SizeOf(S) = ArchiveSize * Cardinality(Archives(S)) + DetailsSize * Cardinality(Details(S))
    BY <1>0, <2>1, <2>2, Parts
  <2>5. /\ ArchiveSize * Cardinality(Archives(S)) \in Nat /\ DetailsSize * Cardinality(Details(S)) \in Nat
    BY <1>0, Parts, Times
  <2> QED BY <1>0, <1>2, <2>3, <2>4, <2>5 DEF Size
<1> QED BY <1>1, <1>2

LEMMA SizeDrop ==
  ASSUME NEW S \in SUBSET Files, NEW f \in S
  PROVE  SizeOf(S) = SizeOf(S \ {f}) + Size(f)
<1>1. S = (S \ {f}) \cup {f} /\ S \ {f} \in SUBSET Files /\ f \in Files
  OBVIOUS
<1> QED BY <1>1, SizeAdd

LEMMA SizeEmpty == SizeOf({}) = 0
<1>1. Archives({}) = {} /\ Details({}) = {}
  BY DEF Archives, Details
<1> QED BY <1>1, Parts, FS_EmptySet, RetentionAssumption

LEMMA SizeMono ==
  ASSUME NEW T \in SUBSET Files, NEW S \in SUBSET T
  PROVE  SizeOf(S) <= SizeOf(T)
<1>0. S \in SUBSET Files /\ ArchiveSize \in Nat /\ DetailsSize \in Nat
  BY RetentionAssumption
<1>1. Archives(S) \in SUBSET Archives(T) /\ Details(S) \in SUBSET Details(T)
  BY DEF Archives, Details
<1>2. /\ Cardinality(Archives(S)) <= Cardinality(Archives(T))
      /\ Cardinality(Details(S)) <= Cardinality(Details(T))
  BY <1>1, Parts, FS_Subset
<1>3. /\ ArchiveSize * Cardinality(Archives(S)) <= ArchiveSize * Cardinality(Archives(T))
      /\ DetailsSize * Cardinality(Details(S)) <= DetailsSize * Cardinality(Details(T))
  BY <1>0, <1>2, Parts, Times
<1>4. /\ ArchiveSize * Cardinality(Archives(S)) \in Nat /\ ArchiveSize * Cardinality(Archives(T)) \in Nat
      /\ DetailsSize * Cardinality(Details(S)) \in Nat /\ DetailsSize * Cardinality(Details(T)) \in Nat
  BY <1>0, Parts, Times
<1> QED BY <1>0, <1>3, <1>4, Parts

LEMMA SizeUnion ==
  ASSUME NEW S \in SUBSET Files, NEW T \in SUBSET Files
  PROVE  SizeOf(S \cup T) <= SizeOf(S) + SizeOf(T)
<1>0. S \cup T \in SUBSET Files /\ ArchiveSize \in Nat /\ DetailsSize \in Nat
  BY RetentionAssumption
<1>1. /\ Archives(S \cup T) = Archives(S) \cup Archives(T)
      /\ Details(S \cup T) = Details(S) \cup Details(T)
  BY DEF Archives, Details
<1>2. ASSUME NEW X, NEW Y, IsFiniteSet(X), IsFiniteSet(Y)
      PROVE  Cardinality(X \cup Y) <= Cardinality(X) + Cardinality(Y)
  <2>1. IsFiniteSet(X \cap Y)
    BY <1>2, FS_Intersection
  <2>2. /\ Cardinality(X) \in Nat /\ Cardinality(Y) \in Nat
        /\ Cardinality(X \cap Y) \in Nat
    BY <1>2, <2>1, FS_CardinalityType
  <2>3. Cardinality(X \cup Y) = Cardinality(X) + Cardinality(Y) - Cardinality(X \cap Y)
    BY <1>2, FS_Union
  <2> QED BY <2>2, <2>3
<1>3. /\ Cardinality(Archives(S \cup T)) <= Cardinality(Archives(S)) + Cardinality(Archives(T))
      /\ Cardinality(Details(S \cup T)) <= Cardinality(Details(S)) + Cardinality(Details(T))
  BY <1>1, <1>2, Parts
<1>4. /\ ArchiveSize * Cardinality(Archives(S \cup T))
           <= ArchiveSize * Cardinality(Archives(S)) + ArchiveSize * Cardinality(Archives(T))
      /\ DetailsSize * Cardinality(Details(S \cup T))
           <= DetailsSize * Cardinality(Details(S)) + DetailsSize * Cardinality(Details(T))
  <2>1. ASSUME NEW a \in Nat, NEW x \in Nat, NEW m \in Nat, NEW n \in Nat, x <= m + n
        PROVE  a * x <= a * m + a * n
    BY <2>1, Times
  <2> QED BY <1>0, <1>3, <2>1, Parts
<1>5. /\ ArchiveSize * Cardinality(Archives(S)) \in Nat /\ ArchiveSize * Cardinality(Archives(T)) \in Nat
      /\ DetailsSize * Cardinality(Details(S)) \in Nat /\ DetailsSize * Cardinality(Details(T)) \in Nat
      /\ ArchiveSize * Cardinality(Archives(S \cup T)) \in Nat
      /\ DetailsSize * Cardinality(Details(S \cup T)) \in Nat
  BY <1>0, Parts, Times
<1> QED BY <1>0, <1>4, <1>5, Parts
-----------------------------------------------------------------------------
(***************************************************************************)
(* The order of pruneCandidates.  It never lists a raw file, and among the *)
(* others every set of files has a first one.                              *)
(***************************************************************************)
Listable == {f \in Files : f.kind # "raw"}

Rank(f) ==
  (IF IsDetails(f) THEN 2 * (MaxDay + 1) ELSE 0)
    + 2 * f.day + (IF f.kind \in {"tar", "parquet"} THEN 1 ELSE 0)

LEMMA LeastNatural ==
  ASSUME NEW T \in SUBSET Nat, T # {}
  PROVE  \E m \in T : \A n \in T : m <= n
<1>1. \E m \in T : \A n \in T : ~(<<n, m>> \in OpToRel(<, Nat))
  BY NatLessThanWellFounded, WFMin
<1>2. PICK m \in T : \A n \in T : ~(<<n, m>> \in OpToRel(<, Nat))
  BY <1>1
<1>3. \A n \in T : ~(n < m)
  BY <1>2 DEF OpToRel
<1> QED BY <1>3

LEMMA BeforeByRank ==
  ASSUME NEW f \in Listable, NEW g \in Listable
  PROVE  /\ Rank(f) \in Nat
         /\ Rank(f) = Rank(g) => f = g
         /\ Rank(f) < Rank(g) => Before(f, g)
<1>1. /\ f.kind \in {"tar", "gz", "jsonl", "parquet"} /\ f.day \in 0..MaxDay
      /\ g.kind \in {"tar", "gz", "jsonl", "parquet"} /\ g.day \in 0..MaxDay
      /\ f = [kind |-> f.kind, day |-> f.day] /\ g = [kind |-> g.kind, day |-> g.day]
      /\ MaxDay \in Nat
  BY FileFields, RetentionAssumption DEF Listable, Kinds, Days
<1>2. Rank(f) \in Nat
  BY <1>1 DEF Rank
<1>3. Rank(f) = Rank(g) => f.kind = g.kind /\ f.day = g.day
  BY <1>1 DEF Rank, IsDetails
<1>4. Rank(f) < Rank(g) => Before(f, g)
  BY <1>1 DEF Rank, IsDetails, Before
<1> QED BY <1>1, <1>2, <1>3, <1>4

LEMMA FirstIsFirst ==
  ASSUME NEW S \in SUBSET Listable, S # {}
  PROVE  First(S) \in S /\ \A g \in S \ {First(S)} : Before(First(S), g)
<1> DEFINE R == {Rank(f) : f \in S}
<1>1. R \in SUBSET Nat /\ R # {}
  BY BeforeByRank
<1>2. PICK m \in R : \A n \in R : m <= n
  BY <1>1, LeastNatural
<1>3. PICK f \in S : Rank(f) = m
  BY <1>2
<1>4. \A g \in S \ {f} : Before(f, g)
  <2> SUFFICES ASSUME NEW g \in S, g # f PROVE Before(f, g)
    OBVIOUS
  <2>1. Rank(f) <= Rank(g) /\ Rank(f) # Rank(g) /\ Rank(f) \in Nat /\ Rank(g) \in Nat
    BY <1>2, <1>3, BeforeByRank
  <2>2. Rank(f) < Rank(g)
    BY <2>1
  <2> QED BY <2>2, BeforeByRank
<1>5. \E x \in S : \A g \in S \ {x} : Before(x, g)
  BY <1>3, <1>4
<1> QED BY <1>5, Zenon DEF First
-----------------------------------------------------------------------------
(***************************************************************************)
(* Types.                                                                  *)
(***************************************************************************)
LEMMA Conversions ==
  ASSUME NEW f \in Files
  PROVE  /\ Output(f) \in Files /\ Source(f) \in Files
         /\ Output(f).day = f.day /\ Output(f).kind \in {"gz", "parquet"}
         /\ Source(f).day = f.day /\ Source(f).kind \in {"raw", "jsonl"}
         /\ f.kind \in {"raw", "jsonl"} => Source(Output(f)) = f
         /\ f.kind = "raw" => Output(f).kind = "gz"
         /\ f.kind = "jsonl" => Output(f).kind = "parquet"
<1>1. f.kind \in Kinds /\ f.day \in Days /\ f = [kind |-> f.kind, day |-> f.day]
  BY FileFields
<1>2. \A g \in Files :
        /\ Output(g) = [kind |-> IF g.kind = "raw" THEN "gz" ELSE "parquet", day |-> g.day]
        /\ Source(g) = [kind |-> IF g.kind = "gz" THEN "raw" ELSE "jsonl", day |-> g.day]
  BY DEF Output, Source, Files
<1>3. /\ \A d \in Days, k \in Kinds : [kind |-> k, day |-> d] \in Files
      /\ {"gz", "parquet", "raw", "jsonl"} \subseteq Kinds
  BY DEF Files, Kinds
<1>4. /\ Output(f) \in Files /\ Source(f) \in Files
      /\ Output(f).day = f.day /\ Output(f).kind \in {"gz", "parquet"}
      /\ Source(f).day = f.day /\ Source(f).kind \in {"raw", "jsonl"}
      /\ f.kind = "raw" => Output(f).kind = "gz"
      /\ f.kind = "jsonl" => Output(f).kind = "parquet"
  BY <1>1, <1>2, <1>3
<1>5. Source(Output(f)) = [kind |-> IF Output(f).kind = "gz" THEN "raw" ELSE "jsonl", day |-> f.day]
  BY <1>2, <1>4
<1>6. f.kind \in {"raw", "jsonl"} => Source(Output(f)) = f
  BY <1>1, <1>4, <1>5
<1> QED BY <1>4, <1>6

\* The space statfs shows is a number, and so is what a batch asks for.
LEMMA SpaceTypes ==
  ASSUME TypeOK
  PROVE  /\ {p.file : p \in pending} \in SUBSET Files
         /\ Used \in Nat /\ Visible \in Nat /\ OldAgeFreed \in Nat
         /\ AssumedUsed \in Nat
         /\ DiskPressure => Need \in Nat \ {0}
<1>1. /\ {p.file : p \in pending} \in SUBSET Files
      /\ {p.file : p \in {q \in pending : q.by = "age" /\ q.age > 0}} \in SUBSET Files
  BY DEF TypeOK
<1>2. SizeOf({p.file : p \in pending}) \in Nat /\ OldAgeFreed \in Nat
  BY <1>1, Parts DEF OldAgeFreed
<1>3. SizeOf(files) \in Nat /\ other \in Nat /\ Limit \in Nat /\ ageFreed \in Nat
  BY RetentionAssumption, Parts DEF TypeOK
<1>4. Used \in Nat /\ Visible \in Nat
  BY <1>2, <1>3 DEF Used, Visible
<1>5. AssumedUsed \in Nat
  BY <1>3, <1>4 DEF AssumedUsed
<1> QED BY <1>1, <1>2, <1>3, <1>4, <1>5 DEF DiskPressure, Need

\* What the removal of a file by prune leaves of the types.
LEMMA RemoveTypes ==
  ASSUME TypeOK, pc \in {"age", "disk"}, NEW f,
         \/ /\ f \in files /\ files' = files \ {f}
            /\ pending' = pending \cup {[file |-> f, age |-> 0, by |-> pc]} /\ fails' = fails
         \/ UNCHANGED <<files, pending, fails>>
         \/ Quiet /\ fails' = fails + 1 /\ UNCHANGED <<files, pending>>
  PROVE  /\ files' \subseteq Files /\ fails' \in 0..MaxEvents
         /\ pending' \subseteq [file : Files, age : 0..Lag, by : {"age", "disk"}]
<1>1. fails + 1 \in 0..MaxEvents \/ ~Quiet
  BY RetentionAssumption DEF TypeOK, Quiet
<1>2. 0 \in 0..Lag
  BY RetentionAssumption
<1> QED BY <1>1, <1>2 DEF TypeOK

LEMMA TypeInit == Init => TypeOK
<1> SUFFICES ASSUME Init PROVE TypeOK
  OBVIOUS
<1>1. /\ FirstDay \in Days /\ InitFiles \subseteq Files /\ 0 \in 0..Interval
      /\ Cooldown \in 0..Cooldown /\ 0 \in 0..MaxEvents
  BY RetentionAssumption
<1>2. duckDB \in BOOLEAN /\ raced \in BOOLEAN
  BY DEF Init
<1> QED BY <1>1, <1>2 DEF Init, TypeOK

LEMMA QuietCounts ==
  ASSUME TypeOK, Quiet
  PROVE  changes + 1 \in 0..MaxEvents /\ fails + 1 \in 0..MaxEvents /\ restarts + 1 \in 0..MaxEvents
  BY RetentionAssumption DEF TypeOK, Quiet

LEMMA TypeStep ==
  ASSUME TypeOK, [Next]_vars
  PROVE  TypeOK'
<1> USE DEF env, house, locals, clock
<1>0. /\ duckDB \in BOOLEAN /\ raced \in BOOLEAN /\ Lag \in Nat /\ MaxDay \in Nat
      /\ Interval \in Nat /\ Cooldown \in Nat /\ KeepDays \in Int /\ DetailsKeepDays \in Int
      /\ \A d \in Days : d \in Int
  BY RetentionAssumption DEF TypeOK, Days
<1>b. duckDB' \in BOOLEAN /\ raced' \in BOOLEAN
  <2>1. CASE UNCHANGED <<duckDB, raced>>
    BY <1>0, <2>1
  <2>2. CASE Restart
    BY <2>2 DEF Restart, Return
  <2>3. ASSUME NEW f \in files, DropSource(f) PROVE duckDB' \in BOOLEAN /\ raced' \in BOOLEAN
    BY <1>0, <2>3 DEF DropSource
  <2>4. CASE duckDB' = duckDB /\ Return
    BY <1>0, <2>4 DEF Return
  <2> QED BY <2>1, <2>2, <2>3, <2>4 DEF Next, vars, Midnight, Change, Tick, Show, HousekeepBegin,
          ConvertEnd, Pack, ConvertBegin, Prune, PassBegin, List, AgeRemove, Measure, DiskRemove,
          BatchEnd
<1>1. CASE UNCHANGED vars
  BY <1>1 DEF vars, TypeOK
<1>2. CASE Midnight
  BY <1>0, <1>b, <1>2 DEF Midnight, TypeOK, Days
<1>3. CASE Change
  BY <1>b, <1>3, QuietCounts DEF Change, TypeOK
<1>4. CASE Tick
  <2>1. pending' \subseteq [file : Files, age : 0..Lag, by : {"age", "disk"}]
    BY <1>0, <1>4 DEF Tick, TypeOK
  <2>2. until' \in 0..Interval /\ since' \in 0..Cooldown
    BY <1>0, <1>4 DEF Tick, TypeOK
  <2> QED BY <1>b, <1>4, <2>1, <2>2 DEF Tick, TypeOK
<1>5. ASSUME NEW p \in pending, Show(p) PROVE TypeOK'
  BY <1>b, <1>5 DEF Show, TypeOK
<1>6. CASE HousekeepBegin
  BY <1>b, <1>6 DEF HousekeepBegin, TypeOK
<1>7. CASE ConvertEnd
  BY <1>b, <1>7, QuietCounts DEF ConvertEnd, TypeOK
<1>8. ASSUME NEW d \in dirs, Pack(d) PROVE TypeOK'
  <2>1. [kind |-> "tar", day |-> d] \in Files
    BY <1>8 DEF TypeOK, Files, Kinds
  <2> QED BY <1>b, <1>8, <2>1 DEF Pack, TypeOK
<1>9. ASSUME NEW f \in files, ConvertBegin(f) PROVE TypeOK'
  <2>1. f \in Files /\ Output(f) \in Files
    BY <1>9, Conversions DEF TypeOK
  <2> QED BY <1>b, <1>9, <2>1 DEF ConvertBegin, TypeOK
<1>10. ASSUME NEW f \in files, DropSource(f) PROVE TypeOK'
  BY <1>b, <1>10 DEF DropSource, TypeOK
<1>11. CASE PassBegin
  <2>1. aCut' \in Int /\ dCut' \in Int
    BY <1>0, <1>11 DEF PassBegin, TypeOK
  <2>2. until' \in 0..Interval
    BY <1>0, <1>11 DEF PassBegin
  <2> QED BY <1>b, <1>11, <2>1, <2>2 DEF PassBegin, TypeOK
<1>12. CASE List
  BY <1>b, <1>12 DEF List, TypeOK
<1>13. CASE AgeRemove
  <2>1. /\ files' \subseteq Files /\ fails' \in 0..MaxEvents
        /\ pending' \subseteq [file : Files, age : 0..Lag, by : {"age", "disk"}]
    BY <1>13, RemoveTypes DEF AgeRemove, Remove
  <2>2. ageFreed' \in Nat
    BY <1>13, RetentionAssumption DEF AgeRemove, Remove, Size, TypeOK
  <2> QED BY <1>b, <1>13, <2>1, <2>2 DEF AgeRemove, TypeOK
<1>14. CASE Measure
  <2>1. need' \in Nat /\ fails' \in 0..MaxEvents /\ oversized' \in Nat
    BY <1>14, SpaceTypes, QuietCounts DEF Measure, Return, TypeOK
  <2> QED BY <1>0, <1>b, <1>14, <2>1 DEF Measure, Return, TypeOK
<1>15. CASE DiskRemove
  <2>1. /\ files' \subseteq Files /\ fails' \in 0..MaxEvents
        /\ pending' \subseteq [file : Files, age : 0..Lag, by : {"age", "disk"}]
    BY <1>15, RemoveTypes DEF DiskRemove, Remove
  <2>2. freed' \in Nat
    BY <1>15, RetentionAssumption DEF DiskRemove, Remove, Size, TypeOK
  <2> QED BY <1>b, <1>15, <2>1, <2>2 DEF DiskRemove, TypeOK
<1>16. CASE BatchEnd
  BY <1>0, <1>b, <1>16 DEF BatchEnd, Return, TypeOK
<1>17. CASE Restart
  BY <1>0, <1>b, <1>17, QuietCounts DEF Restart, Return, TypeOK
<1> QED BY <1>1, <1>2, <1>3, <1>4, <1>5, <1>6, <1>7, <1>8, <1>9, <1>10, <1>11, <1>12, <1>13,
        <1>14, <1>15, <1>16, <1>17 DEF Next, Prune
-----------------------------------------------------------------------------
(***************************************************************************)
(* A pass of prune.  What it has listed stays clear of what housekeep is   *)
(* working on: a listed output has lost its source for good, and a listed  *)
(* jsonl is one that cannot be converted any more.                         *)
(***************************************************************************)
Listed == expired \cup left

PassOK ==
  /\ pc # "idle" => dCut <= today - DetailsKeepDays /\ until = Interval
  /\ pc \notin {"age", "disk"} => Listed = {}
  /\ pc # "disk" => freed = 0
  /\ pc \in {"idle", "list"} => ageFreed = 0

ListedOK ==
  /\ \A f \in expired : Expired(f)
  /\ \A f \in left : ~Expired(f)
  /\ \A f \in Listed :
       /\ f \in Listable
       /\ f.kind \in {"gz", "parquet"} => Source(f) \notin files
       /\ f.kind = "jsonl" => ~duckDB \/ f.day < dCut

ConvOK ==
  conv # NoFile =>
    /\ conv.kind = "raw" \/ (conv.kind = "jsonl" /\ duckDB)
    /\ conv \notin files => /\ conv.kind = "jsonl" /\ conv.day < today - DetailsKeepDays
                            /\ pc # "idle" => conv.day < dCut

LeftThere == fails = 0 /\ ~raced => left \subseteq files

Reaches == pc = "disk" /\ fails = 0 /\ ~raced => freed + SizeOf(left) >= need

PInv == TypeOK /\ PassOK /\ ListedOK /\ ConvOK /\ LeftThere /\ Reaches

LEMMA PassInit == Init => PInv
<1> SUFFICES ASSUME Init PROVE PInv
  OBVIOUS
<1>1. expired = {} /\ left = {} /\ pc = "idle" /\ freed = 0 /\ ageFreed = 0 /\ conv = NoFile
  BY DEF Init
<1> QED BY <1>1, TypeInit DEF PInv, PassOK, ListedOK, ConvOK, LeftThere, Reaches, Listed

\* Steps that prune and housekeep do not notice.
Around == Midnight \/ Change \/ Tick \/ HousekeepBegin \/ \E p \in pending : Show(p)

LEMMA AroundStep ==
  ASSUME PInv, TypeOK', Around \/ UNCHANGED vars
  PROVE  PInv'
<1> USE DEF env, house, locals, clock
<1>1. /\ UNCHANGED <<files, conv, duckDB, pc, expired, left, aCut, dCut, fails, freed, ageFreed, need>>
      /\ raced' = raced
      /\ today' >= today
      /\ pc # "idle" => until' = until
  BY DEF Around, Midnight, Change, Tick, HousekeepBegin, Show, vars, PInv, TypeOK, Days
<1>2. today \in Int /\ today' \in Int /\ dCut \in Int /\ DetailsKeepDays \in Int
  BY RetentionAssumption DEF PInv, TypeOK, Days
<1>3. PassOK'
  <2>1. pc # "idle" => dCut <= today' - DetailsKeepDays
    <3>1. pc # "idle" => dCut <= today - DetailsKeepDays
      BY DEF PInv, PassOK
    <3>2. today' >= today
      BY <1>1
    <3> SUFFICES ASSUME pc # "idle" PROVE dCut <= today' - DetailsKeepDays
      OBVIOUS
    <3>3. dCut <= today - DetailsKeepDays
      BY <3>1
    <3>4. \A a, b, c, d \in Int : a <= b - d /\ c >= b => a <= c - d
      OBVIOUS
    <3> QED BY <1>2, <3>2, <3>3, <3>4
  <2> QED BY <1>1, <2>1 DEF PInv, PassOK, Listed
<1>4. ListedOK'
  BY <1>1 DEF PInv, ListedOK, Listed, Expired
<1>5. ConvOK'
  <2>1. conv # NoFile => conv.day \in Int
    BY FileFields DEF PInv, TypeOK
  <2>2. conv # NoFile /\ conv \notin files => conv.day < today' - DetailsKeepDays
    BY <1>1, <1>2, <2>1 DEF PInv, ConvOK
  <2> QED BY <1>1, <2>2 DEF PInv, ConvOK
<1>6. LeftThere' /\ Reaches'
  BY <1>1 DEF PInv, LeftThere, Reaches
<1> QED BY <1>3, <1>4, <1>5, <1>6 DEF PInv

\* prune returns, or the listener is started again.
LEMMA ReturnStep ==
  ASSUME PInv, TypeOK', Return,
         (UNCHANGED <<today, files, conv, duckDB>>) \/ conv' = NoFile
  PROVE  PInv'
<1>1. expired' = {} /\ left' = {} /\ pc' = "idle" /\ freed' = 0 /\ ageFreed' = 0
  BY DEF Return
<1>2. ConvOK'
  BY <1>1 DEF PInv, ConvOK
<1> QED BY <1>1, <1>2 DEF PInv, PassOK, ListedOK, LeftThere, Reaches, Listed

\* What housekeep does to the files of a pass: it adds no source, and what it
\* takes away is not listed unless it failed or took a jsonl of left.
LEMMA HouseStep ==
  ASSUME PInv, TypeOK',
         ConvertEnd \/ (\E d \in dirs : Pack(d)) \/ \E f \in files : ConvertBegin(f) \/ DropSource(f)
  PROVE  PInv'
<1> USE DEF env, house, locals, clock
<1>1. /\ UNCHANGED <<today, duckDB, pc, expired, left, aCut, dCut, freed, ageFreed, need, until>>
  BY DEF ConvertEnd, Pack, ConvertBegin, DropSource
<1>2. \A f \in files' : f \in files \/ f.kind \in {"tar", "gz", "parquet"}
  <2>1. ASSUME NEW f \in files, ConvertBegin(f)
        PROVE  \A g \in files' : g \in files \/ g.kind \in {"tar", "gz", "parquet"}
    BY <2>1, Conversions DEF ConvertBegin, PInv, TypeOK
  <2>2. CASE ConvertEnd \/ (\E d \in dirs : Pack(d)) \/ \E f \in files : DropSource(f)
    BY <2>2 DEF ConvertEnd, Pack, DropSource
  <2> QED BY <2>1, <2>2
<1>3. PassOK'
  BY <1>1 DEF PInv, PassOK, Listed
<1>4. ListedOK'
  <2>1. \A f \in Listed : f \in Files /\ (f.kind \in {"gz", "parquet"} => Source(f) \notin files')
    <3> SUFFICES ASSUME NEW f \in Listed PROVE f \in Files /\ (f.kind \in {"gz", "parquet"} => Source(f) \notin files')
      OBVIOUS
    <3>1. f \in Files
      BY DEF PInv, TypeOK, Listed
    <3> QED BY <1>2, <3>1, Conversions DEF PInv, ListedOK
  <2> QED BY <1>1, <2>1 DEF PInv, ListedOK, Listed, Expired
<1>5. ConvOK'
  <2>1. CASE ConvertEnd
    BY <2>1 DEF ConvertEnd, ConvOK
  <2>2. ASSUME NEW d \in dirs, Pack(d) PROVE ConvOK'
    BY <2>2 DEF Pack, ConvOK
  <2>3. ASSUME NEW f \in files, ConvertBegin(f) PROVE ConvOK'
    BY <1>1, <2>3 DEF ConvertBegin, Convertible, ConvOK
  <2>4. ASSUME NEW f \in files, DropSource(f) PROVE ConvOK'
    BY <2>4 DEF DropSource, ConvOK
  <2> QED BY <2>1, <2>2, <2>3, <2>4
<1>6. fails' = 0 /\ ~raced' => fails = 0 /\ ~raced /\ \A f \in left : f \in files => f \in files'
  <2> SUFFICES ASSUME fails' = 0, ~raced'
               PROVE  fails = 0 /\ ~raced /\ \A f \in left : f \in files => f \in files'
    OBVIOUS
  <2>0. fails \in Nat
    BY DEF PInv, TypeOK
  <2>1. CASE ConvertEnd
    <3>1. files' = files \ {conv} /\ fails' = fails /\ raced' = raced /\ conv # NoFile
      BY <2>0, <2>1 DEF ConvertEnd
    <3>2. conv \notin left
      <4>1. conv.kind = "raw" \/ (conv.kind = "jsonl" /\ duckDB)
        BY <3>1 DEF PInv, ConvOK
      <4>2. ASSUME conv \in left PROVE FALSE
        <5>1. conv.kind # "raw" /\ ~Expired(conv) /\ (~duckDB \/ conv.day < dCut)
          BY <4>1, <4>2 DEF PInv, ListedOK, Listed, Listable
        <5> QED BY <4>1, <5>1 DEF Expired, IsDetails
      <4> QED BY <4>2
    <3> QED BY <3>1, <3>2
  <2>2. ASSUME NEW d \in dirs, Pack(d)
        PROVE  fails = 0 /\ ~raced /\ \A f \in left : f \in files => f \in files'
    BY <2>2 DEF Pack
  <2>3. ASSUME NEW f \in files, ConvertBegin(f)
        PROVE  fails = 0 /\ ~raced /\ \A g \in left : g \in files => g \in files'
    BY <2>3 DEF ConvertBegin
  <2>4. ASSUME NEW f \in files, DropSource(f)
        PROVE  fails = 0 /\ ~raced /\ \A g \in left : g \in files => g \in files'
    BY <2>4 DEF DropSource
  <2> QED BY <2>1, <2>2, <2>3, <2>4
<1>7. LeftThere' /\ Reaches'
  BY <1>1, <1>6 DEF PInv, LeftThere, Reaches
<1> QED BY <1>3, <1>4, <1>5, <1>7 DEF PInv

\* What os.Remove of a listed file does (whatever it adds to the account).
Removed(f) ==
  \/ /\ f \in files /\ files' = files \ {f} /\ fails' = fails
     /\ pending' = pending \cup {[file |-> f, age |-> 0, by |-> pc]}
  \/ UNCHANGED <<files, pending, fails>> /\ f \notin files
  \/ UNCHANGED <<files, pending>> /\ fails' = fails + 1

LEMMA Nonempty ==
  ASSUME PInv
  PROVE  /\ expired # {} => First(expired) \in expired
         /\ left # {} => First(left) \in left /\ \A g \in left \ {First(left)} : Before(First(left), g)
<1>1. expired \in SUBSET Listable /\ left \in SUBSET Listable
  BY DEF PInv, ListedOK, Listed
<1> QED BY <1>1, FirstIsFirst

LEMMA AgeStep ==
  ASSUME PInv, TypeOK', AgeRemove
  PROVE  PInv'
<1> USE DEF env, house, locals, clock
<1> DEFINE f == First(expired)
<1>1. /\ pc = "age" /\ UNCHANGED <<today, duckDB, pc, left, aCut, dCut, freed, need, until, conv>>
      /\ raced' = raced /\ expired' = expired \ {f} /\ f \in expired
  BY Nonempty DEF AgeRemove
<1>2. Removed(f)
  BY DEF AgeRemove, Remove, Removed
<1>3. files' \subseteq files /\ \A g \in files : g = f \/ g \in files'
  BY <1>2 DEF Removed
<1>4. Expired(f) /\ f \notin left /\ f \in Listable
  BY <1>1 DEF PInv, ListedOK, Listed
<1> HIDE DEF f
<1>5. PassOK'
  BY <1>1 DEF PInv, PassOK, Listed
<1>6. ListedOK'
  BY <1>1, <1>3 DEF PInv, ListedOK, Listed, Expired
<1>7. ConvOK'
  <2>1. CASE conv # f
    BY <1>1, <1>3, <2>1 DEF PInv, ConvOK
  <2>2. CASE conv = f
    <3>1. conv # NoFile => conv.kind = "jsonl" /\ conv.day < dCut /\ conv.day \in Int
      BY <1>4, <2>2, FileFields DEF PInv, ConvOK, Listable, Expired, IsDetails
    <3>2. dCut <= today - DetailsKeepDays
      BY <1>1 DEF PInv, PassOK
    <3>3. today \in Int /\ dCut \in Int /\ DetailsKeepDays \in Int
      BY RetentionAssumption DEF PInv, TypeOK, Days
    <3>4. conv # NoFile => conv.day < today - DetailsKeepDays
      BY <3>1, <3>2, <3>3
    <3> QED BY <1>1, <3>1, <3>4 DEF PInv, ConvOK
  <2> QED BY <2>1, <2>2
<1>8. fails' = 0 => fails = 0
  BY <1>2 DEF Removed, PInv, TypeOK
<1>9. LeftThere' /\ Reaches'
  BY <1>1, <1>3, <1>4, <1>8 DEF PInv, LeftThere, Reaches
<1> QED BY <1>5, <1>6, <1>7, <1>9 DEF PInv

LEMMA DiskStep ==
  ASSUME PInv, TypeOK', DiskRemove
  PROVE  PInv'
<1> USE DEF env, house, locals, clock
<1> DEFINE f == First(left)
<1>1. /\ pc = "disk" /\ UNCHANGED <<today, duckDB, pc, expired, aCut, dCut, ageFreed, need, until, conv>>
      /\ raced' = raced /\ left' = left \ {f} /\ f \in left
  BY Nonempty DEF DiskRemove
<1>2. Removed(f)
  BY DEF DiskRemove, Remove, Removed
<1>3. files' \subseteq files /\ \A g \in files : g = f \/ g \in files'
  BY <1>2 DEF Removed
<1>4. ~Expired(f) /\ f \in Listable /\ (f.kind = "jsonl" => ~duckDB \/ f.day < dCut)
  BY <1>1 DEF PInv, ListedOK, Listed
<1>a. f \in files => freed' = freed + Size(f) \/ fails' = fails + 1
  BY DEF DiskRemove, Remove
<1> HIDE DEF f
<1>5. PassOK'
  BY <1>1 DEF PInv, PassOK, Listed
<1>6. ListedOK'
  BY <1>1, <1>3 DEF PInv, ListedOK, Listed, Expired
<1>7. ConvOK'
  <2>1. CASE conv # f
    BY <1>1, <1>3, <2>1 DEF PInv, ConvOK
  <2>2. CASE conv = f /\ conv # NoFile
    BY <1>4, <2>2 DEF PInv, ConvOK, Listable, Expired, IsDetails
  <2> QED BY <1>1, <2>1, <2>2 DEF ConvOK
<1>8. fails' = 0 => fails = 0 /\ fails' # fails + 1
  BY <1>2 DEF Removed, PInv, TypeOK
<1>9. LeftThere'
  BY <1>1, <1>3, <1>8 DEF PInv, LeftThere
<1>10. Reaches'
  <2> SUFFICES ASSUME fails' = 0, ~raced PROVE freed' + SizeOf(left') >= need
    BY <1>1 DEF Reaches
  <2>1. f \in files /\ freed' = freed + Size(f)
    BY <1>1, <1>8, <1>a DEF PInv, LeftThere
  <2>2. SizeOf(left) = SizeOf(left') + Size(f)
    BY <1>1, SizeDrop DEF PInv, TypeOK
  <2>3. freed + SizeOf(left) >= need
    BY <1>1, <1>8 DEF PInv, Reaches
  <2>4. SizeOf(left') \in Nat /\ Size(f) \in Nat /\ freed \in Nat /\ need \in Nat
    <3>1. left' \in SUBSET Files
      BY DEF TypeOK
    <3> QED BY <3>1, Parts, RetentionAssumption DEF Size, PInv, TypeOK
  <2> QED BY <2>1, <2>2, <2>3, <2>4
<1> QED BY <1>5, <1>6, <1>7, <1>9, <1>10 DEF PInv

LEMMA PassStep ==
  ASSUME PInv, [Next]_vars
  PROVE  PInv'
<1> USE DEF env, house, locals, clock
<1>0. TypeOK /\ TypeOK'
  BY TypeStep DEF PInv
<1>1. CASE Around \/ UNCHANGED vars
  BY <1>0, <1>1, AroundStep
<1>2. CASE Restart
  BY <1>0, <1>2, ReturnStep DEF Restart
<1>3. CASE ConvertEnd \/ (\E d \in dirs : Pack(d)) \/ \E f \in files : ConvertBegin(f) \/ DropSource(f)
  BY <1>0, <1>3, HouseStep
<1>4. CASE PassBegin
  <2>1. /\ pc = "idle" /\ pc' = "list" /\ UNCHANGED <<today, files, conv, duckDB, expired, left>>
        /\ UNCHANGED <<ageFreed, freed, need, fails, raced>>
        /\ dCut' = today - DetailsKeepDays /\ until' = Interval
    BY <1>4 DEF PassBegin
  <2>2. expired = {} /\ left = {} /\ freed = 0 /\ ageFreed = 0
    BY <2>1 DEF PInv, PassOK, Listed
  <2>3. PassOK'
    BY <1>0, <2>1, <2>2 DEF PassOK, Listed, TypeOK
  <2>4. ConvOK'
    BY <2>1 DEF PInv, ConvOK
  <2> QED BY <1>0, <2>1, <2>2, <2>3, <2>4 DEF PInv, ListedOK, LeftThere, Reaches, Listed
<1>5. CASE List
  <2>1. /\ pc = "list" /\ pc' = "age" /\ UNCHANGED <<today, files, conv, duckDB, aCut, dCut>>
        /\ UNCHANGED <<ageFreed, freed, need, fails, raced, until>>
        /\ expired' = {f \in names : Candidate(f, dCut) /\ Expired(f)}
        /\ left' = {f \in names : Candidate(f, dCut) /\ ~Expired(f)}
    BY <1>5 DEF List
  <2>2. PassOK'
    BY <2>1 DEF PInv, PassOK
  <2>3. ListedOK'
    <3>1. \A f \in Listed' : f \in files /\ Candidate(f, dCut) /\ f \in Files
      BY <2>1 DEF Listed, Candidate, PInv, TypeOK
    <3>2. \A f \in Listed' : /\ f \in Listable
                             /\ f.kind \in {"gz", "parquet"} => Source(f) \notin files
                             /\ f.kind = "jsonl" => ~duckDB \/ f.day < dCut
      BY <3>1 DEF Candidate, Listable
    <3> QED BY <2>1, <3>2 DEF ListedOK, Expired
  <2>4. ConvOK'
    BY <2>1 DEF PInv, ConvOK
  <2>5. LeftThere' /\ Reaches'
    BY <2>1 DEF LeftThere, Reaches, Candidate
  <2> QED BY <1>0, <2>2, <2>3, <2>4, <2>5 DEF PInv
<1>6. CASE AgeRemove
  BY <1>0, <1>6, AgeStep
<1>7. CASE Measure
  <2>1. CASE Return
    BY <1>0, <1>7, <2>1, ReturnStep DEF Measure
  <2>2. CASE /\ CanHelp(left, Need) /\ pc' = "disk" /\ need' = Need
             /\ UNCHANGED <<names, aCut, dCut, expired, left, ageFreed, freed, raced, fails>>
    <3>1. /\ pc = "age" /\ UNCHANGED <<today, files, conv, duckDB, until>>
      BY <1>7 DEF Measure
    <3>2. PassOK' /\ ListedOK' /\ ConvOK' /\ LeftThere'
      BY <2>2, <3>1 DEF PInv, PassOK, ListedOK, ConvOK, LeftThere, Listed, Expired
    <3>3. Reaches'
      <4>1. freed = 0
        BY <3>1 DEF PInv, PassOK
      <4>2. SizeOf(left) \in Nat
        BY <1>0, Parts DEF TypeOK
      <4> QED BY <2>2, <4>1, <4>2 DEF CanHelp, Reaches
    <3> QED BY <1>0, <3>2, <3>3 DEF PInv
  <2> QED BY <1>7, <2>1, <2>2 DEF Measure
<1>8. CASE DiskRemove
  BY <1>0, <1>8, DiskStep
<1>9. CASE BatchEnd
  BY <1>0, <1>9, ReturnStep DEF BatchEnd
<1> QED BY <1>1, <1>2, <1>3, <1>4, <1>5, <1>6, <1>7, <1>8, <1>9 DEF Next, Prune, Around

LEMMA PassInvariant == Spec => []PInv
  BY PassInit, PassStep, PTL DEF Spec

\* Types hold, no batch sets out to free a negative amount, and a batch that
\* has begun frees what it set out to free unless a removal fails or
\* rotateDetails takes one of its files (retention.go: all or nothing), for
\* any set of files and any number of days, passes and restarts.
THEOREM BatchFreesEnough == Spec => []BatchSound
<1>1. PInv => BatchSound
  <2> SUFFICES ASSUME PInv PROVE BatchSound
    OBVIOUS
  <2>1. freed \in Nat /\ need \in Nat
    BY DEF PInv, TypeOK
  <2>2. TypeOK
    BY DEF PInv
  <2>3. ASSUME pc = "disk", left = {}, fails = 0, ~raced
        PROVE  freed >= need
    <3>1. freed + SizeOf(left) >= need
      BY <2>3 DEF PInv, Reaches
    <3>2. SizeOf(left) = 0
      BY <2>3, SizeEmpty
    <3> QED BY <2>1, <3>1, <3>2
  <2> QED BY <2>2, <2>3 DEF BatchSound, BatchSuffices
<1> QED BY PassInvariant, <1>1, PTL
-----------------------------------------------------------------------------
(***************************************************************************)
(* What a pass may delete: files of its lists, with their properties.      *)
(***************************************************************************)
LEMMA DiskKeepsClear ==
  ASSUME PInv, pc = "disk", conv # NoFile, NEW f \in left, f \in {conv, Output(conv)}
  PROVE  Expired(f)
<1>1. /\ f \in Files /\ f.kind # "raw" /\ conv \in Files
      /\ f.kind \in {"gz", "parquet"} => Source(f) \notin files
      /\ f.kind = "jsonl" => ~duckDB \/ f.day < dCut
  BY DEF PInv, TypeOK, ListedOK, Listed, Listable
<1>2. conv.kind = "raw" \/ (conv.kind = "jsonl" /\ duckDB)
  BY DEF PInv, ConvOK
<1>3. CASE f = conv
  BY <1>1, <1>2, <1>3 DEF Expired, IsDetails
<1>4. CASE f = Output(conv)
  <2>1. f.kind \in {"gz", "parquet"} /\ Source(f) = conv /\ f.day = conv.day
    BY <1>1, <1>2, <1>4, Conversions
  <2>2. conv \notin files
    BY <1>1, <2>1
  <2>3. conv.kind = "jsonl" /\ conv.day < dCut
    BY <2>2 DEF PInv, ConvOK
  <2>4. f.kind = "parquet"
    BY <1>1, <1>4, <2>3, Conversions
  <2> QED BY <2>1, <2>3, <2>4 DEF Expired, IsDetails
<1> QED BY <1>3, <1>4

\* prune never deletes a file housekeep is writing or reading, unless it has
\* left the retention since that conversion began (retention.go 33-37): the
\* source keeps its output off the lists, and a jsonl is listed only if it
\* cannot be converted any more, whatever the order of their steps.
THEOREM HalfWrittenKept == Spec => KeepsHalfWritten
<1> DEFINE Step ==
      \A f \in files \ files' :
        (conv # NoFile /\ conv' = conv) => f \notin {conv, Output(conv)} \/ Expired(f)
<1>1. ASSUME PInv, [Next]_vars
      PROVE  Step
  <2> SUFFICES ASSUME NEW f \in files, f \notin files', conv # NoFile, conv' = conv,
                      f \in {conv, Output(conv)}
               PROVE  Expired(f)
    OBVIOUS
  <2> USE DEF env, house, locals, clock
  <2>1. AgeRemove \/ DiskRemove
    BY <1>1 DEF Next, Prune, vars, Midnight, Change, Tick, Restart, Show, HousekeepBegin, ConvertEnd,
         Pack, ConvertBegin, DropSource, PassBegin, List, Measure, BatchEnd
  <2>2. CASE AgeRemove
    <3>1. First(expired) \in expired
      BY <1>1, <2>2, Nonempty DEF AgeRemove
    <3>2. f = First(expired)
      BY <2>2 DEF AgeRemove, Remove
    <3> QED BY <1>1, <3>1, <3>2 DEF PInv, ListedOK
  <2>3. CASE DiskRemove
    <3>1. pc = "disk" /\ First(left) \in left
      BY <1>1, <2>3, Nonempty DEF DiskRemove
    <3>2. f = First(left)
      BY <2>3 DEF DiskRemove, Remove
    <3> QED BY <1>1, <3>1, <3>2, DiskKeepsClear
  <2> QED BY <2>1, <2>2, <2>3
<1>2. KeepsHalfWritten <=> [][Step]_vars
  BY DEF KeepsHalfWritten
<1>3. PInv /\ [Next]_vars => [Step]_vars
  BY <1>1
<1> QED BY <1>2, <1>3, PassInvariant, PTL DEF Spec

\* Disk pressure takes the oldest archive there is, and details only once no
\* archive is left (retention.go 26-30), for any files a pass has listed.
THEOREM ArchivesBeforeDetails == Spec => OldestArchiveFirst
<1> DEFINE Step ==
      (pc = "disk" /\ pc' = "disk") =>
        \A f \in left \ left', g \in left' \cap files :
          (IsDetails(f) => IsDetails(g)) /\ (IsDetails(f) = IsDetails(g) => f.day <= g.day)
<1>1. ASSUME PInv, [Next]_vars
      PROVE  Step
  <2> SUFFICES ASSUME pc = "disk", pc' = "disk", NEW f \in left \ left', NEW g \in left'
               PROVE  (IsDetails(f) => IsDetails(g)) /\ (IsDetails(f) = IsDetails(g) => f.day <= g.day)
    OBVIOUS
  <2> USE DEF env, house, locals, clock
  <2>1. DiskRemove
    BY <1>1 DEF Next, Prune, vars, Midnight, Change, Tick, Restart, Show, HousekeepBegin, ConvertEnd,
         Pack, ConvertBegin, DropSource, PassBegin, List, AgeRemove, Measure, BatchEnd, Return
  <2>2. left' = left \ {First(left)} /\ f = First(left) /\ g \in left \ {First(left)}
    BY <2>1 DEF DiskRemove
  <2>3. Before(f, g)
    BY <1>1, <2>2, Nonempty
  <2>4. f.day \in Int /\ g.day \in Int
    BY <1>1, <2>2, FileFields DEF PInv, TypeOK
  <2> QED BY <2>3, <2>4 DEF Before, IsDetails
<1>2. OldestArchiveFirst <=> [][Step]_vars
  BY DEF OldestArchiveFirst
<1>3. PInv /\ [Next]_vars => [Step]_vars
  BY <1>1
<1> QED BY <1>2, <1>3, PassInvariant, PTL DEF Spec
-----------------------------------------------------------------------------
(***************************************************************************)
(* Space counted twice.  As long as nothing was forgotten, no batch's      *)
(* space still shows once the cooldown is over, and what the age step of   *)
(* this pass has deleted is no more than what it takes off.                *)
(***************************************************************************)
AgeNow == {p \in pending : p.by = "age" /\ p.age = 0}

BatchSettled == pc # "disk" => \A p \in pending : p.by = "disk" => since <= p.age
NoneYet      == (pc = "idle" /\ until = 0) \/ pc = "list" => AgeNow = {}
AgeCounted   == pc = "age" => SizeOf({p.file : p \in AgeNow}) <= ageFreed

Paid == BatchSettled /\ NoneYet /\ AgeCounted

\* Every batch that asked for too much is accounted for by a restart.
DInv == oversized < restarts \/ (oversized = restarts /\ Paid)

LEMMA AgeNowFiles ==
  ASSUME TypeOK
  PROVE  {p.file : p \in AgeNow} \in SUBSET Files
  BY DEF TypeOK, AgeNow

LEMMA PaidNeed ==
  ASSUME TypeOK, BatchSettled, AgeCounted, pc = "age", DiskPressure
  PROVE  ~(Need > Used - Limit + 1 + OldAgeFreed)
<1> DEFINE Now == {p.file : p \in AgeNow}
           Old == {p.file : p \in {q \in pending : q.by = "age" /\ q.age > 0}}
<1>1. \A p \in pending : p.by = "age" /\ p.age \in Nat
  <2> SUFFICES ASSUME NEW p \in pending PROVE p.by = "age" /\ p.age \in Nat
    OBVIOUS
  <2>1. p.by \in {"age", "disk"} /\ p.age \in 0..Lag
    BY DEF TypeOK
  <2>2. since >= Cooldown /\ since \in Nat /\ Cooldown \in Nat /\ Lag \in Nat /\ Lag < Cooldown
    BY RetentionAssumption, CooldownAssumption DEF DiskPressure, TypeOK
  <2>3. p.by = "disk" => since <= p.age
    BY DEF BatchSettled
  <2> QED BY <2>1, <2>2, <2>3
<1>2. {p.file : p \in pending} = Now \cup Old
  BY <1>1 DEF AgeNow
<1>3. Now \in SUBSET Files /\ Old \in SUBSET Files
  BY DEF TypeOK, AgeNow
<1>4. SizeOf({p.file : p \in pending}) <= SizeOf(Now) + SizeOf(Old)
  BY <1>2, <1>3, SizeUnion
<1>5. SizeOf(Now) <= ageFreed
  BY DEF AgeCounted
<1>6. OldAgeFreed = SizeOf(Old)
  BY DEF OldAgeFreed
<1>7. SizeOf(Now) \in Nat /\ SizeOf(Old) \in Nat
  BY <1>3, Parts
<1>8. SizeOf({p.file : p \in pending}) \in Nat /\ Used \in Nat
  BY SpaceTypes, Parts
<1>9. ageFreed \in Nat /\ Limit \in Nat
  BY RetentionAssumption DEF TypeOK
<1> HIDE DEF Now, Old
<1>10. Visible <= Used + ageFreed + OldAgeFreed /\ Visible \in Nat /\ OldAgeFreed \in Nat
  BY <1>4, <1>5, <1>6, <1>7, <1>8, <1>9 DEF Visible
<1>11. AssumedUsed <= Used + OldAgeFreed
  BY <1>8, <1>9, <1>10 DEF AssumedUsed
<1>12. AssumedUsed \in Nat
  BY SpaceTypes
<1> QED BY <1>8, <1>9, <1>10, <1>11, <1>12 DEF Need

LEMMA PaidStep ==
  ASSUME PInv, TypeOK', Paid, Next, oversized' = oversized, restarts' = restarts
  PROVE  Paid'
<1> USE DEF env, house, locals, clock
<1>0. TypeOK /\ restarts \in Nat /\ Interval \in Nat \ {0}
  BY RetentionAssumption DEF PInv, TypeOK
<1>1. CASE UNCHANGED <<pc, pending, until, since, ageFreed>>
  BY <1>1 DEF Paid, BatchSettled, NoneYet, AgeCounted, AgeNow
<1>2. ASSUME NEW p \in pending, Show(p) PROVE Paid'
  <2>1. pending' \subseteq pending /\ UNCHANGED <<pc, until, since, ageFreed>>
    BY <1>2 DEF Show
  <2>2. {q.file : q \in AgeNow'} \in SUBSET {q.file : q \in AgeNow} /\ AgeNow' \subseteq AgeNow
    BY <2>1 DEF AgeNow
  <2>3. /\ SizeOf({q.file : q \in AgeNow'}) <= SizeOf({q.file : q \in AgeNow})
        /\ SizeOf({q.file : q \in AgeNow'}) \in Nat /\ SizeOf({q.file : q \in AgeNow}) \in Nat
    BY <1>0, <2>2, AgeNowFiles, SizeMono, Parts
  <2>4. AgeCounted'
    BY <1>0, <2>1, <2>3 DEF Paid, AgeCounted, TypeOK
  <2> QED BY <2>1, <2>2, <2>4 DEF Paid, BatchSettled, NoneYet
<1>3. CASE Tick
  <2>1. /\ pc = "idle" /\ pc' = "idle" /\ pending' = {[p EXCEPT !.age = @ + 1] : p \in pending}
        /\ since' <= since + 1
    BY <1>0, <1>3 DEF Tick, TypeOK
  <2>2. \A p \in pending : /\ [p EXCEPT !.age = @ + 1].age = p.age + 1
                           /\ [p EXCEPT !.age = @ + 1].by = p.by /\ p.age \in Nat
    BY <1>0 DEF TypeOK
  <2>a. \A q \in pending' : \E p \in pending : q.age = p.age + 1 /\ q.by = p.by /\ p.age \in Nat
    <3> SUFFICES ASSUME NEW q \in pending'
                 PROVE  \E p \in pending : q.age = p.age + 1 /\ q.by = p.by /\ p.age \in Nat
      OBVIOUS
    <3>1. PICK p \in pending : q = [p EXCEPT !.age = @ + 1]
      BY <2>1
    <3> QED BY <2>2, <3>1
  <2>3. AgeNow' = {}
    <3>1. \A q \in pending' : q.age # 0
      BY <2>a
    <3> QED BY <3>1 DEF AgeNow
  <2>4. BatchSettled'
    <3> SUFFICES ASSUME NEW p \in pending, p.by = "disk" PROVE since' <= p.age + 1
      <4>1. \A q \in pending' : q.by = "disk" => since' <= q.age
        BY <2>a
      <4> QED BY <4>1 DEF BatchSettled
    <3>1. since <= p.age
      BY <2>1 DEF Paid, BatchSettled
    <3>2. since \in Nat /\ since' \in Nat /\ p.age \in Nat
      BY <1>0, <2>2 DEF TypeOK
    <3> QED BY <2>1, <3>1, <3>2
  <2> QED BY <2>1, <2>3, <2>4 DEF Paid, NoneYet, AgeCounted
<1>4. CASE PassBegin
  <2>1. pc = "idle" /\ until = 0 /\ pc' = "list" /\ UNCHANGED <<pending, since>>
    BY <1>4 DEF PassBegin
  <2> QED BY <2>1 DEF Paid, BatchSettled, NoneYet, AgeCounted, AgeNow
<1>5. CASE List
  <2>1. pc = "list" /\ pc' = "age" /\ UNCHANGED <<pending, since, ageFreed>>
    BY <1>5 DEF List
  <2>2. {p.file : p \in AgeNow'} = {}
    BY <2>1 DEF Paid, NoneYet, AgeNow
  <2>3. AgeCounted'
    BY <1>0, <2>1, <2>2, SizeEmpty DEF AgeCounted, TypeOK
  <2> QED BY <2>1, <2>3 DEF Paid, BatchSettled, NoneYet
<1>6. CASE AgeRemove
  <2> DEFINE f == First(expired)
  <2>1. pc = "age" /\ pc' = "age" /\ since' = since
    BY <1>6 DEF AgeRemove
  <2>2. \/ /\ pending' = pending \cup {[file |-> f, age |-> 0, by |-> "age"]}
           /\ ageFreed' = ageFreed + Size(f) /\ f \in files
        \/ pending' = pending /\ ageFreed' = ageFreed
    BY <1>6 DEF AgeRemove, Remove
  <2> HIDE DEF f
  <2>3. BatchSettled' /\ NoneYet'
    BY <2>1, <2>2 DEF Paid, BatchSettled, NoneYet
  <2>4. ageFreed \in Nat /\ {p.file : p \in AgeNow} \in SUBSET Files
    BY <1>0, AgeNowFiles DEF TypeOK
  <2>5. SizeOf({p.file : p \in AgeNow}) \in Nat /\ SizeOf({p.file : p \in AgeNow}) <= ageFreed
    BY <2>1, <2>4, Parts DEF Paid, AgeCounted
  <2>6. CASE pending' = pending /\ ageFreed' = ageFreed
    BY <2>1, <2>3, <2>5, <2>6 DEF Paid, AgeCounted, AgeNow
  <2>7. CASE /\ pending' = pending \cup {[file |-> f, age |-> 0, by |-> "age"]}
             /\ ageFreed' = ageFreed + Size(f) /\ f \in files
    <3>1. {p.file : p \in AgeNow'} = {p.file : p \in AgeNow} \cup {f}
      <4>1. AgeNow' = AgeNow \cup {[file |-> f, age |-> 0, by |-> "age"]}
        BY <2>7 DEF AgeNow
      <4>2. [file |-> f, age |-> 0, by |-> "age"].file = f
        OBVIOUS
      <4>3. \A x : x \in {p.file : p \in AgeNow'} <=> x \in {p.file : p \in AgeNow} \/ x = f
        BY <4>1, <4>2
      <4> QED BY <4>3
    <3>2. f \in Files /\ Size(f) \in Nat
      BY <1>0, <2>7, RetentionAssumption DEF TypeOK, Size
    <3>3. CASE f \in {p.file : p \in AgeNow}
      <4>1. {p.file : p \in AgeNow'} = {p.file : p \in AgeNow}
        BY <3>1, <3>3
      <4>2. SizeOf({p.file : p \in AgeNow'}) = SizeOf({p.file : p \in AgeNow})
        BY <4>1, Zenon
      <4>3. SizeOf({p.file : p \in AgeNow'}) <= ageFreed'
        BY <2>4, <2>5, <2>7, <3>2, <4>2
      <4> QED BY <2>3, <4>3 DEF Paid, AgeCounted
    <3>4. CASE f \notin {p.file : p \in AgeNow}
      <4>1. SizeOf({p.file : p \in AgeNow'}) = SizeOf({p.file : p \in AgeNow}) + Size(f)
        BY <2>4, <3>1, <3>2, <3>4, SizeAdd
      <4>2. SizeOf({p.file : p \in AgeNow'}) <= ageFreed'
        BY <2>4, <2>5, <2>7, <3>2, <4>1
      <4> QED BY <2>3, <4>2 DEF Paid, AgeCounted
    <3> QED BY <3>3, <3>4
  <2> QED BY <2>2, <2>6, <2>7
<1>7. CASE Measure
  <2>1. CASE pc' = "disk"
    BY <2>1 DEF Paid, BatchSettled, NoneYet, AgeCounted
  <2>2. CASE pc' = "idle"
    <3>1. pc = "age" /\ UNCHANGED <<pending, since, until>> /\ until # 0
      BY <1>0, <1>7 DEF Measure, PInv, PassOK
    <3> QED BY <2>2, <3>1 DEF Paid, BatchSettled, NoneYet, AgeCounted
  <2> QED BY <1>7, <2>1, <2>2 DEF Measure, Return
<1>8. CASE DiskRemove
  <2>1. pc' = "disk"
    BY <1>8 DEF DiskRemove
  <2> QED BY <2>1 DEF Paid, BatchSettled, NoneYet, AgeCounted
<1>9. CASE BatchEnd
  <2>1. pc' = "idle" /\ since' = 0 /\ pending' = pending /\ until' # 0
    BY <1>0, <1>9 DEF BatchEnd, Return, PInv, PassOK
  <2>2. \A p \in pending : p.age \in Nat
    BY <1>0 DEF TypeOK
  <2> QED BY <2>1, <2>2 DEF Paid, BatchSettled, NoneYet, AgeCounted
<1>10. CASE Midnight \/ Change \/ HousekeepBegin \/ ConvertEnd
  BY <1>1, <1>10 DEF Midnight, Change, HousekeepBegin, ConvertEnd
<1>11. CASE (\E d \in dirs : Pack(d)) \/ \E f \in files : ConvertBegin(f) \/ DropSource(f)
  BY <1>1, <1>11 DEF Pack, ConvertBegin, DropSource
<1>12. ~Restart
  BY <1>0 DEF Restart
<1> QED BY <1>2, <1>3, <1>4, <1>5, <1>6, <1>7, <1>8, <1>9, <1>10, <1>11, <1>12 DEF Next, Prune

LEMMA DamageStep ==
  ASSUME PInv, PInv', DInv, [Next]_vars
  PROVE  DInv'
<1>0. /\ TypeOK /\ TypeOK' /\ restarts \in Nat /\ oversized \in Nat
      /\ restarts' \in Nat /\ oversized' \in Nat
  BY DEF PInv, TypeOK
<1>1. CASE UNCHANGED vars
  BY <1>1 DEF vars, env, house, locals, clock, DInv, Paid, BatchSettled, NoneYet, AgeCounted, AgeNow
<1>2. CASE Restart
  BY <1>0, <1>2 DEF Restart, DInv
<1>3. CASE Next /\ ~Restart /\ ~Measure
  <2>1. oversized' = oversized /\ restarts' = restarts
    BY <1>3 DEF Next, Prune, Midnight, Change, Tick, Show, HousekeepBegin, ConvertEnd,
         Pack, ConvertBegin, DropSource, PassBegin, List, AgeRemove, DiskRemove, BatchEnd
  <2>2. Paid => Paid'
    BY <1>0, <1>3, <2>1, PaidStep
  <2> QED BY <1>0, <2>1, <2>2 DEF DInv
<1>4. CASE Measure
  <2>1. restarts' = restarts /\ pc = "age"
    BY <1>4 DEF Measure
  <2>2. CASE oversized' = oversized
    <3>1. Paid => Paid'
      BY <1>0, <1>4, <2>1, <2>2, PaidStep DEF Next, Prune
    <3> QED BY <1>0, <2>1, <2>2, <3>1 DEF DInv
  <2>3. CASE oversized' # oversized
    <3>1. /\ DiskPressure /\ oversized' = oversized + 1 /\ pc' = "disk"
          /\ Need > Used - Limit + 1 + OldAgeFreed
      BY <1>4, <2>3 DEF Measure
    <3>2. ~Paid
      BY <1>0, <2>1, <3>1, PaidNeed DEF Paid
    <3>3. Paid'
      BY <3>1 DEF Paid, BatchSettled, NoneYet, AgeCounted
    <3>4. oversized < restarts
      BY <3>2 DEF DInv
    <3> QED BY <1>0, <2>1, <3>1, <3>3, <3>4 DEF DInv
  <2> QED BY <2>2, <2>3
<1> QED BY <1>1, <1>2, <1>3, <1>4 DEF Next, Prune

\* Only the first batch after a restart asks for space an earlier batch has
\* freed (retention.go 17-21): at most one batch for each restart, for any
\* delay of the file system shorter than the cooldown.
THEOREM DamageOnlyByRestart == Spec => []DamageBounded
<1>1. Init => DInv
  <2> SUFFICES ASSUME Init PROVE DInv
    OBVIOUS
  <2>1. oversized = 0 /\ restarts = 0 /\ pending = {} /\ pc = "idle"
    BY DEF Init
  <2> QED BY <2>1 DEF DInv, Paid, BatchSettled, NoneYet, AgeCounted, AgeNow
<1>2. PInv /\ PInv' /\ DInv /\ [Next]_vars => DInv'
  BY DamageStep
<1>3. PInv /\ DInv => DamageBounded
  BY DEF PInv, TypeOK, DInv, DamageBounded
<1> QED BY <1>1, <1>2, <1>3, PassInvariant, PTL DEF Spec
=============================================================================
