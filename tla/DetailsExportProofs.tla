------------------------ MODULE DetailsExportProofs -------------------------
(***************************************************************************)
(* Proofs about DetailsStore and DetailsExport, for any number of rows and *)
(* days, any length of a day and any number of failures, crashes, clock    *)
(* readings carried over midnight and lives of the exporter: written rows  *)
(* stay readable, a life counts a row once, the checkpoint is never ahead, *)
(* and a row is passed over only in the ways that are listed.              *)
(***************************************************************************)
EXTENDS DetailsExport, FiniteSetTheorems, TLAPS

(***************************************************************************)
(* Days and sequences of rows.                                             *)
(***************************************************************************)
LEMMA Division ==
  ASSUME NEW n \in Int, NEW d \in Nat \ {0}
  PROVE  /\ n \div d \in Int
         /\ d * (n \div d) <= n /\ n < d * (n \div d) + d
  BY SMT

LEMMA Product ==
  ASSUME NEW d \in Nat \ {0}, NEW a \in Int, NEW b \in Int
  PROVE  /\ d * a \in Int
         /\ a <= b => d * a <= d * b
         /\ a + 1 <= b => d * a + d <= d * b
  BY SMT

LEMMA DayOf ==
  ASSUME NEW t \in Int
  PROVE  Day(t) \in Int /\ DayLen * Day(t) <= t /\ t < DayLen * Day(t) + DayLen
  BY StoreAssumption, Division DEF Day

LEMMA DayMono ==
  ASSUME NEW s \in Int, NEW t \in Int, s <= t
  PROVE  Day(s) <= Day(t)
<1>1. /\ Day(s) \in Int /\ DayLen * Day(s) <= s
      /\ Day(t) \in Int /\ t < DayLen * Day(t) + DayLen
  BY DayOf
<1>2. DayLen \in Nat \ {0}
  BY StoreAssumption
<1>3. DayLen * Day(s) \in Int /\ DayLen * Day(t) \in Int
  BY <1>1, <1>2, Product
<1>4. ASSUME Day(t) + 1 <= Day(s) PROVE FALSE
  <2>1. DayLen * Day(t) + DayLen <= DayLen * Day(s)
    BY <1>1, <1>2, <1>4, Product
  <2> QED BY <1>1, <1>2, <1>3, <2>1
<1> QED BY <1>1, <1>4

LEMMA DayRange ==
  ASSUME NEW t \in Times
  PROVE  t \in Int /\ Day(t) \in Days /\ Day(t) \in 0..MaxTime
<1>1. t \in Int /\ 0 <= t /\ t <= MaxTime /\ MaxTime \in Nat
  BY StoreAssumption DEF Times
<1>2. /\ Day(t) \in Int /\ DayLen * Day(t) <= t /\ t < DayLen * Day(t) + DayLen
      /\ DayLen \in Nat \ {0}
  BY <1>1, DayOf, StoreAssumption
<1>3. DayLen * Day(t) \in Int
  BY <1>2, Product
<1>4. 0 <= Day(t)
  <2>1. ASSUME Day(t) + 1 <= 0 PROVE FALSE
    <3>1. DayLen * Day(t) + DayLen <= DayLen * 0
      BY <1>2, <2>1, Product
    <3> QED BY <1>1, <1>2, <1>3, <3>1
  <2> QED BY <1>2, <2>1
<1>5. Day(t) <= DayLen * Day(t)
  BY <1>2, <1>4, SMT
<1>6. Day(t) \in 0..MaxTime
  BY <1>1, <1>2, <1>3, <1>4, <1>5
<1> QED BY <1>1, <1>6 DEF Days

LEMMA DaysAreInts == Days \in SUBSET (0..MaxTime) /\ Days \in SUBSET Int
  BY DayRange DEF Days

LEMMA NotNone == None \notin Days /\ None \notin Times /\ None \notin Rows
<1>1. None \notin Int
  BY StoreAssumption
<1>2. Times \in SUBSET Int /\ Rows \in SUBSET Int
  BY DEF Times, Rows
<1> QED BY <1>1, <1>2, DaysAreInts

LEMMA ToSetIs ==
  ASSUME NEW s \in Seq(Rows), NEW r
  PROVE  r \in ToSet(s) <=> \E i \in 1..Len(s) : s[i] = r
  BY DEF ToSet

LEMMA AppendIs ==
  ASSUME NEW s \in Seq(Rows), NEW r \in Rows
  PROVE  /\ Append(s, r) \in Seq(Rows) /\ Len(s) \in Nat /\ Len(Append(s, r)) = Len(s) + 1
         /\ \A i \in 1..Len(s) : Append(s, r)[i] = s[i]
         /\ Append(s, r)[Len(s) + 1] = r
         /\ \A i \in 1..Len(Append(s, r)) : i \in 1..Len(s) \/ i = Len(s) + 1
         /\ \A x : x \in ToSet(Append(s, r)) <=> x \in ToSet(s) \/ x = r
<1>1. /\ Append(s, r) \in Seq(Rows) /\ Len(s) \in Nat /\ Len(Append(s, r)) = Len(s) + 1
      /\ \A i \in 1..Len(s) : Append(s, r)[i] = s[i]
      /\ Append(s, r)[Len(s) + 1] = r
  OBVIOUS
<1>2. \A i \in 1..Len(Append(s, r)) : i \in 1..Len(s) \/ i = Len(s) + 1
  BY <1>1
<1>3. \A x : x \in ToSet(Append(s, r)) <=> x \in ToSet(s) \/ x = r
  <2> TAKE x
  <2>1. x \in ToSet(s) <=> \E i \in 1..Len(s) : s[i] = x
    BY ToSetIs
  <2>2. x \in ToSet(Append(s, r)) <=> \E i \in 1..Len(Append(s, r)) : Append(s, r)[i] = x
    BY <1>1, ToSetIs
  <2>3. \A i \in 1..Len(s) : i \in 1..Len(Append(s, r))
    BY <1>1
  <2>4. Len(s) + 1 \in 1..Len(Append(s, r))
    BY <1>1
  <2> QED BY <1>1, <1>2, <2>1, <2>2, <2>3, <2>4
<1> QED BY <1>1, <1>2, <1>3

LEMMA EmptyToSet ==
  ASSUME NEW s \in Seq(Rows), Len(s) = 0
  PROVE  ToSet(s) = {}
<1>1. 1..Len(s) = {}
  OBVIOUS
<1>2. \A r : ~(r \in ToSet(s))
  BY <1>1, ToSetIs
<1> QED BY <1>2, Zenon

LEMMA EmptySeq == <<>> \in Seq(Rows) /\ Len(<<>>) = 0
  OBVIOUS

Distinct(s) == \A i, j \in 1..Len(s) : s[i] = s[j] => i = j

LEMMA DistinctLen ==
  ASSUME NEW s \in Seq(Rows), Distinct(s)
  PROVE  Len(s) \in Nat /\ Len(s) <= NRows
<1>1. Len(s) \in Nat /\ s \in [1..Len(s) -> Rows]
  OBVIOUS
<1>2. s \in Injection(1..Len(s), Rows)
  BY <1>1 DEF Distinct, Injection, IsInjective
<1>3. /\ IsFiniteSet(1..Len(s)) /\ Cardinality(1..Len(s)) = Len(s)
      /\ IsFiniteSet(Rows) /\ Cardinality(Rows) = NRows
  <2>1. \A n \in Nat : IsFiniteSet(1..n) /\ Cardinality(1..n) = n
    <3> TAKE n \in Nat
    <3>1. IsFiniteSet(1..n) /\ Cardinality(1..n) = IF 1 > n THEN 0 ELSE n - 1 + 1
      BY FS_Interval
    <3> QED BY <3>1
  <2> QED BY <1>1, <2>1, StoreAssumption DEF Rows
<1>4. Cardinality(1..Len(s)) <= Cardinality(Rows)
  BY <1>2, <1>3, FS_Injection
<1> QED BY <1>1, <1>3, <1>4
-----------------------------------------------------------------------------
(***************************************************************************)
(* The store.  A row is in one file, once; its file's day is the day of    *)
(* its clock reading; only past days are converted; and while no clock     *)
(* reading has been carried over midnight, a written row is in the jsonl   *)
(* of its day as long as there is one, and in its parquet if there is one. *)
(***************************************************************************)
OnceIn ==
  /\ \A d \in Days : \A i \in 1..Len(file[d]) :
       status[file[d][i]] = "written" /\ stamp[file[d][i]] = d
  /\ \A d \in Days : Distinct(file[d])
  /\ \A d \in Days : \A r \in packed[d] : status[r] = "written" /\ stamp[r] = d

Stamped ==
  /\ \A r \in Rows : status[r] # "open" => ended[r] \in Times
  /\ \A r \in Rows : status[r] = "ended" => ended[r] <= now
  /\ \A r \in Rows : status[r] \in {"pending", "written"} =>
       /\ stamp[r] \in Days /\ stamp[r] <= Day(now)
       /\ Day(ended[r]) <= stamp[r] /\ stamp[r] <= Day(ended[r]) + 1

PastOnly ==
  /\ \A d \in jsonl : d <= Day(now)
  /\ \A d \in parquet : d < Day(now)
  /\ wDay # None => wDay <= Day(now)
  /\ todo \subseteq jsonl

Rotating ==
  /\ rot \in {"next", "copy", "remove"} =>
       today \in Days /\ today <= Day(now) /\ \A d \in todo : d <= today
  /\ rot \in {"copy", "remove"} =>
       src \in jsonl /\ src \in parquet /\ src < today /\ src \notin todo
  /\ ~torn => \A d \in broken : rot = "copy" /\ d = src

Home(r) ==
  /\ stamp[r] \in jsonl \/ stamp[r] \in parquet
  /\ stamp[r] \in jsonl => r \in ToSet(file[stamp[r]])
  /\ stamp[r] \in parquet => r \in packed[stamp[r]]

InTime ==
  slips = 0 =>
    /\ \A r \in Rows : status[r] = "pending" => stamp[r] = Day(now)
    /\ wDay = Day(now) => wNamed
    /\ \A r \in Rows : status[r] = "written" => Home(r)

SInv == StoreTypeOK /\ OnceIn /\ Stamped /\ PastOnly /\ Rotating /\ InTime

LEMMA NowDay ==
  ASSUME StoreTypeOK
  PROVE  now \in Int /\ Day(now) \in Days /\ Day(now) \in Int
  BY DayRange, DaysAreInts DEF StoreTypeOK

\* What a write does.
LEMMA WriteIs ==
  ASSUME StoreTypeOK, Stamped, NEW r \in Rows, Write(r)
  PROVE  /\ status[r] = "pending" /\ status' = [status EXCEPT ![r] = "written"]
         /\ stamp[r] \in Days /\ wDay' = stamp[r]
         /\ wDay # stamp[r] => jsonl' = jsonl \cup {stamp[r]} /\ wNamed'
         /\ wDay = stamp[r] => jsonl' = jsonl /\ wNamed' = wNamed
         /\ wNamed' => file' = [file EXCEPT ![stamp[r]] = Append(file[stamp[r]], r)]
         /\ ~wNamed' => file' = file
         /\ UNCHANGED <<now, ended, stamp, parquet, broken, packed, rot, todo, today, src, slips, fails, torn>>
<1>1. status[r] = "pending" /\ stamp[r] \in Days
  BY DEF Write, Stamped
<1>2. wNamed \in BOOLEAN
  BY DEF StoreTypeOK
<1> QED BY <1>1, <1>2 DEF Write, pass

\* What a failed write does: no file is open, or the file of its day stands.
LEMMA WriteErrorIs ==
  ASSUME StoreTypeOK, Stamped, NEW r \in Rows, WriteError(r)
  PROVE  /\ status[r] = "pending" /\ status' = [status EXCEPT ![r] = "dropped"]
         /\ stamp[r] \in Days
         /\ \/ UNCHANGED <<wDay, wNamed, jsonl>>
            \/ wDay # stamp[r] /\ ~wNamed' /\ UNCHANGED <<wDay, jsonl>>
            \/ wDay' = stamp[r] /\ wNamed' /\ jsonl' = jsonl \cup {stamp[r]}
         /\ wNamed' \in BOOLEAN /\ fails < MaxFails /\ fails' = fails + 1
         /\ UNCHANGED <<now, ended, stamp, file, parquet, broken, packed, rot, todo, today, src, slips, torn>>
<1>1. status[r] = "pending" /\ stamp[r] \in Days
  BY DEF WriteError, Stamped
<1>2. wNamed \in BOOLEAN
  BY DEF StoreTypeOK
<1>3. wNamed' \in BOOLEAN
  BY <1>2 DEF WriteError
<1>4. \/ UNCHANGED <<wDay, wNamed, jsonl>>
      \/ wDay # stamp[r] /\ ~wNamed' /\ UNCHANGED <<wDay, jsonl>>
      \/ wDay' = stamp[r] /\ wNamed' /\ jsonl' = jsonl \cup {stamp[r]}
  BY DEF WriteError
<1> QED BY <1>1, <1>3, <1>4 DEF WriteError, pass

\* A step of the listener, or one of the exporter as the listener sees it.
StoreStep == StoreNext \/ (UNCHANGED listener /\ fails' \in 0..MaxFails)

LEMMA StoreTypeInit == StoreInit => StoreTypeOK
<1> SUFFICES ASSUME StoreInit PROVE StoreTypeOK
  OBVIOUS
<1>1. FirstTime \in Times /\ 0 \in 0..MaxSlips /\ 0 \in 0..MaxFails
  BY StoreAssumption DEF Times
<1>2. torn \in BOOLEAN /\ wNamed \in BOOLEAN
  BY DEF StoreInit
<1>3. \A d \in Days : <<>> \in Seq(Rows)
  BY EmptySeq
<1>4. file \in [Days -> Seq(Rows)] /\ \A d \in Days : file[d] = <<>>
  BY <1>3 DEF StoreInit
<1> QED BY <1>1, <1>2, <1>4 DEF StoreInit, StoreTypeOK

LEMMA StoreTypeStep ==
  ASSUME StoreTypeOK, Stamped, PastOnly, Rotating, StoreStep
  PROVE  StoreTypeOK'
<1> USE DEF writer, store, pass
<1>0. /\ torn \in BOOLEAN /\ wNamed \in BOOLEAN
      /\ fails < MaxFails => fails + 1 \in 0..MaxFails
  BY StoreAssumption DEF StoreTypeOK
<1>1. CASE UNCHANGED listener /\ fails' \in 0..MaxFails
  BY <1>0, <1>1 DEF listener, StoreTypeOK
<1>2. CASE Tick
  <2>1. now' \in Times
    BY <1>2, StoreAssumption DEF Tick, StoreTypeOK, Times
  <2>2. slips' \in 0..MaxSlips
    <3>1. slips' = slips + 1 \/ slips' = slips
      BY <1>2 DEF Tick
    <3> QED BY <1>2, <3>1, StoreAssumption DEF Tick, StoreTypeOK
  <2>3. UNCHANGED <<writer, store, pass, fails, torn>>
    BY <1>2 DEF Tick
  <2> QED BY <1>0, <2>1, <2>2, <2>3 DEF StoreTypeOK
<1>3. ASSUME NEW r \in Rows, End(r) PROVE StoreTypeOK'
  BY <1>0, <1>3 DEF End, StoreTypeOK
<1>4. ASSUME NEW r \in Rows, ReadClock(r) PROVE StoreTypeOK'
  BY <1>0, <1>4, NowDay DEF ReadClock, StoreTypeOK
<1>5. ASSUME NEW r \in Rows, Write(r) PROVE StoreTypeOK'
  <2> DEFINE d == stamp[r]
  <2>1. /\ d \in Days /\ wDay' = d /\ status' = [status EXCEPT ![r] = "written"]
        /\ wDay # d => jsonl' = jsonl \cup {d} /\ wNamed'
        /\ wDay = d => jsonl' = jsonl /\ wNamed' = wNamed
        /\ wNamed' => file' = [file EXCEPT ![d] = Append(file[d], r)]
        /\ ~wNamed' => file' = file
        /\ UNCHANGED <<now, ended, stamp, parquet, broken, packed, rot, todo, today, src, slips, fails, torn>>
    BY <1>5, WriteIs
  <2> HIDE DEF d
  <2>2. wNamed' \in BOOLEAN
    BY <1>5 DEF Write, StoreTypeOK
  <2>3. jsonl \in SUBSET Days /\ (wNamed => wDay \in jsonl) /\ file \in [Days -> Seq(Rows)]
        /\ \A c \in Days \ jsonl : file[c] = <<>>
    BY DEF StoreTypeOK
  <2>4. wNamed' => d \in jsonl'
    <3>1. CASE wDay # d
      BY <2>1, <3>1
    <3>2. CASE wDay = d
      BY <2>1, <2>3, <3>2, Zenon
    <3> QED BY <3>1, <3>2
  <2>5. jsonl' \in SUBSET Days /\ jsonl \subseteq jsonl'
    BY <2>1, <2>3
  <2>6. Append(file[d], r) \in Seq(Rows)
    BY <2>1, <2>3, AppendIs
  <2>7. file' \in [Days -> Seq(Rows)]
    BY <2>1, <2>2, <2>3, <2>6
  <2>8. \A c \in Days \ jsonl' : file'[c] = <<>>
    BY <2>1, <2>3, <2>4, <2>5
  <2>9. status' \in [Rows -> {"open", "ended", "pending", "written", "dropped"}]
    BY <2>1 DEF StoreTypeOK
  <2> QED BY <1>0, <2>1, <2>2, <2>4, <2>5, <2>7, <2>8, <2>9 DEF StoreTypeOK
<1>6. ASSUME NEW r \in Rows, WriteError(r) PROVE StoreTypeOK'
  <2>1. /\ status' = [status EXCEPT ![r] = "dropped"] /\ stamp[r] \in Days
        /\ \/ UNCHANGED <<wDay, wNamed, jsonl>>
           \/ ~wNamed' /\ UNCHANGED <<wDay, jsonl>>
           \/ wDay' = stamp[r] /\ wNamed' /\ jsonl' = jsonl \cup {stamp[r]}
        /\ wNamed' \in BOOLEAN /\ fails < MaxFails /\ fails' = fails + 1
        /\ UNCHANGED <<now, ended, stamp, file, parquet, broken, packed, rot, todo, today, src, slips, torn>>
    BY <1>6, WriteErrorIs
  <2>2. jsonl \in SUBSET Days /\ (wNamed => wDay \in jsonl) /\ wDay \in Days \cup {None}
        /\ \A c \in Days \ jsonl : file[c] = <<>>
    BY DEF StoreTypeOK
  <2>3. jsonl' \in SUBSET Days /\ jsonl \subseteq jsonl' /\ wDay' \in Days \cup {None}
    BY <2>1, <2>2
  <2>4. wNamed' => wDay' \in jsonl'
    <3>1. CASE UNCHANGED <<wDay, wNamed, jsonl>>
      BY <2>2, <3>1, Zenon
    <3>2. CASE ~wNamed'
      BY <3>2, Zenon
    <3>3. CASE wDay' = stamp[r] /\ jsonl' = jsonl \cup {stamp[r]}
      BY <3>3
    <3> QED BY <2>1, <3>1, <3>2, <3>3
  <2>5. \A c \in Days \ jsonl' : file'[c] = <<>>
    BY <2>1, <2>2, <2>3
  <2>6. status' \in [Rows -> {"open", "ended", "pending", "written", "dropped"}]
    BY <2>1 DEF StoreTypeOK
  <2> QED BY <1>0, <2>1, <2>3, <2>4, <2>5, <2>6 DEF StoreTypeOK
<1>7. CASE RotList
  BY <1>0, <1>7 DEF RotList, StoreTypeOK
<1>8. CASE RotToday
  BY <1>0, <1>8, NowDay DEF RotToday, StoreTypeOK
<1>9. CASE RotVisit
  <2>1. PICK d \in todo :
          /\ todo' = todo \ {d}
          /\ \/ UNCHANGED <<rot, src, parquet, broken, packed>>
             \/ src' = d /\ rot' = "remove" /\ UNCHANGED <<parquet, broken, packed>>
             \/ /\ src' = d /\ rot' = "copy"
                /\ parquet' = parquet \cup {d} /\ broken' = broken \cup {d}
                /\ packed' = [packed EXCEPT ![d] = ToSet(file[d])]
    BY <1>9 DEF RotVisit, RowsOf
  <2>2. d \in Days /\ ToSet(file[d]) \in SUBSET Rows
    <3>1. d \in Days /\ file[d] \in Seq(Rows)
      BY DEF StoreTypeOK
    <3>2. \A i \in 1..Len(file[d]) : file[d][i] \in Rows
      BY <3>1
    <3> QED BY <3>1, <3>2, ToSetIs
  <2>3. UNCHANGED <<now, writer, jsonl, file, today, slips, fails, torn>>
    BY <1>9 DEF RotVisit
  <2>4. /\ parquet' \in SUBSET Days /\ broken' \in SUBSET parquet' /\ packed' \in [Days -> SUBSET Rows]
    BY <2>1, <2>2 DEF StoreTypeOK
  <2>5. rot' \in {"idle", "list", "next", "copy", "remove"} /\ todo' \in SUBSET Days /\ src' \in Days \cup {None}
    BY <2>1, <2>2 DEF StoreTypeOK
  <2> QED BY <1>0, <2>3, <2>4, <2>5 DEF StoreTypeOK
<1>10. CASE RotCopied
  BY <1>0, <1>10 DEF RotCopied, StoreTypeOK
<1>11. CASE RotCopyFail
  BY <1>0, <1>11 DEF RotCopyFail, StoreTypeOK
<1>12. CASE RotRemove
  <2>1. src \in Days
    BY <1>12 DEF RotRemove, Rotating, StoreTypeOK
  <2>2. /\ jsonl' = jsonl \ {src} /\ file' = [file EXCEPT ![src] = <<>>]
        /\ wNamed' = (wNamed /\ wDay # src) /\ rot' = "next" /\ wDay' = wDay
    BY <1>12 DEF RotRemove
  <2>3. wNamed' \in BOOLEAN /\ (wNamed' => wDay' \in jsonl')
    BY <1>0, <2>2 DEF StoreTypeOK
  <2>4. file' \in [Days -> Seq(Rows)] /\ \A c \in Days \ jsonl' : file'[c] = <<>>
    BY <2>1, <2>2, EmptySeq DEF StoreTypeOK
  <2>5. jsonl' \in SUBSET Days /\ rot' \in {"idle", "list", "next", "copy", "remove"}
    BY <2>2 DEF StoreTypeOK
  <2>6. UNCHANGED <<now, status, ended, stamp, wDay, parquet, broken, packed, todo, today, src, slips, fails, torn>>
    BY <1>12 DEF RotRemove
  <2> QED BY <1>0, <2>3, <2>4, <2>5, <2>6 DEF StoreTypeOK
<1>13. CASE RotEnd
  BY <1>0, <1>13 DEF RotEnd, StoreTypeOK
<1>14. CASE Crash
  <2>1. torn' \in BOOLEAN /\ wNamed' \in BOOLEAN /\ ~wNamed'
    BY <1>0, <1>14 DEF Crash
  <2>2. status' \in [Rows -> {"open", "ended", "pending", "written", "dropped"}]
    BY <1>14 DEF Crash, StoreTypeOK
  <2> QED BY <1>0, <1>14, <2>1, <2>2 DEF Crash, StoreTypeOK
<1> QED BY <1>1, <1>2, <1>3, <1>4, <1>5, <1>6, <1>7, <1>8, <1>9, <1>10, <1>11, <1>12, <1>13, <1>14 DEF StoreStep, StoreNext

\* A written row stays what it is, and only Write makes one.
LEMMA WrittenStays ==
  ASSUME StoreTypeOK, StoreStep, NEW r \in Rows
  PROVE  /\ status[r] = "written" =>
              status'[r] = "written" /\ stamp'[r] = stamp[r] /\ ended'[r] = ended[r]
         /\ status'[r] = "written" => status[r] = "written" \/ Write(r)
<1> USE DEF writer, store, pass, listener
<1>1. ASSUME NEW x \in Rows, End(x) \/ ReadClock(x) \/ WriteError(x)
      PROVE  /\ status[r] = "written" =>
                  status'[r] = "written" /\ stamp'[r] = stamp[r] /\ ended'[r] = ended[r]
             /\ status'[r] = "written" => status[r] = "written"
  BY <1>1 DEF End, ReadClock, WriteError, StoreTypeOK
<1>2. ASSUME NEW x \in Rows, Write(x)
      PROVE  /\ status[r] = "written" =>
                  status'[r] = "written" /\ stamp'[r] = stamp[r] /\ ended'[r] = ended[r]
             /\ status'[r] = "written" => status[r] = "written" \/ r = x
  BY <1>2 DEF Write, StoreTypeOK
<1>3. CASE Crash
  BY <1>3 DEF Crash, StoreTypeOK
<1>4. CASE UNCHANGED <<status, stamp, ended>>
  BY <1>4
<1>5. CASE \/ Tick \/ RotList \/ RotToday \/ RotVisit \/ RotCopied \/ RotCopyFail \/ RotRemove
           \/ RotEnd \/ UNCHANGED listener
  BY <1>4, <1>5 DEF Tick, RotList, RotToday, RotVisit, RotCopied, RotCopyFail, RotRemove, RotEnd
<1> QED BY <1>1, <1>2, <1>3, <1>5 DEF StoreStep, StoreNext

LEMMA OnceInStep ==
  ASSUME SInv, StoreTypeOK', StoreStep
  PROVE  OnceIn'
<1> USE DEF writer, store, pass, listener
<1>0. /\ StoreTypeOK /\ OnceIn /\ Stamped
      /\ \A d \in Days : file[d] \in Seq(Rows) /\ file'[d] \in Seq(Rows)
      /\ packed \in [Days -> SUBSET Rows]
  BY DEF SInv, StoreTypeOK
<1>a. \A r \in Rows : status[r] = "written" => status'[r] = "written" /\ stamp'[r] = stamp[r]
  BY <1>0, WrittenStays
<1>b. ASSUME NEW d \in Days, NEW s \in Seq(Rows), NEW i \in 1..Len(s) PROVE s[i] \in Rows
  OBVIOUS
\* A file that has not changed.
<1>c. ASSUME NEW d \in Days, file'[d] = file[d]
      PROVE  /\ \A i \in 1..Len(file'[d]) : status'[file'[d][i]] = "written" /\ stamp'[file'[d][i]] = d
             /\ Distinct(file'[d])
  <2>1. \A i \in 1..Len(file[d]) : file[d][i] \in Rows
    BY <1>0, <1>b
  <2> QED BY <1>0, <1>a, <1>c, <2>1 DEF OnceIn
<1>d. ASSUME packed' = packed
      PROVE  \A d \in Days : \A r \in packed'[d] : status'[r] = "written" /\ stamp'[r] = d
  BY <1>0, <1>a, <1>d DEF OnceIn
<1>1. CASE UNCHANGED <<file, packed>>
  BY <1>1, <1>c, <1>d DEF OnceIn
<1>2. ASSUME NEW r \in Rows, Write(r) PROVE OnceIn'
  <2> DEFINE e == stamp[r]
  <2>1. /\ e \in Days /\ status[r] = "pending" /\ status' = [status EXCEPT ![r] = "written"]
        /\ stamp' = stamp /\ packed' = packed
        /\ file' = [file EXCEPT ![e] = Append(file[e], r)] \/ file' = file
    BY <1>0, <1>2, WriteIs
  <2>2. CASE file' = file
    BY <1>1, <2>1, <2>2
  <2>3. CASE file' = [file EXCEPT ![e] = Append(file[e], r)]
    <3>1. file \in [Days -> Seq(Rows)]
      BY <1>0 DEF StoreTypeOK
    <3>2. file'[e] = Append(file[e], r) /\ \A d \in Days \ {e} : file'[d] = file[d]
      BY <2>1, <2>3, <3>1
    <3>3. status'[r] = "written" /\ stamp'[r] = e
      BY <1>0, <2>1 DEF StoreTypeOK
    <3>4. \A i \in 1..Len(file[e]) : file[e][i] \in Rows /\ file[e][i] # r
      <4>1. \A i \in 1..Len(file[e]) : file[e][i] \in Rows
        BY <1>0, <1>b, <2>1
      <4> QED BY <1>0, <2>1, <4>1 DEF OnceIn
    <3> HIDE DEF e
    <3>5. /\ Len(file'[e]) = Len(file[e]) + 1 /\ Len(file[e]) \in Nat
          /\ \A i \in 1..Len(file[e]) : file'[e][i] = file[e][i]
          /\ file'[e][Len(file[e]) + 1] = r
          /\ \A i \in 1..Len(file'[e]) : i \in 1..Len(file[e]) \/ i = Len(file[e]) + 1
      BY <1>0, <2>1, <3>2, AppendIs
    <3>6. \A i \in 1..Len(file'[e]) : status'[file'[e][i]] = "written" /\ stamp'[file'[e][i]] = e
      <4>1. \A i \in 1..Len(file[e]) : status'[file'[e][i]] = "written" /\ stamp'[file'[e][i]] = e
        BY <1>0, <1>a, <2>1, <3>4, <3>5 DEF OnceIn
      <4> QED BY <3>3, <3>5, <4>1
    <3>7. Distinct(file'[e])
      <4>1. Distinct(file[e])
        BY <1>0, <2>1 DEF OnceIn
      <4>2. \A i, j \in 1..Len(file[e]) : file[e][i] = file[e][j] => i = j
        BY <4>1 DEF Distinct
      <4> QED BY <3>4, <3>5, <4>2 DEF Distinct
    <3>8. \A d \in Days \ {e} :
            /\ \A i \in 1..Len(file'[d]) : status'[file'[d][i]] = "written" /\ stamp'[file'[d][i]] = d
            /\ Distinct(file'[d])
      BY <1>c, <3>2
    <3> QED BY <1>d, <2>1, <3>6, <3>7, <3>8 DEF OnceIn
  <2> QED BY <2>1, <2>2, <2>3
<1>3. CASE RotVisit
  <2>1. /\ UNCHANGED <<file, status, stamp>>
        /\ \/ packed' = packed
           \/ \E d \in todo : packed' = [packed EXCEPT ![d] = ToSet(file[d])]
    BY <1>3 DEF RotVisit, RowsOf
  <2>2. ASSUME NEW d \in todo, packed' = [packed EXCEPT ![d] = ToSet(file[d])]
        PROVE  OnceIn'
    <3>1. d \in Days
      BY <1>0 DEF StoreTypeOK
    <3>2. \A r \in ToSet(file[d]) : status[r] = "written" /\ stamp[r] = d
      BY <1>0, <3>1, ToSetIs DEF OnceIn
    <3>3. \A c \in Days : \A r \in packed'[c] : status'[r] = "written" /\ stamp'[r] = c
      <4>1. packed'[d] = ToSet(file[d]) /\ \A c \in Days \ {d} : packed'[c] = packed[c]
        BY <1>0, <2>2, <3>1
      <4> QED BY <1>0, <2>1, <3>2, <4>1 DEF OnceIn
    <3> QED BY <1>c, <2>1, <3>3 DEF OnceIn
  <2> QED BY <1>1, <2>1, <2>2
<1>4. CASE RotCopyFail
  <2>1. file' = file /\ packed' = [packed EXCEPT ![src] = {}] /\ src \in Days
    BY <1>4 DEF RotCopyFail, SInv, Rotating, StoreTypeOK
  <2>2. packed'[src] = {} /\ \A c \in Days \ {src} : packed'[c] = packed[c]
    BY <1>0, <2>1
  <2>3. \A d \in Days : \A r \in packed'[d] : status'[r] = "written" /\ stamp'[r] = d
    BY <1>0, <1>a, <2>1, <2>2 DEF OnceIn
  <2> QED BY <1>c, <2>1, <2>3 DEF OnceIn
<1>5. CASE RotRemove
  <2>1. file' = [file EXCEPT ![src] = <<>>] /\ packed' = packed /\ src \in Days
    BY <1>5 DEF RotRemove, SInv, Rotating, StoreTypeOK
  <2>2. file'[src] = <<>> /\ \A c \in Days \ {src} : file'[c] = file[c]
    BY <1>0, <2>1 DEF StoreTypeOK
  <2>3. Distinct(file'[src]) /\ 1..Len(file'[src]) = {}
    BY <2>2 DEF Distinct
  <2> QED BY <1>c, <1>d, <2>1, <2>2, <2>3 DEF OnceIn
<1>6. CASE \/ Tick \/ (\E r \in Rows : End(r) \/ ReadClock(r) \/ WriteError(r))
           \/ RotList \/ RotToday \/ RotCopied \/ RotEnd \/ Crash \/ UNCHANGED listener
  BY <1>1, <1>6 DEF Tick, End, ReadClock, WriteError, RotList, RotToday, RotCopied, RotEnd, Crash
<1> QED BY <1>2, <1>3, <1>4, <1>5, <1>6 DEF StoreStep, StoreNext

\* The clock: only Tick moves it, and forward.
LEMMA Clock ==
  ASSUME StoreTypeOK, StoreTypeOK', StoreStep
  PROVE  /\ now \in Int /\ now' \in Int /\ Day(now) \in Days /\ Day(now') \in Days
         /\ Day(now) \in Int /\ Day(now') \in Int
         /\ now <= now' /\ Day(now) <= Day(now')
         /\ now' = now \/ Tick
<1>1. now \in Times /\ now' \in Times
  BY DEF StoreTypeOK
<1>2. /\ now \in Int /\ now' \in Int /\ Day(now) \in Days /\ Day(now') \in Days
      /\ Day(now) \in Int /\ Day(now') \in Int
  BY <1>1, DayRange, DaysAreInts
<1>3. now' = now \/ Tick
  BY DEF StoreStep, StoreNext, listener, End, ReadClock, Write, WriteError, RotList, RotToday, RotVisit,
       RotCopied, RotCopyFail, RotRemove, RotEnd, Crash
<1>4. now <= now'
  BY <1>2, <1>3 DEF Tick
<1>5. Day(now) <= Day(now')
  BY <1>2, <1>4, DayMono
<1> QED BY <1>2, <1>3, <1>4, <1>5

LEMMA StampedStep ==
  ASSUME StoreTypeOK, StoreTypeOK', Stamped, StoreStep
  PROVE  Stamped'
<1> USE DEF writer, store, pass, listener
<1>0. /\ now \in Int /\ now' \in Int /\ Day(now) \in Int /\ Day(now') \in Int /\ Day(now) \in Days
      /\ now <= now' /\ Day(now) <= Day(now') /\ (now' = now \/ Tick)
  BY Clock
<1>a. \A t \in Times : t \in Int /\ Day(t) \in Int
  BY DayRange, DaysAreInts
<1>b. \A d \in Days : d \in Int
  BY DaysAreInts
\* A row that does not change.
<1>1. ASSUME NEW r \in Rows,
             status'[r] = status[r] \/ (status'[r] \in {"written", "dropped"} /\ status[r] = "pending"),
             ended'[r] = ended[r], stamp'[r] = stamp[r]
      PROVE  /\ status'[r] # "open" => ended'[r] \in Times
             /\ status'[r] = "ended" => ended'[r] <= now'
             /\ status'[r] \in {"pending", "written"} =>
                  /\ stamp'[r] \in Days /\ stamp'[r] <= Day(now')
                  /\ Day(ended'[r]) <= stamp'[r] /\ stamp'[r] <= Day(ended'[r]) + 1
  <2>1. status'[r] # "open" => ended'[r] \in Times
    BY <1>1 DEF Stamped
  <2>2. status'[r] = "ended" => ended'[r] <= now'
    <3> SUFFICES ASSUME status'[r] = "ended" PROVE ended'[r] <= now'
      OBVIOUS
    <3>1. ended[r] \in Times /\ ended[r] <= now
      BY <1>1 DEF Stamped
    <3> QED BY <1>0, <1>1, <1>a, <3>1
  <2>3. ASSUME status'[r] \in {"pending", "written"}
        PROVE  /\ stamp'[r] \in Days /\ stamp'[r] <= Day(now')
               /\ Day(ended'[r]) <= stamp'[r] /\ stamp'[r] <= Day(ended'[r]) + 1
    <3>1. /\ stamp[r] \in Days /\ stamp[r] <= Day(now)
          /\ Day(ended[r]) <= stamp[r] /\ stamp[r] <= Day(ended[r]) + 1
      BY <1>1, <2>3 DEF Stamped
    <3>2. stamp[r] <= Day(now')
      BY <1>0, <1>b, <3>1
    <3> QED BY <1>1, <3>1, <3>2
  <2> QED BY <2>1, <2>2, <2>3
<1>2. ASSUME NEW x \in Rows, End(x) PROVE Stamped'
  <2>1. /\ status' = [status EXCEPT ![x] = "ended"] /\ ended' = [ended EXCEPT ![x] = now]
        /\ UNCHANGED <<now, stamp>>
    BY <1>2 DEF End
  <2>2. /\ status'[x] = "ended" /\ ended'[x] = now
        /\ \A r \in Rows \ {x} : status'[r] = status[r] /\ ended'[r] = ended[r] /\ stamp'[r] = stamp[r]
    BY <2>1 DEF StoreTypeOK
  <2>3. now \in Times /\ now <= now'
    BY <1>0 DEF StoreTypeOK
  <2> QED BY <1>1, <2>1, <2>2, <2>3 DEF Stamped
<1>3. ASSUME NEW x \in Rows, ReadClock(x) PROVE Stamped'
  <2>1. /\ status[x] = "ended" /\ Day(now) <= Day(ended[x]) + 1
        /\ status' = [status EXCEPT ![x] = "pending"] /\ stamp' = [stamp EXCEPT ![x] = Day(now)]
        /\ UNCHANGED <<now, ended>>
    BY <1>3 DEF ReadClock
  <2>2. /\ status'[x] = "pending" /\ stamp'[x] = Day(now) /\ ended'[x] = ended[x]
        /\ \A r \in Rows \ {x} : status'[r] = status[r] /\ ended'[r] = ended[r] /\ stamp'[r] = stamp[r]
    BY <2>1 DEF StoreTypeOK
  <2>3. ended[x] \in Times /\ ended[x] <= now
    BY <2>1 DEF Stamped
  <2>4. Day(ended[x]) <= Day(now)
    BY <1>0, <1>a, <2>3, DayMono
  <2>5. Day(now) <= Day(now')
    BY <1>0
  <2> QED BY <1>0, <1>1, <2>1, <2>2, <2>3, <2>4, <2>5 DEF Stamped
<1>4. ASSUME NEW x \in Rows, Write(x) \/ WriteError(x) PROVE Stamped'
  <2>1. /\ status[x] = "pending" /\ UNCHANGED <<stamp, ended>>
        /\ status' = [status EXCEPT ![x] = "written"] \/ status' = [status EXCEPT ![x] = "dropped"]
    BY <1>4 DEF Write, WriteError
  <2>2. \A r \in Rows : status'[r] = status[r] \/ (status'[r] \in {"written", "dropped"} /\ status[r] = "pending")
    BY <2>1 DEF StoreTypeOK
  <2> QED BY <1>1, <2>1, <2>2 DEF Stamped
<1>5. CASE Crash
  <2>1. /\ UNCHANGED <<stamp, ended>>
        /\ status' = [r \in Rows |-> IF status[r] = "pending" THEN "dropped" ELSE status[r]]
    BY <1>5 DEF Crash
  <2>2. \A r \in Rows : status'[r] = status[r] \/ (status'[r] \in {"written", "dropped"} /\ status[r] = "pending")
    BY <2>1
  <2> QED BY <1>1, <2>1, <2>2 DEF Stamped
<1>6. CASE \/ Tick \/ RotList \/ RotToday \/ RotVisit \/ RotCopied \/ RotCopyFail \/ RotRemove
           \/ RotEnd \/ UNCHANGED listener
  <2>1. UNCHANGED <<status, stamp, ended>>
    BY <1>6 DEF Tick, RotList, RotToday, RotVisit, RotCopied, RotCopyFail, RotRemove, RotEnd
  <2> QED BY <1>1, <2>1 DEF Stamped
<1> QED BY <1>2, <1>3, <1>4, <1>5, <1>6 DEF StoreStep, StoreNext

LEMMA PastOnlyStep ==
  ASSUME SInv, StoreTypeOK', StoreStep
  PROVE  PastOnly'
<1> USE DEF writer, store, pass, listener
<1>0. /\ Day(now) \in Int /\ Day(now') \in Int /\ Day(now) <= Day(now') /\ (now' = now \/ Tick)
      /\ StoreTypeOK /\ Stamped /\ PastOnly /\ Rotating
  BY Clock DEF SInv
<1>a. \A d \in Days : d \in Int
  BY DaysAreInts
<1>b. jsonl \in SUBSET Days /\ parquet \in SUBSET Days /\ wDay \in Days \cup {None}
  BY <1>0 DEF StoreTypeOK
\* What was past or present stays so.
<1>1. /\ \A d \in jsonl : d <= Day(now')
      /\ \A d \in parquet : d < Day(now')
      /\ wDay # None => wDay <= Day(now')
      /\ todo \subseteq jsonl
  BY <1>0, <1>a, <1>b DEF PastOnly
<1>2. CASE UNCHANGED <<jsonl, parquet, wDay, todo>>
  BY <1>1, <1>2 DEF PastOnly
<1>3. ASSUME NEW r \in Rows, Write(r) PROVE PastOnly'
  <2>1. /\ wDay' = stamp[r] /\ status[r] = "pending"
        /\ jsonl' = jsonl \cup {stamp[r]} \/ jsonl' = jsonl
        /\ UNCHANGED <<now, parquet, todo>>
    BY <1>0, <1>3, WriteIs
  <2>2. stamp[r] <= Day(now)
    BY <1>0, <2>1 DEF Stamped
  <2> QED BY <1>1, <2>1, <2>2 DEF PastOnly
<1>10. ASSUME NEW r \in Rows, WriteError(r) PROVE PastOnly'
  <2>1. /\ wDay' = wDay \/ wDay' = stamp[r]
        /\ jsonl' = jsonl \cup {stamp[r]} \/ jsonl' = jsonl
        /\ UNCHANGED <<now, parquet, todo>> /\ status[r] = "pending"
    BY <1>0, <1>10, WriteErrorIs
  <2>2. stamp[r] <= Day(now)
    BY <1>0, <2>1 DEF Stamped
  <2> QED BY <1>1, <2>1, <2>2 DEF PastOnly
<1>4. CASE RotVisit
  <2>1. PICK d \in todo :
          /\ todo' = todo \ {d} /\ UNCHANGED <<now, jsonl, wDay>>
          /\ parquet' = parquet \/ (parquet' = parquet \cup {d} /\ d # today)
    BY <1>4 DEF RotVisit
  <2>2. d \in Days /\ today \in Days /\ d <= today /\ today <= Day(now)
    BY <1>0, <1>4 DEF RotVisit, Rotating, StoreTypeOK
  <2>3. d # today => d < Day(now')
    BY <1>0, <1>a, <2>2
  <2> QED BY <1>1, <2>1, <2>3 DEF PastOnly
<1>5. CASE RotRemove
  <2>1. jsonl' = jsonl \ {src} /\ UNCHANGED <<now, wDay, parquet, todo>> /\ src \notin todo
    BY <1>0, <1>5 DEF RotRemove, Rotating
  <2> QED BY <1>1, <2>1 DEF PastOnly
<1>6. CASE RotCopyFail
  BY <1>1, <1>6 DEF RotCopyFail, PastOnly
<1>7. CASE Crash
  BY <1>1, <1>7 DEF Crash, PastOnly
<1>8. CASE RotList
  BY <1>1, <1>8 DEF RotList, PastOnly
<1>9. CASE \/ Tick \/ (\E r \in Rows : End(r) \/ ReadClock(r))
           \/ RotToday \/ RotCopied \/ RotEnd \/ UNCHANGED listener
  BY <1>2, <1>9 DEF Tick, End, ReadClock, RotToday, RotCopied, RotEnd
<1> QED BY <1>3, <1>10, <1>4, <1>5, <1>6, <1>7, <1>8, <1>9 DEF StoreStep, StoreNext

LEMMA RotatingStep ==
  ASSUME SInv, StoreTypeOK', StoreStep
  PROVE  Rotating'
<1> USE DEF writer, store, pass, listener
<1>0. /\ Day(now) \in Int /\ Day(now') \in Int /\ Day(now) <= Day(now') /\ Day(now) \in Days
      /\ StoreTypeOK /\ PastOnly /\ Rotating
  BY Clock DEF SInv
<1>a. \A d \in Days : d \in Int
  BY DaysAreInts
<1>1. rot \in {"next", "copy", "remove"} =>
        today \in Days /\ today <= Day(now') /\ \A d \in todo : d <= today
  BY <1>0, <1>a DEF Rotating
<1>2. CASE UNCHANGED <<rot, today, todo, src, jsonl, parquet, broken, torn>>
  BY <1>0, <1>1, <1>2 DEF Rotating
<1>3. ASSUME NEW r \in Rows, Write(r) \/ WriteError(r) PROVE Rotating'
  <2>1. jsonl \subseteq jsonl' /\ UNCHANGED <<rot, today, todo, src, parquet, broken, torn>>
    BY <1>3 DEF Write, WriteError
  <2> QED BY <1>0, <1>1, <2>1 DEF Rotating
<1>4. CASE RotList
  BY <1>0, <1>4 DEF RotList, Rotating
<1>5. CASE RotToday
  <2>1. \A d \in todo : d <= Day(now)
    BY <1>0 DEF PastOnly
  <2> QED BY <1>0, <1>5, <2>1 DEF RotToday, Rotating
<1>6. CASE RotVisit
  <2>1. PICK d \in todo :
          /\ todo' = todo \ {d} /\ UNCHANGED <<now, jsonl, today, torn>>
          /\ \/ d = today /\ UNCHANGED <<rot, src, parquet, broken>>
             \/ d # today /\ src' = d /\ d \in parquet /\ rot' = "remove" /\ UNCHANGED <<parquet, broken>>
             \/ /\ d # today /\ src' = d /\ rot' = "copy"
                /\ parquet' = parquet \cup {d} /\ broken' = broken \cup {d}
    BY <1>6 DEF RotVisit
  <2>2. rot = "next" /\ d \in jsonl /\ d \in Int /\ today \in Int /\ d <= today
    BY <1>0, <1>6, <1>a DEF RotVisit, Rotating, PastOnly, StoreTypeOK
  <2>3. d # today => d < today
    BY <2>2
  <2>4. ~torn => broken = {}
    BY <1>0, <2>2 DEF Rotating
  <2> QED BY <1>0, <1>1, <2>1, <2>2, <2>3, <2>4 DEF Rotating
<1>7. CASE RotCopied
  <2>1. /\ rot = "copy" /\ rot' = "remove" /\ broken' = broken \ {src}
        /\ UNCHANGED <<today, todo, src, jsonl, parquet, torn>>
    BY <1>7 DEF RotCopied
  <2> QED BY <1>0, <1>1, <2>1 DEF Rotating
<1>8. CASE RotCopyFail
  <2>1. /\ rot = "copy" /\ rot' = "next" /\ broken' = broken \ {src}
        /\ UNCHANGED <<today, todo, src, jsonl, torn>>
    BY <1>8 DEF RotCopyFail
  <2> QED BY <1>0, <1>1, <2>1 DEF Rotating
<1>9. CASE RotRemove
  <2>1. /\ rot = "remove" /\ rot' = "next"
        /\ UNCHANGED <<today, todo, src, broken, torn>>
    BY <1>9 DEF RotRemove
  <2> QED BY <1>0, <1>1, <2>1 DEF Rotating
<1>10. CASE RotEnd
  BY <1>0, <1>10 DEF RotEnd, Rotating
<1>11. CASE Crash
  <2>1. rot' = "idle" /\ torn' = (torn \/ rot = "copy") /\ broken' = broken
    BY <1>11 DEF Crash
  <2>2. ~torn' => ~torn /\ rot # "copy"
    BY <2>1
  <2> QED BY <1>0, <2>1, <2>2 DEF Rotating
<1>12. CASE \/ Tick \/ (\E r \in Rows : End(r) \/ ReadClock(r)) \/ UNCHANGED listener
  BY <1>2, <1>12 DEF Tick, End, ReadClock
<1> QED BY <1>3, <1>4, <1>5, <1>6, <1>7, <1>8, <1>9, <1>10, <1>11, <1>12 DEF StoreStep, StoreNext

LEMMA InTimeStep ==
  ASSUME SInv, StoreTypeOK', StoreStep
  PROVE  InTime'
<1> USE DEF writer, store, pass, listener
<1> SUFFICES ASSUME slips' = 0
             PROVE  /\ \A r \in Rows : status'[r] = "pending" => stamp'[r] = Day(now')
                    /\ wDay' = Day(now') => wNamed'
                    /\ \A r \in Rows : status'[r] = "written" => Home(r)'
  BY DEF InTime
<1>0. /\ Day(now) \in Int /\ Day(now') \in Int /\ Day(now) <= Day(now') /\ Day(now) \in Days
      /\ Day(now') \in Days /\ (now' = now \/ Tick)
      /\ StoreTypeOK /\ Stamped /\ PastOnly /\ Rotating /\ InTime
  BY Clock DEF SInv
<1>a. \A d \in Days : d \in Int /\ d # None
  BY DaysAreInts, NotNone
<1>b. slips = 0
  <2>1. slips' = slips \/ slips' = slips + 1
    BY DEF StoreStep, StoreNext, Tick, End, ReadClock, Write, WriteError, RotList, RotToday, RotVisit,
         RotCopied, RotCopyFail, RotRemove, RotEnd, Crash
  <2> QED BY <1>0, <2>1 DEF StoreTypeOK
<1>1. /\ \A r \in Rows : status[r] = "pending" => stamp[r] = Day(now)
      /\ wDay = Day(now) => wNamed
      /\ \A r \in Rows : status[r] = "written" => Home(r)
  BY <1>0, <1>b DEF InTime
<1>2. \A r \in Rows : /\ status[r] = "written" => status'[r] = "written" /\ stamp'[r] = stamp[r]
                      /\ status'[r] = "written" => status[r] = "written" \/ Write(r)
  BY <1>0, WrittenStays
\* The files are as before and nothing was written.
<1>3. ASSUME UNCHANGED <<jsonl, file, parquet, packed>>, \A r \in Rows : ~Write(r)
      PROVE  \A r \in Rows : status'[r] = "written" => Home(r)'
  BY <1>1, <1>2, <1>3 DEF Home
<1>4. CASE Tick
  <2>1. \A r \in Rows : ~Write(r)
    <3>1. now \in Int
      BY <1>0, NowDay
    <3> QED BY <1>4, <3>1 DEF Tick, Write
  <2>2. \A r \in Rows : status'[r] = "written" => Home(r)'
    BY <1>3, <1>4, <2>1 DEF Tick
  <2>3. CASE Day(now') = Day(now)
    BY <1>1, <1>4, <2>2, <2>3 DEF Tick
  <2>4. CASE Day(now') # Day(now)
    <3>1. now' = now + 1 /\ UNCHANGED <<status, stamp, wDay, wNamed>>
      BY <1>4 DEF Tick
    <3>2. \A r \in Rows : status[r] # "pending"
      BY <1>4, <1>b, <2>4 DEF Tick
    <3>3. wDay # Day(now')
      <4>1. wDay # None => wDay <= Day(now)
        BY <1>0 DEF PastOnly
      <4>2. Day(now) < Day(now') /\ Day(now') # None
        BY <1>0, <1>a, <2>4
      <4>3. wDay # None => wDay \in Int
        BY <1>0, <1>a DEF StoreTypeOK
      <4> QED BY <1>0, <4>1, <4>2, <4>3
    <3> QED BY <2>2, <3>1, <3>2, <3>3
  <2> QED BY <2>3, <2>4
<1>5. ASSUME NEW x \in Rows, End(x) PROVE InTime'
  <2>1. /\ UNCHANGED <<now, stamp, wDay, wNamed, jsonl, file, parquet, packed>>
        /\ status' = [status EXCEPT ![x] = "ended"]
    BY <1>5 DEF End
  <2>2. \A r \in Rows : status'[r] \in {"pending", "written"} => status'[r] = status[r]
    BY <1>0, <2>1 DEF StoreTypeOK
  <2> QED BY <1>1, <2>1, <2>2 DEF InTime, Home
<1>6. ASSUME NEW x \in Rows, ReadClock(x) PROVE InTime'
  <2>1. /\ UNCHANGED <<now, wDay, wNamed, jsonl, file, parquet, packed>> /\ status[x] = "ended"
        /\ status' = [status EXCEPT ![x] = "pending"] /\ stamp' = [stamp EXCEPT ![x] = Day(now)]
    BY <1>6 DEF ReadClock
  <2>2. /\ \A r \in Rows : status'[r] = "pending" => stamp'[r] = Day(now)
        /\ \A r \in Rows : status'[r] = "written" => status[r] = "written" /\ stamp'[r] = stamp[r]
    BY <1>0, <1>1, <2>1 DEF StoreTypeOK
  <2> QED BY <1>1, <2>1, <2>2 DEF InTime, Home
<1>7. ASSUME NEW x \in Rows, Write(x) PROVE InTime'
  <2> DEFINE d == Day(now)
  <2>1. /\ status[x] = "pending" /\ status' = [status EXCEPT ![x] = "written"] /\ wDay' = stamp[x]
        /\ wDay # stamp[x] => jsonl' = jsonl \cup {stamp[x]} /\ wNamed'
        /\ wDay = stamp[x] => jsonl' = jsonl /\ wNamed' = wNamed
        /\ wNamed' => file' = [file EXCEPT ![stamp[x]] = Append(file[stamp[x]], x)]
        /\ UNCHANGED <<now, ended, stamp, parquet, packed>>
    BY <1>0, <1>7, WriteIs
  <2>2. stamp[x] = d /\ d \in Days
    BY <1>0, <1>1, <2>1
  <2>3. wNamed'
    <3>1. CASE wDay # d
      BY <2>1, <2>2, <3>1
    <3>2. CASE wDay = d
      <4>1. wNamed' = wNamed
        BY <2>1, <2>2, <3>2
      <4>2. wNamed
        BY <1>1, <3>2
      <4> QED BY <4>1, <4>2, Zenon
    <3> QED BY <3>1, <3>2
  <2> HIDE DEF d
  <2>4. file' = [file EXCEPT ![d] = Append(file[d], x)] /\ (jsonl' = jsonl \/ jsonl' = jsonl \cup {d})
    BY <2>1, <2>2, <2>3
  <2>5. d \notin parquet
    BY <1>0, <1>a, <2>2 DEF PastOnly, d
  <2>6. d \in jsonl'
    BY <2>1, <2>2, <2>3 DEF StoreTypeOK
  <2>7. file \in [Days -> Seq(Rows)]
    BY <1>0 DEF StoreTypeOK
  <2>8. /\ \A y : y \in ToSet(file'[d]) <=> y \in ToSet(file[d]) \/ y = x
        /\ \A c \in Days \ {d} : file'[c] = file[c]
    <3>1. file'[d] = Append(file[d], x) /\ \A c \in Days \ {d} : file'[c] = file[c]
      BY <2>2, <2>4, <2>7
    <3>2. file[d] \in Seq(Rows)
      BY <2>2, <2>7
    <3> QED BY <3>1, <3>2, AppendIs
  <2>9. \A r \in Rows : status'[r] = "written" => Home(r)'
    <3> SUFFICES ASSUME NEW r \in Rows, status'[r] = "written" PROVE Home(r)'
      OBVIOUS
    <3>1. CASE r = x
      BY <2>1, <2>2, <2>5, <2>6, <2>8, <3>1 DEF Home
    <3>2. CASE r # x
      <4>1. status[r] = "written" /\ Home(r) /\ stamp'[r] = stamp[r] /\ stamp[r] \in Days
        BY <1>0, <1>1, <2>1, <3>2 DEF StoreTypeOK, Stamped
      <4>2. CASE stamp[r] = d
        BY <2>1, <2>5, <2>6, <2>8, <4>1, <4>2 DEF Home
      <4>3. CASE stamp[r] # d
        BY <2>1, <2>4, <2>8, <4>1, <4>3 DEF Home
      <4> QED BY <4>2, <4>3
    <3> QED BY <3>1, <3>2
  <2>10. \A r \in Rows : status'[r] = "pending" => stamp'[r] = Day(now')
    <3>1. \A r \in Rows : status'[r] = "pending" => status[r] = "pending"
      BY <1>0, <2>1 DEF StoreTypeOK
    <3> QED BY <1>1, <2>1, <3>1
  <2> QED BY <2>3, <2>9, <2>10 DEF InTime
<1>8. ASSUME NEW x \in Rows, WriteError(x) PROVE InTime'
  <2> DEFINE d == Day(now)
  <2>1. /\ status[x] = "pending" /\ status' = [status EXCEPT ![x] = "dropped"]
        /\ \/ UNCHANGED <<wDay, wNamed, jsonl>>
           \/ wDay # stamp[x] /\ UNCHANGED <<wDay, jsonl>>
           \/ wNamed' /\ jsonl' = jsonl \cup {stamp[x]}
        /\ UNCHANGED <<now, stamp, file, parquet, packed>>
    BY <1>0, <1>8, WriteErrorIs
  <2>2. \A r \in Rows : status'[r] \in {"pending", "written"} => status'[r] = status[r]
    BY <1>0, <2>1 DEF StoreTypeOK
  <2>3. stamp[x] = d /\ d \notin parquet
    BY <1>0, <1>1, <1>a, <2>1 DEF PastOnly
  <2>4. wDay' = d => wNamed'
    BY <1>1, <2>1, <2>3, Zenon
  \* A new file is today's, and no written row of today is without its file.
  <2>5. \A r \in Rows : status'[r] = "written" => Home(r)'
    <3> SUFFICES ASSUME NEW r \in Rows, status'[r] = "written" PROVE Home(r)'
      OBVIOUS
    <3>1. Home(r) /\ (jsonl' = jsonl \/ jsonl' = jsonl \cup {d})
      BY <1>1, <2>1, <2>2, <2>3
    <3> QED BY <2>1, <2>3, <3>1 DEF Home
  <2> QED BY <1>1, <2>1, <2>2, <2>4, <2>5 DEF InTime
<1>9. CASE RotVisit
  <2>1. /\ UNCHANGED <<now, status, stamp, wDay, wNamed, jsonl, file>>
        /\ \/ UNCHANGED <<parquet, packed>>
           \/ \E d \in todo : /\ d \notin parquet /\ parquet' = parquet \cup {d}
                              /\ packed' = [packed EXCEPT ![d] = ToSet(file[d])]
    BY <1>9 DEF RotVisit, RowsOf
  <2>2. ASSUME NEW d \in todo, d \notin parquet, parquet' = parquet \cup {d},
               packed' = [packed EXCEPT ![d] = ToSet(file[d])],
               NEW r \in Rows, status'[r] = "written"
        PROVE  Home(r)'
    <3>1. Home(r) /\ stamp[r] \in Days /\ d \in Days /\ stamp'[r] = stamp[r]
      BY <1>0, <1>1, <2>1, <2>2 DEF Stamped, StoreTypeOK
    <3>2. packed'[d] = ToSet(file[d]) /\ \A c \in Days \ {d} : packed'[c] = packed[c]
      BY <1>0, <2>2, <3>1 DEF StoreTypeOK
    <3>3. CASE stamp[r] = d
      BY <2>1, <2>2, <3>1, <3>2, <3>3 DEF Home
    <3>4. CASE stamp[r] # d
      BY <2>1, <2>2, <3>1, <3>2, <3>4 DEF Home
    <3> QED BY <3>3, <3>4
  <2>3. \A r \in Rows : status'[r] = "written" => Home(r)'
    BY <1>1, <2>1, <2>2 DEF Home
  <2> QED BY <1>1, <2>1, <2>3
<1>10. CASE RotCopyFail
  <2>1. /\ UNCHANGED <<now, status, stamp, wDay, wNamed, jsonl, file>> /\ rot = "copy"
        /\ parquet' = parquet \ {src} /\ packed' = [packed EXCEPT ![src] = {}]
    BY <1>10 DEF RotCopyFail
  <2>2. src \in jsonl /\ src \in Days
    BY <1>0, <2>1 DEF Rotating, StoreTypeOK
  <2>3. \A c \in Days \ {src} : packed'[c] = packed[c]
    BY <1>0, <2>1, <2>2 DEF StoreTypeOK
  <2>4. ASSUME NEW r \in Rows, status'[r] = "written" PROVE Home(r)'
    <3>1. Home(r) /\ stamp[r] \in Days /\ stamp'[r] = stamp[r]
      BY <1>0, <1>1, <2>1, <2>4 DEF Stamped
    <3>2. CASE stamp[r] = src
      BY <2>1, <2>2, <3>1, <3>2 DEF Home
    <3>3. CASE stamp[r] # src
      BY <2>1, <2>3, <3>1, <3>3 DEF Home
    <3> QED BY <3>2, <3>3
  <2> QED BY <1>1, <2>1, <2>4
<1>11. CASE RotRemove
  <2>1. /\ UNCHANGED <<now, status, stamp, wDay, parquet, packed>> /\ rot = "remove"
        /\ jsonl' = jsonl \ {src} /\ file' = [file EXCEPT ![src] = <<>>]
        /\ wNamed' = (wNamed /\ wDay # src)
    BY <1>11 DEF RotRemove
  <2>2. src \in jsonl /\ src \in parquet /\ src \in Days /\ src < Day(now)
    BY <1>0, <1>a, <2>1 DEF Rotating, PastOnly, StoreTypeOK
  <2>3. \A c \in Days \ {src} : file'[c] = file[c]
    BY <1>0, <2>1, <2>2 DEF StoreTypeOK
  <2>4. ASSUME NEW r \in Rows, status'[r] = "written" PROVE Home(r)'
    <3>1. Home(r) /\ stamp[r] \in Days /\ stamp'[r] = stamp[r]
      BY <1>0, <1>1, <2>1, <2>4 DEF Stamped
    <3>2. CASE stamp[r] = src
      BY <2>1, <2>2, <3>1, <3>2 DEF Home
    <3>3. CASE stamp[r] # src
      BY <2>1, <2>3, <3>1, <3>3 DEF Home
    <3> QED BY <3>2, <3>3
  <2>5. Day(now) # src
    BY <1>0, <1>a, <2>2
  <2>6. wDay' = Day(now') => wNamed'
    <3>1. wDay = Day(now) => wNamed /\ wDay # src
      BY <1>1, <2>5, Zenon
    <3> QED BY <2>1, <3>1
  <2> QED BY <1>1, <2>1, <2>4, <2>6
<1>12. CASE Crash
  <2>1. /\ UNCHANGED <<now, stamp, jsonl, file, parquet, packed>> /\ wDay' = None
        /\ status' = [r \in Rows |-> IF status[r] = "pending" THEN "dropped" ELSE status[r]]
    BY <1>12 DEF Crash
  <2>2. \A r \in Rows : status'[r] # "pending" /\ (status'[r] = "written" => status[r] = "written")
    BY <2>1
  <2>3. wDay' # Day(now')
    BY <1>0, <1>a, <2>1
  <2>4. \A r \in Rows : status'[r] = "written" => Home(r)'
    BY <1>1, <2>1, <2>2 DEF Home
  <2> QED BY <2>2, <2>3, <2>4
<1>13. CASE RotList \/ RotToday \/ RotCopied \/ RotEnd \/ UNCHANGED listener
  <2>1. UNCHANGED <<now, status, stamp, wDay, wNamed, jsonl, file, parquet, packed>>
    BY <1>13 DEF RotList, RotToday, RotCopied, RotEnd
  <2> QED BY <1>1, <2>1 DEF Home
<1> QED BY <1>4, <1>5, <1>6, <1>7, <1>8, <1>9, <1>10, <1>11, <1>12, <1>13 DEF StoreStep, StoreNext, InTime

LEMMA StoreInvStep ==
  ASSUME SInv, StoreStep
  PROVE  SInv'
<1>1. StoreTypeOK'
  BY StoreTypeStep DEF SInv
<1> QED BY <1>1, OnceInStep, StampedStep, PastOnlyStep, RotatingStep, InTimeStep DEF SInv

LEMMA StoreInvInit == StoreInit => SInv
<1> SUFFICES ASSUME StoreInit PROVE SInv
  OBVIOUS
<1>1. StoreTypeOK
  BY StoreTypeInit
<1>2. /\ \A d \in Days : file[d] = <<>> /\ packed[d] = {}
      /\ \A r \in Rows : status[r] = "open"
      /\ jsonl = {} /\ parquet = {} /\ broken = {} /\ todo = {} /\ rot = "idle" /\ wDay = None
  BY DEF StoreInit
<1>3. OnceIn
  BY <1>2 DEF OnceIn, Distinct
<1>4. Stamped /\ PastOnly /\ Rotating
  BY <1>2 DEF Stamped, PastOnly, Rotating
<1>5. InTime
  BY <1>1, <1>2, NowDay, NotNone DEF InTime
<1> QED BY <1>1, <1>3, <1>4, <1>5 DEF SInv

LEMMA KeptRows == SInv => RowsKept
<1> SUFFICES ASSUME SInv, ~torn, slips = 0, NEW r \in Rows, status[r] = "written"
             PROVE  r \in Stored
  BY DEF RowsKept
<1>1. Home(r)
  BY DEF SInv, InTime
<1>2. CASE stamp[r] \in jsonl
  BY <1>1, <1>2 DEF Home, Stored, RowsOf
<1>3. CASE stamp[r] \notin jsonl
  <2>1. stamp[r] \in parquet /\ r \in packed[stamp[r]]
    BY <1>1, <1>3 DEF Home
  <2>2. stamp[r] \notin broken
    BY <1>3 DEF SInv, Rotating
  <2>3. r \in UNION {packed[d] : d \in parquet \ broken}
    BY <2>1, <2>2
  <2> QED BY <2>3 DEF Stored
<1> QED BY <1>2, <1>3

\* What a step of the listener does to a jsonl: nothing, one more row, or
\* the removal of the file of a past day.
LEMMA FileStep ==
  ASSUME SInv, StoreStep, NEW d \in Days
  PROVE  \/ file'[d] = file[d] /\ (d \in jsonl => d \in jsonl')
         \/ /\ d \in jsonl'
            /\ \E r \in Rows :
                 Write(r) /\ stamp[r] = d /\ status[r] = "pending" /\ file'[d] = Append(file[d], r)
         \/ d \in jsonl \ jsonl' /\ file'[d] = <<>> /\ d < Day(now) /\ \A r \in Rows : ~Write(r)
<1> USE DEF writer, store, pass, listener
<1>0. /\ StoreTypeOK /\ Stamped /\ PastOnly /\ Rotating /\ StoreTypeOK'
      /\ file \in [Days -> Seq(Rows)] /\ Day(now) \in Int
  BY StoreInvStep, NowDay DEF SInv, StoreTypeOK
<1>1. CASE UNCHANGED <<file, jsonl>>
  BY <1>1
<1>2. ASSUME NEW r \in Rows, Write(r)
      PROVE  \/ file'[d] = file[d] /\ (d \in jsonl => d \in jsonl')
             \/ /\ d \in jsonl' /\ stamp[r] = d /\ status[r] = "pending"
                /\ file'[d] = Append(file[d], r)
  <2>1. /\ status[r] = "pending" /\ wDay' = stamp[r] /\ stamp[r] \in Days
        /\ jsonl' = jsonl \cup {stamp[r]} \/ jsonl' = jsonl
        /\ wNamed' => file' = [file EXCEPT ![stamp[r]] = Append(file[stamp[r]], r)]
        /\ ~wNamed' => file' = file
    BY <1>0, <1>2, WriteIs
  <2>2. CASE ~wNamed'
    BY <2>1, <2>2
  <2>3. CASE wNamed'
    <3>1. stamp[r] \in jsonl'
      BY <1>0, <2>1, <2>3 DEF StoreTypeOK
    <3>2. CASE d = stamp[r]
      BY <1>0, <2>1, <2>3, <3>1, <3>2
    <3>3. CASE d # stamp[r]
      BY <1>0, <2>1, <2>3, <3>3
    <3> QED BY <3>2, <3>3
  <2> QED BY <2>2, <2>3
<1>3. CASE RotRemove
  <2>1. /\ jsonl' = jsonl \ {src} /\ file' = [file EXCEPT ![src] = <<>>] /\ rot = "remove"
        /\ status' = status
    BY <1>3 DEF RotRemove
  <2>2. src \in jsonl /\ src \in Days /\ src < Day(now)
    BY <1>0, <2>1 DEF Rotating, PastOnly, StoreTypeOK
  <2>3. \A r \in Rows : ~Write(r)
    BY <1>0, <2>1 DEF Write, StoreTypeOK
  <2>4. CASE d = src
    BY <1>0, <2>1, <2>2, <2>3, <2>4
  <2>5. CASE d # src
    BY <1>0, <2>1, <2>2, <2>5
  <2> QED BY <2>4, <2>5
<1>4. CASE \/ Tick \/ (\E r \in Rows : End(r) \/ ReadClock(r) \/ WriteError(r))
           \/ RotList \/ RotToday \/ RotVisit \/ RotCopied \/ RotCopyFail \/ RotEnd \/ Crash
           \/ UNCHANGED listener
  BY <1>1, <1>4 DEF Tick, End, ReadClock, WriteError, RotList, RotToday, RotVisit, RotCopied, RotCopyFail,
       RotEnd, Crash
<1> QED BY <1>2, <1>3, <1>4 DEF StoreStep, StoreNext

\* A step of the whole system is one of the listener, or leaves it alone.
LEMMA AsStore ==
  ASSUME StoreTypeOK, [Next]_vars
  PROVE  StoreStep
<1>0. /\ fails \in 0..MaxFails
      /\ fails < MaxFails => fails + 1 \in 0..MaxFails
  BY StoreAssumption DEF StoreTypeOK
<1>1. CASE ListenerStep
  BY <1>1 DEF ListenerStep, StoreStep
<1>2. CASE StartFresh \/ StartResume \/ StartRecovery \/ RecoverPage \/ LoopOpen \/ Kill
  BY <1>0, <1>2 DEF StartFresh, StartResume, StartRecovery, RecoverPage, LoopOpen, Kill, StoreStep
<1>3. CASE RecoverGiveUp \/ ReadError
  BY <1>0, <1>3 DEF RecoverGiveUp, ReadError, StoreStep
<1>4. CASE LoopGone
  BY <1>0, <1>4 DEF LoopGone, SwitchTo, PersistAt, StoreStep
<1>5. CASE ReadLine \/ ReadEndMore \/ Terminate
  BY <1>0, <1>5 DEF ReadLine, ReadEndMore, Terminate, PersistAt, StoreStep
<1>6. CASE ReadEndNone
  BY <1>0, <1>6 DEF ReadEndNone, SwitchTo, PersistAt, StoreStep
<1>7. CASE UNCHANGED vars
  BY <1>0, <1>7 DEF vars, storeVars, listener, StoreStep
<1> QED BY <1>1, <1>2, <1>3, <1>4, <1>5, <1>6, <1>7 DEF Next, ExporterStep

LEMMA StoreInvariant == Spec => []SInv
<1>1. Init => SInv
  BY StoreInvInit DEF Init
<1>2. SInv /\ [Next]_vars => SInv'
  BY AsStore, StoreInvStep DEF SInv
<1> QED BY <1>1, <1>2, PTL DEF Spec

\* main.go 783: a written row stays in a jsonl or in a parquet that can be
\* read, whatever fails and whenever the listener restarts, as long as it has
\* not died inside a COPY and no clock reading was carried over midnight; for
\* any number of rows and days.
THEOREM RowsStayReadable == Spec => []RowsKept
  BY StoreInvariant, KeptRows, PTL
-----------------------------------------------------------------------------
(***************************************************************************)
(* The exporter: types, and where it can be.                               *)
(***************************************************************************)
XType ==
  /\ ex \in {"down", "recover", "loop", "read"}
  /\ path \in Days \cup {None} /\ top \in Days \cup {None}
  /\ path = None <=> ex = "down"
  /\ top = None <=> ex # "read"
  /\ off \in 0..NRows /\ count \in 0..NRows
  /\ held \in Seq(Rows) \cup {None}
  /\ page \in [from : -1..MaxTime, hi : -Lag..MaxTime, after : Rows \cup {None}]
  /\ seen \subseteq Rows /\ dedup \in BOOLEAN /\ (seen # {} => dedup)
  /\ obs \in [Rows -> Nat]
  /\ ever \subseteq Rows /\ early \subseteq Rows /\ told \subseteq Rows /\ missed \subseteq Rows
  /\ ckpt \in [day : Days, off : 0..NRows] \cup {None}
  /\ stops \in 0..MaxStops

Where ==
  /\ path # None => path <= Day(now)
  /\ top # None => path <= top /\ top <= Day(now)
  /\ ckpt # None => ckpt.day <= Day(now)
  /\ ex = "recover" => off = 0 /\ dedup
  /\ held # None => ex = "read"
  /\ ex = "read" /\ held = None => path \in jsonl
  /\ count <= off /\ (ex # "read" => count = 0)

Observed ==
  /\ page.after # None => status[page.after] = "written"
  /\ seen \subseteq ever
  /\ \A r \in ever : status[r] = "written"
  /\ \A r \in Rows : obs[r] > 0 => r \in ever

HeldOnce ==
  held # None =>
    /\ \A i \in 1..Len(held) :
         status[held[i]] = "written" /\ stamp[held[i]] = path /\ held[i] \notin ToSet(file[path])
    /\ Distinct(held)

LEMMA ContentOK ==
  ASSUME SInv, XType, Where, HeldOnce, ex = "read"
  PROVE  /\ path \in Days /\ Content \in Seq(Rows) /\ Len(Content) \in Nat
         /\ Len(Content) <= NRows /\ Distinct(Content)
         /\ \A i \in 1..Len(Content) :
              Content[i] \in Rows /\ status[Content[i]] = "written" /\ stamp[Content[i]] = path
<1>1. path \in Days
  BY DEF XType
<1>2. CASE held # None
  <2>1. Content = held /\ held \in Seq(Rows)
    BY <1>2 DEF Content, XType
  <2>2. /\ Distinct(Content)
        /\ \A i \in 1..Len(Content) : status[Content[i]] = "written" /\ stamp[Content[i]] = path
    BY <1>2, <2>1 DEF HeldOnce
  <2> QED BY <1>1, <2>1, <2>2, DistinctLen
<1>3. CASE held = None
  <2>1. Content = file[path] /\ file[path] \in Seq(Rows)
    BY <1>1, <1>3 DEF Content, SInv, StoreTypeOK
  <2>2. /\ Distinct(Content)
        /\ \A i \in 1..Len(Content) : status[Content[i]] = "written" /\ stamp[Content[i]] = path
    BY <1>1, <2>1 DEF SInv, OnceIn
  <2> QED BY <1>1, <2>1, <2>2, DistinctLen
<1> QED BY <1>2, <1>3

LEMMA UnreadRows ==
  ASSUME NEW S
  PROVE  UnreadOf(S) \subseteq Rows /\ Unread \subseteq Rows
  BY DEF UnreadOf, Unread

LEMMA HitRows ==
  ASSUME SInv, NEW r \in PageHits
  PROVE  r \in Rows /\ status[r] = "written" /\ ended[r] \in Times /\ stamp[r] \in Days
<1>0. /\ \A d \in Days : file[d] \in Seq(Rows) /\ packed[d] \subseteq Rows
      /\ PageDays \subseteq Days
  BY DEF SInv, StoreTypeOK, PageDays
<1>1. PICK d \in Days : r \in packed[d] \/ r \in ToSet(file[d])
  BY <1>0 DEF PageHits, PageRows, RowsOf
<1>2. CASE r \in packed[d]
  BY <1>0, <1>2 DEF SInv, OnceIn, Stamped
<1>3. CASE r \in ToSet(file[d])
  <2>1. file[d] \in Seq(Rows)
    BY <1>0
  <2>2. PICK i \in 1..Len(file[d]) : file[d][i] = r
    BY <1>3, <2>1, ToSetIs
  <2>3. r \in Rows
    BY <2>1, <2>2
  <2> QED BY <2>2, <2>3 DEF SInv, OnceIn, Stamped
<1> QED BY <1>1, <1>2, <1>3

LEMMA PersistType ==
  ASSUME NEW d \in Days, NEW o \in 0..NRows, PersistAt(d, o),
         ckpt \in [day : Days, off : 0..NRows] \cup {None}
  PROVE  ckpt' \in [day : Days, off : 0..NRows] \cup {None}
  BY DEF PersistAt

LEMMA XTypeStep ==
  ASSUME SInv, XType, Where, HeldOnce, [Next]_vars
  PROVE  XType'
<1> USE DEF tail, dup, seenBy, given
<1>0. /\ StoreTypeOK /\ Day(now) \in Days /\ None \notin Days /\ 0 \in 0..NRows
      /\ dedup \in BOOLEAN /\ TRUE \in BOOLEAN /\ FALSE \in BOOLEAN
      /\ ckpt \in [day : Days, off : 0..NRows] \cup {None}
  BY NowDay, NotNone, StoreAssumption DEF SInv, XType
<1>a. NoPage \in [from : -1..MaxTime, hi : -Lag..MaxTime, after : Rows \cup {None}]
  BY StoreAssumption, ExportAssumption DEF NoPage
<1>b. [r \in Rows |-> 0] \in [Rows -> Nat]
  OBVIOUS
<1>c. ASSUME NEW r \in Rows, Observe(r)
      PROVE  obs' \in [Rows -> Nat] /\ ever' \subseteq Rows
  BY <1>c DEF Observe, XType
<1>d. ASSUME NEW S PROVE UnreadOf(S) \subseteq Rows
  BY UnreadRows
<1>1. CASE ListenerStep
  <2>1. held' \in Seq(Rows) \cup {None}
    <3>1. path \in jsonl => file[path] \in Seq(Rows)
      BY <1>0 DEF StoreTypeOK
    <3> QED BY <1>1, <3>1 DEF ListenerStep, XType
  <2> QED BY <1>0, <1>1, <2>1 DEF ListenerStep, XType
<1>2. CASE StartFresh
  BY <1>0, <1>2, <1>d DEF StartFresh, XType
<1>3. CASE StartResume
  BY <1>0, <1>3 DEF StartResume, XType
<1>4. CASE StartRecovery
  <2>1. page' \in [from : -1..MaxTime, hi : -Lag..MaxTime, after : Rows \cup {None}]
    <3>1. ckpt.day \in 0..MaxTime /\ now \in 0..MaxTime /\ Lag \in Nat /\ MaxTime \in Nat
      BY <1>0, <1>4, DaysAreInts, StoreAssumption, ExportAssumption DEF StartRecovery, StoreTypeOK, Times
    <3>2. ckpt.day - 1 \in -1..MaxTime /\ now - Lag \in -Lag..MaxTime
      BY <3>1
    <3> QED BY <1>4, <3>2 DEF StartRecovery, RecoveryFrom
  <2> QED BY <1>0, <1>4, <2>1 DEF StartRecovery, XType
<1>5. CASE RecoverPage
  <2>1. /\ ex = "recover" /\ UNCHANGED <<path, off, top, count, held, dedup, ckpt, told, stops>>
        /\ (ex' = "loop" /\ page' = NoPage) \/ ex' = ex
    BY <1>5 DEF RecoverPage, LeaveRecovery
  <2>2. missed' \subseteq Rows
    BY <1>5, UnreadRows DEF RecoverPage, XType
  <2>3. dedup
    BY <2>1 DEF Where
  <2>4. CASE UNCHANGED <<obs, ever, early, seen>> /\ ex' = "loop" /\ page' = NoPage
    BY <1>0, <1>a, <2>1, <2>2, <2>3, <2>4 DEF XType
  <2>5. ASSUME NEW r \in PageHits, Observe(r), early' = early \cup {r} \/ early' = early,
               seen' = seen \cup {r},
               (ex' = "loop" /\ page' = NoPage) \/ (page' = [page EXCEPT !.after = r] /\ ex' = ex)
        PROVE  XType'
    <3>1. r \in Rows
      BY HitRows
    <3>2. page' \in [from : -1..MaxTime, hi : -Lag..MaxTime, after : Rows \cup {None}]
      BY <1>a, <2>5, <3>1 DEF XType
    <3>3. obs' \in [Rows -> Nat] /\ ever' \subseteq Rows
      BY <1>c, <2>5, <3>1
    <3> QED BY <1>0, <2>1, <2>2, <2>3, <2>5, <3>1, <3>2, <3>3 DEF XType
  <2> QED BY <1>5, <2>4, <2>5 DEF RecoverPage, LeaveRecovery
<1>6. CASE RecoverGiveUp
  BY <1>0, <1>6, <1>a, <1>d DEF RecoverGiveUp, LeaveRecovery, XType
<1>7. CASE LoopGone
  <2>1. ckpt' \in [day : Days, off : 0..NRows] \cup {None}
    BY <1>0, <1>7, PersistType DEF LoopGone, SwitchTo
  <2> QED BY <1>0, <1>7, <1>d, <2>1 DEF LoopGone, SwitchTo, DropDedup, XType
<1>8. CASE LoopOpen
  BY <1>0, <1>8 DEF LoopOpen, XType
<1>9. CASE ReadLine
  <2>1. /\ ex = "read" /\ off < Len(Content) /\ off' = off + 1 /\ count' = count + 1
        /\ UNCHANGED <<ex, path, top, held, page, seen, dedup, told, missed, stops>>
    BY <1>9 DEF ReadLine
  <2>2. /\ path \in Days /\ Content \in Seq(Rows) /\ Len(Content) \in Nat /\ Len(Content) <= NRows
        /\ NRows \in Nat
    BY <2>1, ContentOK, StoreAssumption
  <2>3. off + 1 \in 0..NRows /\ count + 1 \in 0..NRows /\ off + 1 \in 1..Len(Content)
    BY <2>1, <2>2 DEF XType, Where
  <2>4. Content[off + 1] \in Rows
    BY <2>2, <2>3
  <2>5. obs' \in [Rows -> Nat] /\ ever' \subseteq Rows /\ early' = early
    <3>1. CASE UNCHANGED seenBy
      BY <3>1 DEF XType
    <3>2. CASE Observe(Content[off + 1]) /\ UNCHANGED early
      BY <1>c, <2>4, <3>2
    <3> QED BY <1>9, <3>1, <3>2 DEF ReadLine
  <2>6. ckpt' \in [day : Days, off : 0..NRows] \cup {None}
    <3>1. ckpt' = ckpt \/ PersistAt(path, off + 1)
      BY <1>9 DEF ReadLine
    <3> QED BY <1>0, <2>2, <2>3, <3>1, PersistType
  <2> QED BY <1>0, <2>1, <2>3, <2>5, <2>6 DEF XType
<1>10. CASE ReadEndMore
  <2>1. path \in Days /\ off \in 0..NRows
    BY <1>10 DEF ReadEndMore, XType
  <2>2. ckpt' \in [day : Days, off : 0..NRows] \cup {None}
    BY <1>0, <1>10, <2>1, PersistType DEF ReadEndMore
  <2> QED BY <1>0, <1>10, <2>1, <2>2 DEF ReadEndMore, LeaveFile, XType
<1>11. CASE ReadEndNone
  <2>1. /\ ex = "read" /\ path \in Days /\ top \in Days
        /\ LeaveFile /\ UNCHANGED <<page, obs, ever, early, missed, stops>>
    BY <1>11 DEF ReadEndNone, XType
  <2>2. CASE path = top
    <3>1. UNCHANGED <<path, off, ckpt, fails, told>> /\ seen' = {} /\ dedup' = FALSE
      BY <1>11, <2>2 DEF ReadEndNone, DropDedup
    <3> QED BY <1>0, <2>1, <3>1 DEF LeaveFile, XType
  <2>3. CASE path # top
    <3>1. /\ SwitchTo(top) /\ told' = told \cup UnreadOf((path + 1) .. (top - 1))
      BY <1>11, <2>3 DEF ReadEndNone
    <3>2. ckpt' \in [day : Days, off : 0..NRows] \cup {None}
      BY <1>0, <2>1, <3>1, PersistType DEF SwitchTo
    <3>3. told' \subseteq Rows
      BY <1>d, <3>1 DEF XType
    <3> QED BY <1>0, <2>1, <3>1, <3>2, <3>3 DEF LeaveFile, SwitchTo, DropDedup, XType
  <2> QED BY <2>2, <2>3
<1>12. CASE ReadError
  <2>1. path \in Days /\ off \in 0..NRows
    BY <1>12 DEF ReadError, XType
  <2> QED BY <1>0, <1>12, <2>1 DEF ReadError, LeaveFile, XType
<1>13. ASSUME EndLife, ckpt' \in [day : Days, off : 0..NRows] \cup {None},
              told' \subseteq Rows, missed' \subseteq Rows
       PROVE  XType'
  <2>1. stops' \in 0..MaxStops
    BY <1>13, ExportAssumption DEF EndLife, XType
  <2> QED BY <1>0, <1>a, <1>b, <1>13, <2>1 DEF EndLife, XType
<1>14. CASE Kill
  BY <1>0, <1>13, <1>14 DEF Kill, XType
<1>15. CASE Terminate
  <2>1. path \in Days /\ off \in 0..NRows
    BY <1>15 DEF Terminate, XType
  <2>2. ckpt' \in [day : Days, off : 0..NRows] \cup {None}
    BY <1>0, <1>15, <2>1, PersistType DEF Terminate
  <2>3. told' \subseteq Rows /\ missed' \subseteq Rows
    BY <1>15, <1>d DEF Terminate, XType
  <2> QED BY <1>13, <1>15, <2>2, <2>3 DEF Terminate
<1>16. CASE UNCHANGED vars
  BY <1>0, <1>16 DEF vars, exVars, XType
<1> QED BY <1>1, <1>2, <1>3, <1>4, <1>5, <1>6, <1>7, <1>8, <1>9, <1>10, <1>11, <1>12, <1>14, <1>15, <1>16
        DEF Next, ExporterStep

\* The steps of the exporter leave the listener alone.
LEMMA ListenerUnchanged ==
  ASSUME ExporterStep \/ Kill \/ Terminate \/ UNCHANGED vars
  PROVE  UNCHANGED <<now, status, ended, stamp, jsonl, file, parquet, broken, packed, slips>>
<1> USE DEF listener, writer, store
<1>1. CASE ExporterStep
  BY <1>1 DEF ExporterStep, StartFresh, StartResume, StartRecovery, RecoverPage, RecoverGiveUp, LoopGone, LoopOpen,
       ReadLine, ReadEndMore, ReadEndNone, ReadError
<1>2. CASE Kill \/ Terminate
  BY <1>2 DEF Kill, Terminate
<1>3. CASE UNCHANGED vars
  BY <1>3 DEF vars, storeVars
<1> QED BY <1>1, <1>2, <1>3

LEMMA WhereStep ==
  ASSUME SInv, XType, XType', Where, [Next]_vars
  PROVE  Where'
<1> USE DEF tail, dup, seenBy, given
<1>0. /\ Day(now) \in Int /\ Day(now') \in Int /\ Day(now) <= Day(now') /\ Day(now) \in Days
      /\ \A d \in Days : d \in Int /\ d # None
  <2>1. StoreTypeOK /\ StoreTypeOK' /\ StoreStep
    BY AsStore, StoreInvStep DEF SInv
  <2> QED BY <2>1, Clock, DaysAreInts, NotNone
<1>a. /\ path # None => path \in Days /\ path <= Day(now')
      /\ top # None => top \in Days /\ path <= top /\ top <= Day(now')
      /\ ckpt # None => ckpt.day \in Days /\ ckpt.day <= Day(now')
      /\ off \in Int /\ count \in Int
  <2>1. /\ path # None => path \in Days /\ path <= Day(now)
        /\ top # None => top \in Days /\ path <= top /\ top <= Day(now)
        /\ ckpt # None => ckpt.day \in Days /\ ckpt.day <= Day(now)
    BY DEF XType, Where
  <2>2. off \in Int /\ count \in Int
    BY DEF XType
  <2> QED BY <1>0, <2>1, <2>2
<1>b. ASSUME NEW d, d <= Day(now'), NEW o, PersistAt(d, o)
      PROVE  ckpt' # None => ckpt'.day <= Day(now')
  BY <1>a, <1>b DEF PersistAt
<1>1. CASE ListenerStep
  <2>1. /\ UNCHANGED <<ex, path, off, top, count, dedup, ckpt>>
        /\ held' = IF ex = "read" /\ held = None /\ path \in jsonl \ jsonl' THEN file[path] ELSE held
    BY <1>1 DEF ListenerStep
  <2>2. ex' = "read" /\ held' = None => path' \in jsonl'
    <3> SUFFICES ASSUME ex = "read", held' = None PROVE path \in jsonl'
      BY <2>1
    <3>1. CASE held # None
      BY <2>1, <3>1
    <3>2. CASE held = None
      <4>1. path \in jsonl
        BY <3>2 DEF Where
      <4>2. file[path] # None
        BY <4>1, ExportAssumption DEF SInv, StoreTypeOK
      <4> QED BY <2>1, <3>2, <4>1, <4>2
    <3> QED BY <3>1, <3>2
  <2>3. held' # None => ex' = "read"
    BY <2>1 DEF Where
  <2> QED BY <1>a, <2>1, <2>2, <2>3 DEF Where
<1>2. CASE ExporterStep \/ Kill \/ Terminate \/ UNCHANGED vars
  <2>0. UNCHANGED <<now, jsonl>>
    BY <1>2, ListenerUnchanged
  <2>1. CASE StartFresh
    BY <1>0, <1>a, <2>0, <2>1 DEF StartFresh, Where, XType
  <2>2. CASE StartResume
    BY <1>0, <1>a, <2>0, <2>2 DEF StartResume, Where, XType
  <2>3. CASE StartRecovery
    BY <1>0, <1>a, <2>0, <2>3 DEF StartRecovery, Where, XType
  <2>4. CASE RecoverPage
    <3>1. /\ ex = "recover" /\ UNCHANGED <<path, off, top, count, held, dedup, ckpt>>
          /\ ex' = "loop" \/ ex' = ex
      BY <2>4 DEF RecoverPage, LeaveRecovery
    <3> QED BY <1>a, <2>0, <3>1 DEF Where
  <2>5. CASE RecoverGiveUp
    BY <1>a, <2>0, <2>5 DEF RecoverGiveUp, LeaveRecovery, Where
  <2>6. CASE LoopGone
    <3>1. ckpt' # None => ckpt'.day <= Day(now')
      BY <1>0, <1>b, <2>6 DEF LoopGone, SwitchTo
    <3>2. /\ path' = Day(now) /\ off' = 0 /\ ex = "loop" /\ UNCHANGED <<ex, top, count, held>>
      BY <2>6 DEF LoopGone, SwitchTo
    <3> QED BY <1>0, <1>a, <2>0, <3>1, <3>2 DEF Where, XType
  <2>7. CASE LoopOpen
    BY <1>0, <1>a, <2>0, <2>7 DEF LoopOpen, Where, XType
  <2>8. CASE ReadLine
    <3>1. /\ ex = "read" /\ off' = off + 1 /\ count' = count + 1 /\ UNCHANGED <<ex, path, top, held>>
      BY <2>8 DEF ReadLine
    <3>2. ckpt' # None => ckpt'.day <= Day(now')
      <4>1. ckpt' = ckpt \/ PersistAt(path, off + 1)
        BY <2>8 DEF ReadLine
      <4>2. path <= Day(now')
        BY <1>a, <3>1 DEF XType
      <4> QED BY <1>a, <1>b, <4>1, <4>2
    <3> QED BY <1>a, <2>0, <3>1, <3>2 DEF Where
  <2>9. CASE ReadEndMore \/ ReadError
    <3>1. /\ ex = "read" /\ LeaveFile /\ UNCHANGED <<path, off>>
      BY <2>9 DEF ReadEndMore, ReadError
    <3>2. ckpt' # None => ckpt'.day <= Day(now')
      <4>1. ckpt' = ckpt \/ ckpt' = [day |-> path, off |-> off]
        BY <2>9 DEF ReadEndMore, ReadError, PersistAt
      <4>2. path <= Day(now')
        BY <1>a, <3>1 DEF XType
      <4> QED BY <1>a, <4>1, <4>2
    <3>3. 0 <= off
      BY DEF XType
    <3> QED BY <1>a, <2>0, <3>1, <3>2, <3>3 DEF Where, LeaveFile
  <2>10. CASE ReadEndNone
    <3>1. /\ ex = "read" /\ LeaveFile /\ path # None /\ top # None
          /\ (UNCHANGED <<path, off, ckpt>>) \/ SwitchTo(top)
      BY <2>10 DEF ReadEndNone, XType
    <3>2. ckpt' # None => ckpt'.day <= Day(now')
      BY <1>a, <1>b, <3>1 DEF SwitchTo
    <3>3. path' <= Day(now') /\ 0 <= off'
      BY <1>a, <3>1 DEF SwitchTo, XType
    <3> QED BY <1>a, <2>0, <3>1, <3>2, <3>3 DEF Where, LeaveFile
  <2>11. CASE Kill \/ Terminate
    <3>1. EndLife
      BY <2>11 DEF Kill, Terminate
    <3>2. ckpt' # None => ckpt'.day <= Day(now')
      <4>1. CASE Kill
        BY <1>a, <4>1 DEF Kill
      <4>2. CASE Terminate
        <5>1. path <= Day(now') /\ PersistAt(path, off)
          BY <1>a, <4>2 DEF Terminate, XType
        <5> QED BY <1>b, <5>1
      <4> QED BY <2>11, <4>1, <4>2
    <3> QED BY <2>0, <3>1, <3>2 DEF Where, EndLife
  <2>12. CASE UNCHANGED vars
    BY <2>0, <2>12 DEF vars, exVars, Where
  <2> QED BY <1>2, <2>1, <2>2, <2>3, <2>4, <2>5, <2>6, <2>7, <2>8, <2>9, <2>10, <2>11, <2>12 DEF ExporterStep
<1> QED BY <1>1, <1>2 DEF Next

LEMMA ObservedStep ==
  ASSUME SInv, XType, XType', Where, HeldOnce, Observed, [Next]_vars
  PROVE  Observed'
<1> USE DEF tail, dup, seenBy, given
<1>0. \A r \in Rows : status[r] = "written" => status'[r] = "written"
  <2>1. StoreTypeOK /\ StoreStep
    BY AsStore DEF SInv
  <2> QED BY <2>1, WrittenStays
<1>1. /\ page.after \in Rows \cup {None} /\ ever \subseteq Rows /\ NoPage.after = None
      /\ page.after # None => status'[page.after] = "written"
      /\ \A r \in ever : status'[r] = "written"
  BY <1>0 DEF XType, Observed, NoPage
<1>2. ASSUME NEW x \in Rows, status[x] = "written", Observe(x),
             seen' = seen \/ seen' = seen \cup {x} \/ seen' = {},
             page'.after = page.after \/ page'.after = None \/ page'.after = x
      PROVE  Observed'
  <2>1. ever' = ever \cup {x} /\ \A r \in Rows : r # x => obs'[r] = obs[r]
    BY <1>2 DEF Observe, XType
  <2> QED BY <1>0, <1>1, <1>2, <2>1 DEF Observed
<1>3. ASSUME UNCHANGED <<obs, ever>>, seen' = seen \/ seen' = {},
             page'.after = page.after \/ page'.after = None
      PROVE  Observed'
  BY <1>1, <1>3 DEF Observed
<1>4. CASE ListenerStep
  BY <1>3, <1>4 DEF ListenerStep
<1>5. CASE RecoverPage
  <2>1. CASE UNCHANGED <<obs, ever, early, seen>> /\ page' = NoPage
    BY <1>1, <1>3, <2>1
  <2>2. ASSUME NEW x \in PageHits, Observe(x), seen' = seen \cup {x},
               page' = NoPage \/ page' = [page EXCEPT !.after = x]
        PROVE  Observed'
    <3>1. x \in Rows /\ status[x] = "written"
      BY HitRows
    <3>2. page'.after = None \/ page'.after = x
      BY <1>1, <2>2 DEF XType
    <3> QED BY <1>2, <2>2, <3>1, <3>2
  <2> QED BY <1>5, <2>1, <2>2 DEF RecoverPage, LeaveRecovery
<1>6. CASE ReadLine
  <2>1. ex = "read" /\ off < Len(Content) /\ UNCHANGED <<seen, page>>
    BY <1>6 DEF ReadLine
  <2>2. /\ Len(Content) \in Nat
        /\ \A i \in 1..Len(Content) : Content[i] \in Rows /\ status[Content[i]] = "written"
    BY <2>1, ContentOK
  <2>3. off + 1 \in 1..Len(Content)
    BY <2>1, <2>2 DEF XType
  <2>4. CASE UNCHANGED seenBy
    BY <1>3, <2>1, <2>4
  <2>5. CASE Observe(Content[off + 1])
    BY <1>2, <2>1, <2>2, <2>3, <2>5
  <2> QED BY <1>6, <2>4, <2>5 DEF ReadLine
<1>7. CASE StartFresh \/ StartResume \/ LoopOpen \/ ReadEndMore \/ ReadError \/ UNCHANGED vars
  BY <1>3, <1>7 DEF StartFresh, StartResume, LoopOpen, ReadEndMore, ReadError, vars, exVars
<1>8. CASE StartRecovery \/ RecoverGiveUp
  BY <1>1, <1>3, <1>8 DEF StartRecovery, RecoverGiveUp, LeaveRecovery
<1>9. CASE LoopGone \/ ReadEndNone
  BY <1>3, <1>9 DEF LoopGone, ReadEndNone, SwitchTo, DropDedup
<1>10. CASE Kill \/ Terminate
  <2>1. EndLife
    BY <1>10 DEF Kill, Terminate
  <2>2. \A r \in Rows : obs'[r] = 0
    BY <2>1 DEF EndLife
  <2> QED BY <1>1, <2>1, <2>2 DEF EndLife, Observed
<1> QED BY <1>4, <1>5, <1>6, <1>7, <1>8, <1>9, <1>10 DEF Next, ExporterStep

LEMMA HeldOnceStep ==
  ASSUME SInv, XType, Where, HeldOnce, [Next]_vars
  PROVE  HeldOnce'
<1> USE DEF tail, dup, seenBy, given
<1>1. CASE ListenerStep
  <2>0. StoreTypeOK /\ StoreStep /\ SInv'
    BY AsStore, StoreInvStep DEF SInv
  <2>1. /\ UNCHANGED <<ex, path>>
        /\ held' = IF ex = "read" /\ held = None /\ path \in jsonl \ jsonl' THEN file[path] ELSE held
    BY <1>1 DEF ListenerStep
  <2>2. \A r \in Rows : status[r] = "written" => status'[r] = "written" /\ stamp'[r] = stamp[r]
    BY <2>0, WrittenStays
  <2>3. CASE held # None
    <3>1. held' = held /\ held \in Seq(Rows) /\ path \in Days
      BY <2>1, <2>3 DEF XType, Where
    <3>2. \A i \in 1..Len(held) : held[i] \in Rows
      BY <3>1
    <3>3. file[path] \in Seq(Rows)
      BY <2>0, <3>1 DEF StoreTypeOK
    <3>4. \A i \in 1..Len(held) : held[i] \notin ToSet(file'[path])
      <4> SUFFICES ASSUME NEW i \in 1..Len(held) PROVE held[i] \notin ToSet(file'[path])
        OBVIOUS
      <4>1. held[i] \notin ToSet(file[path]) /\ status[held[i]] = "written"
        BY <2>3 DEF HeldOnce
      <4>2. CASE file'[path] = file[path]
        BY <4>1, <4>2
      <4>3. ASSUME NEW r \in Rows, status[r] = "pending", file'[path] = Append(file[path], r)
            PROVE  held[i] \notin ToSet(file'[path])
        <5>1. held[i] # r
          BY <4>1, <4>3
        <5> QED BY <3>3, <4>1, <4>3, <5>1, AppendIs
      <4>4. CASE file'[path] = <<>>
        <5>1. file'[path] \in Seq(Rows) /\ Len(file'[path]) = 0
          BY <4>4, EmptySeq
        <5> QED BY <5>1, EmptyToSet
      <4> QED BY <2>0, <3>1, <4>2, <4>3, <4>4, FileStep
    <3> QED BY <2>1, <2>2, <2>3, <3>1, <3>2, <3>4 DEF HeldOnce
  <2>4. CASE held = None /\ held' # None
    <3>1. held' = file[path] /\ path \in jsonl \ jsonl'
      BY <2>1, <2>4
    <3>2. path \in Days /\ file[path] \in Seq(Rows)
      BY <2>0, <3>1 DEF StoreTypeOK
    <3>3. \A i \in 1..Len(file[path]) : file[path][i] \in Rows
      BY <3>2
    <3>4. /\ \A i \in 1..Len(file[path]) : status[file[path][i]] = "written" /\ stamp[file[path][i]] = path
          /\ Distinct(file[path])
      BY <3>2 DEF SInv, OnceIn
    <3>5. ToSet(file'[path]) = {}
      <4>1. file'[path] = <<>>
        BY <2>0, <3>1, <3>2 DEF SInv, StoreTypeOK
      <4>2. file'[path] \in Seq(Rows) /\ Len(file'[path]) = 0
        BY <4>1, EmptySeq
      <4> QED BY <4>2, EmptyToSet
    <3> QED BY <2>1, <2>2, <3>1, <3>3, <3>4, <3>5 DEF HeldOnce
  <2>5. CASE held' = None
    BY <2>5 DEF HeldOnce
  <2> QED BY <2>3, <2>4, <2>5
<1>2. CASE ExporterStep \/ Kill \/ Terminate \/ UNCHANGED vars
  <2>0. UNCHANGED <<status, stamp, file>>
    BY <1>2, ListenerUnchanged
  <2>1. CASE UNCHANGED <<held, path>>
    BY <2>0, <2>1 DEF HeldOnce
  <2>2. CASE held' = None
    BY <2>2 DEF HeldOnce
  <2>3. (UNCHANGED <<held, path>>) \/ held' = None
    <3>1. CASE StartFresh \/ StartResume \/ StartRecovery
      BY <3>1 DEF StartFresh, StartResume, StartRecovery, Where
    <3>2. CASE LoopGone
      BY <3>2 DEF LoopGone, Where
    <3>3. CASE RecoverPage \/ RecoverGiveUp \/ LoopOpen \/ ReadLine \/ UNCHANGED vars
      BY <3>3 DEF RecoverPage, RecoverGiveUp, LoopOpen, ReadLine, vars, exVars
    <3>4. CASE ReadEndMore \/ ReadEndNone \/ ReadError
      BY <3>4 DEF ReadEndMore, ReadEndNone, ReadError, LeaveFile
    <3>5. CASE Kill \/ Terminate
      BY <3>5 DEF Kill, Terminate, EndLife
    <3> QED BY <1>2, <3>1, <3>2, <3>3, <3>4, <3>5 DEF ExporterStep
  <2> QED BY <2>1, <2>2, <2>3
<1> QED BY <1>1, <1>2 DEF Next
-----------------------------------------------------------------------------
(***************************************************************************)
(* A row is counted once.  What the recovery has observed lies at or       *)
(* before its cursor; what the tailer has observed lies behind it, or is   *)
(* remembered in seen until the tailer has passed it, unless it came from  *)
(* a file of a later day.                                                  *)
(***************************************************************************)
Behind(r) ==
  \/ stamp[r] < path
  \/ stamp[r] = path /\ \A i \in 1..Len(Content) : i > off => Content[i] # r

Fetching ==
  ex = "recover" =>
    \A r \in Rows :
      /\ obs[r] <= 1
      /\ obs[r] = 1 => r \in seen /\ page.after # None /\ (r = page.after \/ Before(r, page.after))

Tailing ==
  ex \in {"loop", "read"} =>
    \A r \in Rows :
      /\ obs[r] <= 2
      /\ obs[r] = 2 => r \in early /\ Behind(r)
      /\ obs[r] = 1 => r \in early \/ (dedup /\ r \in seen) \/ Behind(r)

Asleep == ex = "down" => seen = {} /\ \A r \in Rows : obs[r] = 0

SeenHere == \A r \in seen \ early : stamp[r] <= path

HeldApart == held # None => \A r \in Rows : obs[r] > 0 => r \notin ToSet(file[path])

Once == Fetching /\ Tailing /\ Asleep /\ SeenHere /\ HeldApart

XInv == SInv /\ XType /\ Where /\ Observed /\ HeldOnce

\* A row the tailer has passed stays behind it, whatever the listener does.
LEMMA ListenerBehind ==
  ASSUME XInv, ListenerStep, ex \in {"loop", "read"}, NEW r \in Rows, status[r] = "written", Behind(r)
  PROVE  Behind(r)'
<1>0. SInv /\ XType /\ Where /\ HeldOnce /\ StoreTypeOK /\ StoreStep /\ path \in Days
  <2>1. StoreStep
    BY DEF ListenerStep, StoreStep
  <2> QED BY <2>1 DEF XInv, SInv, XType
<1>1. /\ UNCHANGED <<ex, path, off>>
      /\ held' = IF ex = "read" /\ held = None /\ path \in jsonl \ jsonl' THEN file[path] ELSE held
  BY DEF ListenerStep
<1>2. stamp'[r] = stamp[r]
  BY <1>0, WrittenStays
<1>3. file[path] \in Seq(Rows)
  BY <1>0 DEF StoreTypeOK
<1>4. CASE stamp[r] < path
  BY <1>1, <1>2, <1>4 DEF Behind
<1>5. CASE /\ stamp[r] = path
           /\ \A i \in 1..Len(Content) : i > off => Content[i] # r
  <2> SUFFICES \A i \in 1..Len(Content') : i > off => Content'[i] # r
    BY <1>1, <1>2, <1>5 DEF Behind
  <2>1. CASE Content' = Content
    BY <1>5, <2>1
  <2>2. ASSUME NEW x \in Rows, status[x] = "pending", Content = file[path], Content' = Append(file[path], x)
        PROVE  \A i \in 1..Len(Content') : i > off => Content'[i] # r
    <3> SUFFICES ASSUME NEW i \in 1..Len(Content'), i > off PROVE Content'[i] # r
      OBVIOUS
    <3>1. i \in 1..Len(file[path]) \/ i = Len(file[path]) + 1
      BY <1>3, <2>2, AppendIs
    <3>2. CASE i \in 1..Len(file[path])
      <4>1. Content'[i] = Content[i]
        BY <1>3, <2>2, <3>2, AppendIs
      <4> QED BY <1>5, <2>2, <3>2, <4>1
    <3>3. CASE i = Len(file[path]) + 1
      <4>1. Content'[i] = x
        BY <1>3, <2>2, <3>3, AppendIs
      <4> QED BY <2>2, <4>1
    <3> QED BY <3>1, <3>2, <3>3
  <2>3. CASE Content' = <<>>
    <3>1. 1..Len(Content') = {}
      BY <2>3, EmptySeq
    <3> QED BY <3>1
  <2>4. CASE held # None
    <3>1. Content' = Content
      BY <1>1, <2>4 DEF Content
    <3> QED BY <2>1, <3>1
  <2>5. CASE held = None /\ held' # None
    <3>1. Content' = Content
      BY <1>1, <2>5 DEF Content
    <3> QED BY <2>1, <3>1
  <2>6. CASE held = None /\ held' = None
    <3>1. Content = file[path] /\ Content' = file'[path]
      BY <1>1, <2>6 DEF Content
    <3> QED BY <1>0, <2>1, <2>2, <2>3, <3>1, FileStep
  <2> QED BY <2>4, <2>5, <2>6
<1> QED BY <1>4, <1>5 DEF Behind

LEMMA ListenerOnce ==
  ASSUME XInv, Once, ListenerStep
  PROVE  Once'
<1>0. SInv /\ XType /\ Where /\ Observed /\ HeldOnce /\ StoreTypeOK /\ StoreStep /\ StoreTypeOK'
  <2>1. StoreStep
    BY DEF ListenerStep, StoreStep
  <2> QED BY <2>1, StoreInvStep DEF XInv, SInv
<1>1. /\ UNCHANGED <<ex, path, off, page, seen, dedup, obs, ever, early>>
      /\ held' = IF ex = "read" /\ held = None /\ path \in jsonl \ jsonl' THEN file[path] ELSE held
  BY DEF ListenerStep, dup, seenBy
<1>2. \A r \in Rows : status[r] = "written" => stamp'[r] = stamp[r] /\ ended'[r] = ended[r]
  BY <1>0, WrittenStays
<1>3. /\ \A r \in Rows : obs[r] > 0 => status[r] = "written"
      /\ \A r \in seen : r \in Rows /\ status[r] = "written"
      /\ page.after # None => page.after \in Rows /\ status[page.after] = "written"
      /\ \A r \in Rows : obs[r] \in Nat
  BY <1>0 DEF Observed, XType
<1>4. Fetching'
  <2> SUFFICES ASSUME ex = "recover", NEW r \in Rows
               PROVE  /\ obs[r] <= 1
                      /\ obs[r] = 1 => r \in seen /\ page.after # None /\ (r = page.after \/ Before(r, page.after)')
    BY <1>1 DEF Fetching, Before
  <2>1. /\ obs[r] <= 1
        /\ obs[r] = 1 => r \in seen /\ page.after # None /\ (r = page.after \/ Before(r, page.after))
    BY DEF Once, Fetching
  <2>2. obs[r] = 1 /\ Before(r, page.after) => Before(r, page.after)'
    BY <1>1, <1>2, <1>3, <2>1 DEF Before
  <2> QED BY <2>1, <2>2
<1>5. Tailing'
  <2> SUFFICES ASSUME ex \in {"loop", "read"}, NEW r \in Rows
               PROVE  /\ obs[r] <= 2
                      /\ obs[r] = 2 => r \in early /\ Behind(r)'
                      /\ obs[r] = 1 => r \in early \/ (dedup /\ r \in seen) \/ Behind(r)'
    BY <1>1 DEF Tailing
  <2>1. /\ obs[r] <= 2
        /\ obs[r] = 2 => r \in early /\ Behind(r)
        /\ obs[r] = 1 => r \in early \/ (dedup /\ r \in seen) \/ Behind(r)
    BY DEF Once, Tailing
  <2>2. obs[r] \in {1, 2} => status[r] = "written"
    BY <1>3
  <2>3. obs[r] \in {1, 2} /\ Behind(r) => Behind(r)'
    BY <2>2, ListenerBehind
  <2> QED BY <2>1, <2>3
<1>6. Asleep'
  BY <1>1 DEF Once, Asleep
<1>7. SeenHere'
  BY <1>1, <1>2, <1>3 DEF Once, SeenHere
<1>8. HeldApart'
  <2> SUFFICES ASSUME held' # None, NEW r \in Rows, obs[r] > 0 PROVE r \notin ToSet(file'[path])
    BY <1>1 DEF HeldApart
  <2>1. ex = "read" /\ path \in Days
    BY <1>0, <1>1 DEF Where, XType
  <2>2. file[path] \in Seq(Rows)
    BY <1>0, <2>1 DEF StoreTypeOK
  <2>3. CASE file'[path] = <<>>
    <3>1. file'[path] \in Seq(Rows) /\ Len(file'[path]) = 0
      BY <2>3, EmptySeq
    <3> QED BY <3>1, EmptyToSet
  <2>4. CASE held = None
    <3>1. path \in Days \ jsonl'
      BY <1>1, <2>1, <2>4
    <3>2. file'[path] = <<>>
      BY <1>0, <3>1 DEF StoreTypeOK
    <3> QED BY <2>3, <3>2
  <2>5. CASE held # None
    <3>1. r \notin ToSet(file[path]) /\ status[r] = "written"
      BY <1>3, <2>5 DEF Once, HeldApart
    <3>2. CASE file'[path] = file[path]
      BY <3>1, <3>2
    <3>3. ASSUME NEW x \in Rows, status[x] = "pending", file'[path] = Append(file[path], x)
          PROVE  r \notin ToSet(file'[path])
      BY <2>2, <3>1, <3>3, AppendIs
    <3> QED BY <1>0, <2>1, <2>3, <3>2, <3>3, FileStep
  <2> QED BY <2>4, <2>5
<1> QED BY <1>4, <1>5, <1>6, <1>7, <1>8 DEF Once

\* Rows that have been written have a time and a day.
LEMMA WrittenRow ==
  ASSUME XInv, NEW r \in Rows, status[r] = "written"
  PROVE  /\ ended[r] \in Int /\ stamp[r] \in Int /\ stamp[r] \in Days /\ r \in Int
         /\ Day(ended[r]) \in Int /\ Day(ended[r]) <= stamp[r] /\ stamp[r] <= Day(ended[r]) + 1
         /\ stamp[r] <= Day(now)
<1>1. /\ ended[r] \in Times /\ stamp[r] \in Days
      /\ Day(ended[r]) <= stamp[r] /\ stamp[r] <= Day(ended[r]) + 1 /\ stamp[r] <= Day(now)
  BY DEF XInv, SInv, Stamped
<1>2. ended[r] \in Int /\ Day(ended[r]) \in Int
  BY <1>1, DayRange, DaysAreInts
<1>3. r \in Int
  BY DEF Rows
<1>4. stamp[r] \in Int
  BY <1>1, DaysAreInts
<1> QED BY <1>1, <1>2, <1>3, <1>4

LEMMA StartOnce ==
  ASSUME XInv, Once, StartFresh \/ StartResume \/ StartRecovery
  PROVE  Once'
<1>1. /\ ex = "down" /\ ex' \in {"loop", "recover"}
      /\ UNCHANGED <<held, seen, obs, early>>
  BY DEF StartFresh, StartResume, StartRecovery, dup, seenBy
<1>2. /\ held = None /\ seen = {} /\ \A r \in Rows : obs[r] = 0
  BY <1>1 DEF XInv, Where, Once, Asleep
<1> QED BY <1>1, <1>2 DEF Once, Fetching, Tailing, Asleep, SeenHere, HeldApart

LEMMA Transitive ==
  ASSUME NEW a \in Rows, NEW b \in Rows, NEW c \in Rows,
         ended[a] \in Int, ended[b] \in Int, ended[c] \in Int
  PROVE  /\ Before(a, b) /\ Before(b, c) => Before(a, c)
         /\ ~(Before(a, b) /\ Before(b, a))
         /\ ~Before(a, a)
<1>1. a \in Int /\ b \in Int /\ c \in Int
  BY DEF Rows
<1> QED BY <1>1 DEF Before

\* The recovery ends: what it has observed is remembered.
LEMMA RecoveredOnce ==
  ASSUME XInv, Once, ex = "recover", ex' = "loop", held' = None, dedup' = dedup, obs' = obs, path' = path,
         UNCHANGED <<seen, early, stamp>>
  PROVE  Once'
<1>1. dedup
  BY DEF XInv, Where
<1>2. \A r \in Rows : obs[r] <= 1 /\ (obs[r] = 1 => r \in seen) /\ obs[r] \in Nat
  BY DEF Once, Fetching, XInv, XType
<1>3. Tailing'
  BY <1>1, <1>2 DEF Tailing
<1>4. SeenHere'
  BY DEF Once, SeenHere
<1> QED BY <1>3, <1>4 DEF Once, Fetching, Asleep, HeldApart

LEMMA PageOnce ==
  ASSUME XInv, Once, RecoverPage
  PROVE  Once'
<1> USE DEF tail, seenBy
<1>1. /\ ex = "recover" /\ UNCHANGED <<path, off, held, dedup, stamp, ended, file>>
  BY DEF RecoverPage, listener, writer, store
<1>2. /\ held = None /\ dedup /\ path \in Days
  BY <1>1, NotNone DEF XInv, Where, XType
<1>3. \A r \in Rows : /\ obs[r] <= 1 /\ obs[r] \in Nat
                      /\ obs[r] = 1 => /\ r \in seen /\ page.after # None
                                       /\ r = page.after \/ Before(r, page.after)
  BY <1>1 DEF Once, Fetching, XInv, XType
<1>4. /\ page.after # None => page.after \in Rows /\ status[page.after] = "written"
      /\ \A r \in Rows : obs[r] = 1 => status[r] = "written"
      /\ page \in [from : -1..MaxTime, hi : -Lag..MaxTime, after : Rows \cup {None}]
      /\ obs \in [Rows -> Nat]
  BY DEF XInv, Observed, XType
<1>5. CASE LeaveRecovery /\ UNCHANGED <<seenBy, seen>>
  BY <1>1, <1>2, <1>5, RecoveredOnce DEF LeaveRecovery
<1>6. ASSUME NEW r \in PageHits, Observe(r), seen' = seen \cup {r},
             early' = IF stamp[r] > path THEN early \cup {r} ELSE early,
             \/ ex' = "loop"
             \/ ex' = "recover" /\ page' = [page EXCEPT !.after = r]
      PROVE  Once'
  <2>1. r \in Rows /\ status[r] = "written" /\ (page.after # None => Before(page.after, r)) /\ r # None
    BY HitRows, NotNone DEF XInv, PageHits
  <2>2. /\ ended[r] \in Int /\ stamp[r] \in Int /\ path \in Int
        /\ page.after # None => ended[page.after] \in Int
    BY <1>2, <1>4, <2>1, WrittenRow, DaysAreInts
  <2>3. obs[r] = 0
    <3>1. ASSUME obs[r] = 1 PROVE FALSE
      <4>1. /\ page.after # None /\ (r = page.after \/ Before(r, page.after))
            /\ page.after \in Rows /\ Before(page.after, r)
        BY <1>3, <1>4, <2>1, <3>1
      <4> QED BY <2>1, <2>2, <4>1, Transitive
    <3> QED BY <1>3, <2>1, <3>1
  <2>4. /\ \A x \in Rows : obs'[x] = IF x = r THEN 1 ELSE obs[x]
    BY <1>4, <1>6, <2>1, <2>3 DEF Observe
  <2>5. \A x \in Rows : obs'[x] <= 1 /\ obs'[x] \in Nat /\ (obs'[x] = 1 => x \in seen')
    BY <1>3, <1>6, <2>4
  <2>6. SeenHere'
    <3> SUFFICES ASSUME NEW x \in seen', x \notin early' PROVE stamp[x] <= path
      BY <1>1 DEF SeenHere
    <3>1. CASE x = r
      BY <1>6, <2>2, <3>1
    <3>2. CASE x # r
      <4>1. x \in seen \ early
        BY <1>6, <3>2
      <4> QED BY <4>1 DEF Once, SeenHere
    <3> QED BY <3>1, <3>2
  <2>7. Fetching'
    <3> SUFFICES ASSUME ex' = "recover", NEW x \in Rows, obs'[x] = 1
                 PROVE  page'.after # None /\ (x = page'.after \/ Before(x, page'.after))
      BY <1>1, <2>5 DEF Fetching, Before
    <3>1. page'.after = r
      BY <1>4, <1>6
    <3>2. CASE x = r
      BY <2>1, <3>1, <3>2
    <3>3. CASE x # r
      <4>1. obs[x] = 1 /\ status[x] = "written"
        BY <1>4, <2>4, <3>3
      <4>2. /\ page.after # None /\ (x = page.after \/ Before(x, page.after))
            /\ page.after \in Rows /\ Before(page.after, r) /\ ended[page.after] \in Int
        BY <1>3, <1>4, <2>1, <2>2, <4>1
      <4>3. ended[x] \in Int
        BY <4>1, WrittenRow
      <4>4. Before(x, r)
        BY <2>1, <2>2, <4>2, <4>3, Transitive
      <4> QED BY <2>1, <3>1, <4>4
    <3> QED BY <3>2, <3>3
  <2>8. Tailing'
    BY <1>1, <1>2, <2>5 DEF Tailing
  <2> QED BY <1>1, <1>2, <1>6, <2>6, <2>7, <2>8 DEF Once, Asleep, HeldApart
<1> QED BY <1>1, <1>5, <1>6 DEF RecoverPage, LeaveRecovery

\* The tailer goes on to the file of a later day: it has left behind whatever
\* it has observed, but for early rows.
LEMMA MovedOn ==
  ASSUME XInv, Once, ex \in {"loop", "read"}, ex' = "loop", path' \in Days, path < path',
         seen' = {}, held' = None, UNCHANGED <<obs, early, stamp>>
  PROVE  Once'
<1>1. path \in Int /\ path' \in Int
  <2>1. path \in Days
    BY DEF XInv, XType
  <2> QED BY <2>1, DaysAreInts
<1>2. ASSUME NEW r \in Rows, obs[r] \in {1, 2}, r \notin early \/ Behind(r) PROVE Behind(r)'
  <2>1. status[r] = "written"
    BY <1>2 DEF XInv, Observed
  <2>2. stamp[r] \in Int
    BY <2>1, WrittenRow
  <2>3. stamp[r] <= path
    <3>1. CASE Behind(r)
      BY <1>1, <2>2, <3>1 DEF Behind
    <3>2. CASE r \notin early /\ ~Behind(r)
      <4>1. r \in seen \ early
        BY <1>2, <3>2 DEF Once, Tailing
      <4> QED BY <4>1 DEF Once, SeenHere
    <3> QED BY <1>2, <3>1, <3>2
  <2>4. stamp[r] < path'
    BY <1>1, <2>2, <2>3
  <2> QED BY <2>4 DEF Behind
<1>3. \A r \in Rows : /\ obs[r] <= 2 /\ obs[r] \in Nat
                      /\ obs[r] = 2 => r \in early /\ Behind(r)
  BY DEF Once, Tailing, XInv, XType
<1>4. Tailing'
  <2> SUFFICES ASSUME NEW r \in Rows
               PROVE  /\ obs[r] <= 2
                      /\ obs[r] = 2 => r \in early /\ Behind(r)'
                      /\ obs[r] = 1 => r \in early \/ Behind(r)'
    BY DEF Tailing
  <2> QED BY <1>2, <1>3
<1> QED BY <1>4 DEF Once, Fetching, Asleep, SeenHere, HeldApart

\* The tailer closes its file: a row that was counted and lies behind it does
\* so still, in the file that has the name now.
LEMMA StillBehind ==
  ASSUME XInv, Once, ex = "read", held' = None, UNCHANGED <<path, off, file, stamp>>,
         NEW r \in Rows, obs[r] \in {1, 2},
         Behind(r) \/ (stamp[r] <= path /\ off >= Len(Content))
  PROVE  Behind(r)'
<1>1. path \in Days /\ Content \in Seq(Rows) /\ Len(Content) \in Nat /\ off \in Int /\ path \in Int
  <2>1. path \in Days /\ Content \in Seq(Rows) /\ Len(Content) \in Nat
    BY ContentOK DEF XInv
  <2>2. off \in Int
    BY DEF XInv, XType
  <2> QED BY <2>1, <2>2, DaysAreInts
<1>2. Content' = file[path]
  BY DEF Content
<1>3. stamp[r] \in Int
  <2>1. status[r] = "written"
    BY DEF XInv, Observed
  <2> QED BY <2>1, WrittenRow
<1>4. CASE stamp[r] < path
  BY <1>4 DEF Behind
<1>5. CASE stamp[r] = path /\ held = None
  <2>1. Content' = Content
    BY <1>2, <1>5 DEF Content
  <2>2. \A i \in 1..Len(Content) : i > off => Content[i] # r
    <3>1. CASE Behind(r)
      BY <1>1, <1>3, <1>5, <3>1 DEF Behind
    <3>2. CASE off >= Len(Content)
      BY <1>1, <3>2
    <3> QED BY <3>1, <3>2
  <2> QED BY <1>5, <2>1, <2>2 DEF Behind
<1>6. CASE stamp[r] = path /\ held # None
  <2>1. r \notin ToSet(file[path])
    BY <1>6 DEF Once, HeldApart
  <2>2. file[path] \in Seq(Rows)
    BY <1>1 DEF XInv, SInv, StoreTypeOK
  <2>3. \A i \in 1..Len(file[path]) : file[path][i] # r
    BY <2>1, <2>2, ToSetIs
  <2> QED BY <1>2, <1>6, <2>3 DEF Behind
<1>7. stamp[r] <= path
  BY <1>1, <1>3 DEF Behind
<1> QED BY <1>1, <1>3, <1>4, <1>5, <1>6, <1>7

LEMMA LeftFile ==
  ASSUME XInv, Once, ex = "read", ex' = "loop", held' = None, UNCHANGED <<path, off, file, stamp, obs, early>>,
         \/ UNCHANGED <<seen, dedup>>
         \/ seen' = {} /\ off >= Len(Content)
  PROVE  Once'
<1>1. \A r \in Rows : /\ obs[r] <= 2 /\ obs[r] \in Nat
                      /\ obs[r] = 2 => r \in early /\ Behind(r)
                      /\ obs[r] = 1 => r \in early \/ (dedup /\ r \in seen) \/ Behind(r)
  BY DEF Once, Tailing, XInv, XType
<1>2. \A r \in seen \ early : stamp[r] <= path
  BY DEF Once, SeenHere
<1>3. ASSUME NEW r \in Rows, obs[r] \in {1, 2}, Behind(r) PROVE Behind(r)'
  BY <1>3, StillBehind
<1>4. ASSUME NEW r \in Rows, obs[r] = 1, seen' = {}, off >= Len(Content), r \in seen \ early
      PROVE  Behind(r)'
  BY <1>2, <1>4, StillBehind
<1>5. Tailing'
  <2> SUFFICES ASSUME NEW r \in Rows
               PROVE  /\ obs[r] <= 2
                      /\ obs[r] = 2 => r \in early /\ Behind(r)'
                      /\ obs[r] = 1 => r \in early \/ (dedup' /\ r \in seen') \/ Behind(r)'
    BY DEF Tailing
  <2>1. CASE UNCHANGED <<seen, dedup>>
    BY <1>1, <1>3, <2>1
  <2>2. CASE seen' = {} /\ off >= Len(Content)
    BY <1>1, <1>3, <1>4, <2>2
  <2> QED BY <2>1, <2>2
<1>6. SeenHere'
  BY <1>2 DEF SeenHere
<1> QED BY <1>5, <1>6 DEF Once, Fetching, Asleep, HeldApart

LEMMA LineOnce ==
  ASSUME XInv, Once, ReadLine
  PROVE  Once'
<1>1. /\ ex = "read" /\ off < Len(Content) /\ off' = off + 1
      /\ UNCHANGED <<ex, path, held, page, seen, dedup, stamp, file, early>>
      /\ IF dedup /\ Content[off + 1] \in seen THEN obs' = obs ELSE Observe(Content[off + 1])
  BY DEF ReadLine, listener, writer, store, dup, seenBy
<1>2. /\ path \in Days /\ Content \in Seq(Rows) /\ Len(Content) \in Nat /\ Distinct(Content)
      /\ \A i \in 1..Len(Content) :
           Content[i] \in Rows /\ status[Content[i]] = "written" /\ stamp[Content[i]] = path
  BY <1>1, ContentOK DEF XInv
<1>3. off + 1 \in 1..Len(Content) /\ off \in Int /\ path \in Int
  BY <1>1, <1>2, DaysAreInts DEF XInv, XType
<1>4. PICK x \in Rows : x = Content[off + 1] /\ stamp[x] = path
  BY <1>2, <1>3
<1>5. Content' = Content
  BY <1>1 DEF Content
<1>6. ASSUME NEW r \in Rows, Behind(r) PROVE Behind(r)'
  <2>1. CASE stamp[r] < path
    BY <1>1, <2>1 DEF Behind
  <2>2. CASE stamp[r] = path /\ \A i \in 1..Len(Content) : i > off => Content[i] # r
    <3>1. \A i \in 1..Len(Content) : i > off + 1 => i > off
      BY <1>3
    <3> QED BY <1>1, <1>5, <2>2, <3>1 DEF Behind
  <2> QED BY <1>6, <2>1, <2>2 DEF Behind
<1>7. Behind(x)'
  <2>1. \A i \in 1..Len(Content) : i > off + 1 => Content[i] # x
    BY <1>2, <1>3, <1>4 DEF Distinct
  <2> QED BY <1>1, <1>4, <1>5, <2>1 DEF Behind
<1>8. ~Behind(x)
  <2>1. off + 1 > off /\ ~(path < path)
    BY <1>3
  <2> QED BY <1>3, <1>4, <2>1 DEF Behind
<1>9. \A r \in Rows : /\ obs[r] <= 2 /\ obs[r] \in Nat
                      /\ obs[r] = 2 => r \in early /\ Behind(r)
                      /\ obs[r] = 1 => r \in early \/ (dedup /\ r \in seen) \/ Behind(r)
  BY <1>1 DEF Once, Tailing, XInv, XType
<1>10. CASE dedup /\ x \in seen
  <2>1. obs' = obs
    BY <1>1, <1>4, <1>10
  <2>2. Tailing'
    BY <1>1, <1>6, <1>9, <2>1 DEF Tailing
  <2> QED BY <1>1, <2>1, <2>2 DEF Once, Fetching, Asleep, SeenHere, HeldApart
<1>11. CASE ~(dedup /\ x \in seen)
  <2>1. \A r \in Rows : obs'[r] = IF r = x THEN obs[x] + 1 ELSE obs[r]
    BY <1>1, <1>4, <1>11 DEF Observe, XInv, XType
  <2>2. obs[x] = 0 \/ (obs[x] = 1 /\ x \in early)
    BY <1>4, <1>8, <1>9, <1>11
  <2>3. Tailing'
    <3> SUFFICES ASSUME NEW r \in Rows
                 PROVE  /\ obs'[r] <= 2
                        /\ obs'[r] = 2 => r \in early /\ Behind(r)'
                        /\ obs'[r] = 1 => r \in early \/ (dedup /\ r \in seen) \/ Behind(r)'
      BY <1>1 DEF Tailing
    <3>1. CASE r = x
      BY <1>7, <2>1, <2>2, <3>1
    <3>2. CASE r # x
      BY <1>6, <1>9, <2>1, <3>2
    <3> QED BY <3>1, <3>2
  <2>4. HeldApart'
    <3> SUFFICES ASSUME held # None, NEW r \in Rows, obs'[r] > 0 PROVE r \notin ToSet(file[path])
      BY <1>1 DEF HeldApart
    <3>1. CASE r = x
      <4>1. Content = held
        BY DEF Content
      <4> QED BY <1>3, <1>4, <3>1, <4>1 DEF XInv, HeldOnce
    <3>2. CASE r # x
      BY <2>1, <3>2 DEF Once, HeldApart
    <3> QED BY <3>1, <3>2
  <2> QED BY <1>1, <2>3, <2>4 DEF Once, Fetching, Asleep, SeenHere
<1> QED BY <1>10, <1>11

LEMMA OnceStep ==
  ASSUME XInv, XType', Once, [Next]_vars
  PROVE  Once'
<1> USE DEF tail, dup, seenBy, given
<1>1. CASE ListenerStep
  BY <1>1, ListenerOnce
<1>2. CASE ExporterStep \/ Kill \/ Terminate \/ UNCHANGED vars
  <2>0. UNCHANGED <<now, status, ended, stamp, jsonl, file, parquet, broken, packed, slips>>
    BY <1>2, ListenerUnchanged
  <2>1. CASE StartFresh \/ StartResume \/ StartRecovery
    BY <2>1, StartOnce
  <2>2. CASE RecoverPage
    BY <2>2, PageOnce
  <2>3. CASE RecoverGiveUp
    <3>1. held = None
      BY <2>3 DEF RecoverGiveUp, XInv, Where
    <3> QED BY <2>0, <2>3, <3>1, RecoveredOnce DEF RecoverGiveUp, LeaveRecovery
  <2>4. CASE LoopGone
    <3>1. path \in Days /\ Day(now) \in Days /\ path # Day(now) /\ path <= Day(now) /\ held = None
      BY <2>4, NowDay DEF LoopGone, XInv, XType, Where, SInv
    <3>2. path < Day(now)
      <4>1. path \in Int /\ Day(now) \in Int
        BY <3>1, DaysAreInts
      <4> QED BY <3>1, <4>1
    <3> QED BY <2>0, <2>4, <3>1, <3>2, MovedOn DEF LoopGone, SwitchTo, DropDedup
  <2>5. CASE LoopOpen
    <3>1. /\ ex = "loop" /\ ex' = "read" /\ UNCHANGED <<path, off, held, seen, dedup, obs, early, file, stamp>>
      BY <2>0, <2>5 DEF LoopOpen
    <3>2. Content' = Content
      BY <3>1 DEF Content
    <3>3. \A r \in Rows : Behind(r) => Behind(r)'
      BY <3>1, <3>2 DEF Behind
    <3>4. Tailing'
      BY <3>1, <3>3 DEF Once, Tailing
    <3> QED BY <3>1, <3>4 DEF Once, Fetching, Asleep, SeenHere, HeldApart
  <2>6. CASE ReadLine
    BY <2>6, LineOnce
  <2>7. CASE ReadEndMore \/ ReadError
    BY <2>0, <2>7, LeftFile DEF ReadEndMore, ReadError, LeaveFile
  <2>8. CASE ReadEndNone
    <3>1. ex = "read" /\ off >= Len(Content) /\ LeaveFile /\ UNCHANGED <<obs, early>>
      BY <2>8 DEF ReadEndNone
    <3>2. CASE path = top
      BY <2>0, <2>8, <3>1, <3>2, LeftFile DEF ReadEndNone, DropDedup, LeaveFile
    <3>3. CASE path # top
      <4>1. top \in Days /\ path \in Days /\ path <= top
        BY <3>1, NotNone DEF XInv, XType, Where
      <4>2. path < top
        BY <3>3, <4>1, DaysAreInts
      <4>3. path' = top /\ seen' = {}
        BY <2>8, <3>3 DEF ReadEndNone, SwitchTo, DropDedup
      <4> QED BY <2>0, <3>1, <4>1, <4>2, <4>3, MovedOn DEF LeaveFile
    <3> QED BY <3>2, <3>3
  <2>9. CASE Kill \/ Terminate
    <3>1. EndLife
      BY <2>9 DEF Kill, Terminate
    <3>2. \A r \in Rows : obs'[r] = 0
      BY <3>1 DEF EndLife
    <3> QED BY <3>1, <3>2 DEF EndLife, Once, Fetching, Tailing, Asleep, SeenHere, HeldApart
  <2>10. CASE UNCHANGED vars
    <3>1. UNCHANGED <<ex, path, off, held, page, seen, dedup, obs, early, file, stamp, ended>>
      BY <2>0, <2>10 DEF vars, exVars
    <3>2. Content' = Content
      BY <3>1 DEF Content
    <3> QED BY <3>1, <3>2 DEF Once, Fetching, Tailing, Asleep, SeenHere, HeldApart, Behind, Before
  <2> QED BY <1>2, <2>1, <2>2, <2>3, <2>4, <2>5, <2>6, <2>7, <2>8, <2>9, <2>10 DEF ExporterStep
<1> QED BY <1>1, <1>2 DEF Next

LEMMA ExportInit == Init => XInv /\ Once
<1> SUFFICES ASSUME Init PROVE XInv /\ Once
  OBVIOUS
<1>1. SInv /\ None \notin Days /\ None \notin Seq(Rows) /\ StoreInit
  BY StoreInvInit, NotNone, ExportAssumption DEF Init
<1>2. NoPage \in [from : -1..MaxTime, hi : -Lag..MaxTime, after : Rows \cup {None}]
  BY StoreAssumption, ExportAssumption DEF NoPage
<1>3. obs \in [Rows -> Nat] /\ (\A r \in Rows : obs[r] = 0) /\ dedup \in BOOLEAN
  BY DEF Init
<1>4. XType
  <2>1. 0 \in 0..NRows /\ 0 \in 0..MaxStops
    BY StoreAssumption, ExportAssumption
  <2> QED BY <1>2, <1>3, <2>1 DEF Init, XType
<1>5. Where
  BY DEF Init, Where
<1>6. Observed /\ HeldOnce
  BY <1>3 DEF Init, Observed, HeldOnce, NoPage
<1>7. Once
  BY <1>3 DEF Init, Once, Fetching, Tailing, Asleep, SeenHere, HeldApart
<1> QED BY <1>1, <1>4, <1>5, <1>6, <1>7 DEF XInv

LEMMA ExportInvariant == Spec => [](XInv /\ Once)
<1>1. XInv /\ [Next]_vars => XInv' /\ XType'
  <2> SUFFICES ASSUME XInv, [Next]_vars PROVE XInv' /\ XType'
    OBVIOUS
  <2>1. SInv /\ XType /\ Where /\ Observed /\ HeldOnce
    BY DEF XInv
  <2>2. SInv'
    BY <2>1, AsStore, StoreInvStep DEF SInv
  <2>3. XType'
    BY <2>1, XTypeStep
  <2>4. Where' /\ Observed' /\ HeldOnce'
    BY <2>1, <2>3, WhereStep, ObservedStep, HeldOnceStep
  <2> QED BY <2>2, <2>3, <2>4 DEF XInv
<1>2. XInv /\ Once /\ [Next]_vars => Once'
  BY <1>1, OnceStep
<1> QED BY <1>1, <1>2, ExportInit, PTL DEF Spec

LEMMA CountedOnce == XInv /\ Once => OncePerLife
<1> SUFFICES ASSUME XInv, Once, NEW r \in Rows PROVE obs[r] <= IF r \in early THEN 2 ELSE 1
  BY DEF OncePerLife
<1>1. obs[r] \in Nat /\ ex \in {"down", "recover", "loop", "read"}
  BY DEF XInv, XType
<1>2. CASE ex = "down"
  BY <1>2 DEF Once, Asleep
<1>3. CASE ex = "recover"
  BY <1>1, <1>3 DEF Once, Fetching
<1>4. CASE ex \in {"loop", "read"}
  BY <1>1, <1>4 DEF Once, Tailing
<1> QED BY <1>1, <1>2, <1>3, <1>4

\* tail.go 23: no life of the exporter counts a row twice, whatever the
\* listener writes, packs and removes meanwhile, wherever the pages of a
\* recovery end and however often files change under the tailer; the rows that
\* a recovery took from a file of a later day may be counted once more.
THEOREM RowsCountedOnce == Spec => []OncePerLife
  BY ExportInvariant, CountedOnce, PTL
-----------------------------------------------------------------------------
(***************************************************************************)
(* The checkpoint is never ahead of what was observed.  An offset says     *)
(* something only while the file exists: after the file of a past day is   *)
(* removed it may exceed its length, and no row is written to that file    *)
(* again as long as no clock reading is carried over midnight.             *)
(***************************************************************************)
ReadTo(s, o) == \A i \in 1..Len(s) : i <= o => s[i] \in ever

Covered(d, o) ==
  /\ d \in jsonl \/ d = Day(now) => o <= Len(file[d])
  /\ ReadTo(file[d], o)

Saved ==
  slips = 0 =>
    /\ ckpt # None => Covered(ckpt.day, ckpt.off)
    /\ path # None /\ held = None => Covered(path, off)
    /\ held # None => path < Day(now) /\ path \notin jsonl /\ off <= Len(held) /\ ReadTo(held, off)

\* Covered(d, o) of the state after the step.
CoveredNext(d, o) ==
  /\ d \in jsonl' \/ d = Day(now') => o <= Len(file'[d])
  /\ \A i \in 1..Len(file'[d]) : i <= o => file'[d][i] \in ever'

LEMMA SlipsStay ==
  ASSUME StoreTypeOK, StoreStep, slips' = 0
  PROVE  slips = 0
<1>1. slips' = slips \/ slips' = slips + 1
  BY DEF StoreStep, StoreNext, listener, Tick, End, ReadClock, Write, WriteError, RotList, RotToday, RotVisit,
         RotCopied, RotCopyFail, RotRemove, RotEnd, Crash
<1> QED BY <1>1 DEF StoreTypeOK

LEMMA NewFile ==
  ASSUME SInv, StoreStep, slips = 0, NEW d \in jsonl', d \notin jsonl
  PROVE  d = Day(now)
<1> USE DEF writer, store, pass, listener
<1>1. ASSUME NEW r \in Rows, Write(r) PROVE d = Day(now)
  <2>1. status[r] = "pending" /\ (jsonl' = jsonl \/ jsonl' = jsonl \cup {stamp[r]})
    BY <1>1, WriteIs DEF SInv
  <2>2. stamp[r] = Day(now)
    BY <2>1 DEF SInv, InTime
  <2> QED BY <2>1, <2>2
<1>2. ASSUME NEW r \in Rows, WriteError(r) PROVE d = Day(now)
  <2>1. status[r] = "pending" /\ (jsonl' = jsonl \/ jsonl' = jsonl \cup {stamp[r]})
    BY <1>2, WriteErrorIs DEF SInv
  <2>2. stamp[r] = Day(now)
    BY <2>1 DEF SInv, InTime
  <2> QED BY <2>1, <2>2
<1>3. CASE RotRemove
  BY <1>3 DEF RotRemove
<1>4. CASE \/ Tick \/ (\E r \in Rows : End(r) \/ ReadClock(r))
           \/ RotList \/ RotToday \/ RotVisit \/ RotCopied \/ RotCopyFail \/ RotEnd \/ Crash
           \/ UNCHANGED listener
  BY <1>4 DEF Tick, End, ReadClock, RotList, RotToday, RotVisit, RotCopied, RotCopyFail, RotEnd, Crash
<1> QED BY <1>1, <1>2, <1>3, <1>4 DEF StoreStep, StoreNext

LEMMA CoveredStep ==
  ASSUME SInv, StoreStep, slips = 0, ever' = ever, NEW d \in Days, d <= Day(now), NEW o \in Nat, Covered(d, o)
  PROVE  CoveredNext(d, o)
<1>0. /\ Day(now) \in Int /\ Day(now') \in Int /\ Day(now) <= Day(now') /\ d \in Int
      /\ file[d] \in Seq(Rows) /\ Len(file[d]) \in Nat
      /\ d \in jsonl \/ d = Day(now) => o <= Len(file[d])
      /\ \A i \in 1..Len(file[d]) : i <= o => file[d][i] \in ever
  <2>1. StoreTypeOK /\ StoreTypeOK'
    BY StoreInvStep DEF SInv
  <2>2. Day(now) \in Int /\ Day(now') \in Int /\ Day(now) <= Day(now') /\ d \in Int
    BY <2>1, Clock, DaysAreInts
  <2>3. file[d] \in Seq(Rows) /\ Len(file[d]) \in Nat
    BY <2>1 DEF StoreTypeOK
  <2> QED BY <2>2, <2>3 DEF Covered, ReadTo
<1>1. CASE file'[d] = file[d] /\ (d \in jsonl => d \in jsonl')
  <2>1. ASSUME d \in jsonl' \/ d = Day(now') PROVE o <= Len(file[d])
    <3>1. CASE d \in jsonl
      BY <1>0, <3>1
    <3>2. CASE d \notin jsonl /\ d \in jsonl'
      BY <1>0, <3>2, NewFile
    <3>3. CASE d = Day(now')
      BY <1>0, <3>3
    <3> QED BY <2>1, <3>1, <3>2, <3>3
  <2> QED BY <1>0, <1>1, <2>1 DEF CoveredNext
<1>2. ASSUME NEW r \in Rows, stamp[r] = d, status[r] = "pending", file'[d] = Append(file[d], r)
      PROVE  CoveredNext(d, o)
  <2>1. d = Day(now)
    BY <1>2 DEF SInv, InTime
  <2>2. o <= Len(file[d])
    BY <1>0, <2>1
  <2>3. /\ Len(file'[d]) = Len(file[d]) + 1
        /\ \A i \in 1..Len(file[d]) : file'[d][i] = file[d][i]
        /\ \A i \in 1..Len(file'[d]) : i \in 1..Len(file[d]) \/ i = Len(file[d]) + 1
    BY <1>0, <1>2, AppendIs
  <2>4. \A i \in 1..Len(file'[d]) : i <= o => i \in 1..Len(file[d])
    BY <1>0, <2>2, <2>3
  <2>5. o <= Len(file'[d])
    BY <1>0, <2>2, <2>3
  <2> QED BY <1>0, <2>3, <2>4, <2>5 DEF CoveredNext
<1>3. CASE d \in jsonl \ jsonl' /\ file'[d] = <<>> /\ d < Day(now)
  <2>1. d # Day(now') /\ d \notin jsonl'
    BY <1>0, <1>3
  <2>2. 1..Len(file'[d]) = {}
    BY <1>3, EmptySeq
  <2> QED BY <2>1, <2>2 DEF CoveredNext
<1> QED BY <1>1, <1>2, <1>3, FileStep

\* An exporter's step, which only adds to ever.
LEMMA CoveredKept ==
  ASSUME UNCHANGED <<now, jsonl, file>>, ever \subseteq ever', NEW d, NEW o, Covered(d, o)
  PROVE  CoveredNext(d, o)
  BY DEF Covered, CoveredNext, ReadTo

LEMMA CoveredZero ==
  ASSUME SInv, UNCHANGED <<now, jsonl, file>>, NEW d \in Days
  PROVE  CoveredNext(d, 0)
<1>1. Len(file[d]) \in Nat
  BY DEF SInv, StoreTypeOK
<1> QED BY <1>1 DEF CoveredNext

\* The offset of a past day's file that is gone.
LEMMA CoveredGone ==
  ASSUME SInv, UNCHANGED <<now, jsonl, file>>, NEW d \in Days, d < Day(now), d \notin jsonl, NEW o
  PROVE  CoveredNext(d, o)
<1>1. d # Day(now)
  <2>1. d \in Int /\ Day(now) \in Int
    BY NowDay, DaysAreInts DEF SInv
  <2> QED BY <2>1
<1>2. 1..Len(file[d]) = {}
  <2>1. file[d] = <<>>
    BY DEF SInv, StoreTypeOK
  <2> QED BY <2>1, EmptySeq
<1> QED BY <1>1, <1>2 DEF CoveredNext

LEMMA SavedNext ==
  ASSUME slips' = 0 =>
           /\ ckpt' # None => CoveredNext(ckpt'.day, ckpt'.off)
           /\ path' # None /\ held' = None => CoveredNext(path', off')
           /\ held' # None => /\ path' < Day(now') /\ path' \notin jsonl' /\ off' <= Len(held')
                              /\ \A i \in 1..Len(held') : i <= off' => held'[i] \in ever'
  PROVE  Saved'
  BY DEF Saved, Covered, CoveredNext, ReadTo

LEMMA PersistCovered ==
  ASSUME ckpt # None => CoveredNext(ckpt.day, ckpt.off), NEW d, NEW o, CoveredNext(d, o), PersistAt(d, o)
  PROVE  ckpt' # None => CoveredNext(ckpt'.day, ckpt'.off)
<1>1. CASE ckpt' = ckpt
  BY <1>1
<1>2. CASE ckpt' = [day |-> d, off |-> o]
  <2>1. ckpt'.day = d /\ ckpt'.off = o
    BY <1>2
  <2> QED BY <2>1
<1> QED BY <1>1, <1>2 DEF PersistAt

LEMMA ListenerSaved ==
  ASSUME XInv, Saved, ListenerStep
  PROVE  Saved'
<1>0. SInv /\ XType /\ Where /\ StoreTypeOK /\ StoreStep
  <2>1. StoreStep
    BY DEF ListenerStep, StoreStep
  <2> QED BY <2>1 DEF XInv, SInv
<1>1. /\ UNCHANGED <<ex, path, off, ckpt, ever>>
      /\ held' = IF ex = "read" /\ held = None /\ path \in jsonl \ jsonl' THEN file[path] ELSE held
  BY DEF ListenerStep, seenBy
<1> SUFFICES ASSUME slips' = 0
             PROVE  /\ ckpt' # None => CoveredNext(ckpt'.day, ckpt'.off)
                    /\ path' # None /\ held' = None => CoveredNext(path', off')
                    /\ held' # None => /\ path' < Day(now') /\ path' \notin jsonl' /\ off' <= Len(held')
                                       /\ \A i \in 1..Len(held') : i <= off' => held'[i] \in ever'
  BY SavedNext
<1>2. slips = 0
  BY <1>0, SlipsStay
<1>3. /\ Day(now) \in Int /\ Day(now') \in Int /\ Day(now) <= Day(now')
      /\ \A d \in Days : d \in Int
  <2>1. StoreTypeOK'
    BY <1>0, StoreInvStep DEF SInv
  <2> QED BY <1>0, <2>1, Clock, DaysAreInts
<1>4. /\ path # None => path \in Days /\ path <= Day(now)
      /\ ckpt # None => ckpt.day \in Days /\ ckpt.day <= Day(now) /\ ckpt.off \in Nat
      /\ off \in Nat
  BY <1>0 DEF XType, Where
<1>5. ckpt' # None => CoveredNext(ckpt'.day, ckpt'.off)
  BY <1>0, <1>1, <1>2, <1>4, CoveredStep DEF Saved
<1>6. held' = None => held = None
  <2>1. path \in jsonl => file[path] # None
    BY <1>0, ExportAssumption DEF StoreTypeOK
  <2> QED BY <1>1, <2>1
<1>7. path' # None /\ held' = None => CoveredNext(path', off')
  BY <1>0, <1>1, <1>2, <1>4, <1>6, CoveredStep DEF Saved
<1>8. CASE held # None
  <2>1. /\ path < Day(now) /\ path \notin jsonl /\ off <= Len(held)
        /\ \A i \in 1..Len(held) : i <= off => held[i] \in ever
    BY <1>2, <1>8 DEF Saved, ReadTo
  <2>2. path \in Days
    BY <1>0, <1>8 DEF Where, XType
  <2>3. path < Day(now') /\ path # Day(now)
    BY <1>3, <2>1, <2>2
  <2>4. path \notin jsonl'
    BY <1>0, <1>2, <2>1, <2>3, NewFile
  <2> QED BY <1>1, <1>5, <1>7, <1>8, <2>1, <2>3, <2>4
<1>9. CASE held = None /\ held' # None
  <2>1. held' = file[path] /\ path \in jsonl \ jsonl' /\ path \in Days
    BY <1>0, <1>1, <1>9 DEF StoreTypeOK
  <2>2. off <= Len(file[path]) /\ \A i \in 1..Len(file[path]) : i <= off => file[path][i] \in ever
    BY <1>2, <1>9, <2>1, NotNone DEF Saved, Covered, ReadTo
  <2>3. path < Day(now)
    BY <1>0, <2>1, FileStep
  <2>4. path < Day(now')
    BY <1>3, <2>1, <2>3
  <2> QED BY <1>1, <1>5, <1>7, <2>1, <2>2, <2>4
<1> QED BY <1>5, <1>7, <1>8, <1>9

\* A row the tailer reads has been observed afterwards.
LEMMA LineSeen ==
  ASSUME XInv, ReadLine
  PROVE  ever \subseteq ever' /\ Content[off + 1] \in ever'
<1>1. \/ Content[off + 1] \in seen /\ ever' = ever
      \/ ever' = ever \cup {Content[off + 1]}
  BY DEF ReadLine, Observe, seenBy
<1>2. seen \subseteq ever
  BY DEF XInv, Observed
<1> QED BY <1>1, <1>2

LEMMA LineSaved ==
  ASSUME XInv, Saved, ReadLine
  PROVE  Saved'
<1>1. /\ ex = "read" /\ off < Len(Content) /\ off' = off + 1
      /\ UNCHANGED <<path, held, now, jsonl, file, slips>>
      /\ ckpt' = ckpt \/ PersistAt(path, off + 1)
  BY DEF ReadLine, listener, writer, store
<1>2. /\ path \in Days /\ Content \in Seq(Rows) /\ Len(Content) \in Nat /\ off \in Nat
      /\ path # None
  <2>1. path \in Days /\ Content \in Seq(Rows) /\ Len(Content) \in Nat
    BY <1>1, ContentOK DEF XInv
  <2>2. off \in Nat
    BY DEF XInv, XType
  <2> QED BY <2>1, <2>2, NotNone
<1>3. ever \subseteq ever' /\ Content[off + 1] \in ever'
  BY LineSeen
<1> SUFFICES ASSUME slips = 0
             PROVE  /\ ckpt' # None => CoveredNext(ckpt'.day, ckpt'.off)
                    /\ path' # None /\ held' = None => CoveredNext(path', off')
                    /\ held' # None => /\ path' < Day(now') /\ path' \notin jsonl' /\ off' <= Len(held')
                                       /\ \A i \in 1..Len(held') : i <= off' => held'[i] \in ever'
  BY <1>1, SavedNext
<1>4. ckpt # None => CoveredNext(ckpt.day, ckpt.off)
  BY <1>1, <1>3, CoveredKept DEF Saved
<1>5. ASSUME \A i \in 1..Len(Content) : i <= off => Content[i] \in ever
      PROVE  \A i \in 1..Len(Content) : i <= off + 1 => Content[i] \in ever'
  <2>1. \A i \in 1..Len(Content) : i <= off + 1 => i <= off \/ i = off + 1
    BY <1>2
  <2> QED BY <1>3, <1>5, <2>1
<1>6. CASE held # None
  <2>1. Content = held
    BY <1>6 DEF Content
  <2>2. /\ path < Day(now) /\ path \notin jsonl
        /\ \A i \in 1..Len(held) : i <= off => held[i] \in ever
    BY <1>6 DEF Saved, ReadTo
  <2>3. CoveredNext(path, off + 1)
    BY <1>1, <1>2, <2>2, CoveredGone DEF XInv
  <2>4. ckpt' # None => CoveredNext(ckpt'.day, ckpt'.off)
    BY <1>1, <1>4, <2>3, PersistCovered
  <2>5. off + 1 <= Len(held)
    BY <1>1, <1>2, <2>1
  <2> QED BY <1>1, <1>5, <1>6, <2>1, <2>2, <2>4, <2>5
<1>7. CASE held = None
  <2>1. Content = file[path]
    BY <1>7 DEF Content
  <2>2. \A i \in 1..Len(file[path]) : i <= off => file[path][i] \in ever
    BY <1>2, <1>7 DEF Saved, Covered, ReadTo
  <2>3. off + 1 <= Len(file[path])
    BY <1>1, <1>2, <2>1
  <2>4. CoveredNext(path, off + 1)
    BY <1>1, <1>5, <2>1, <2>2, <2>3 DEF CoveredNext
  <2>5. ckpt' # None => CoveredNext(ckpt'.day, ckpt'.off)
    BY <1>1, <1>4, <2>4, PersistCovered
  <2> QED BY <1>1, <1>7, <2>4, <2>5
<1> QED BY <1>6, <1>7

LEMMA SavedStep ==
  ASSUME XInv, Saved, [Next]_vars
  PROVE  Saved'
<1> USE DEF tail, dup, seenBy, given
<1>1. CASE ListenerStep
  BY <1>1, ListenerSaved
<1>2. CASE ReadLine
  BY <1>2, LineSaved
<1>3. CASE (ExporterStep /\ ~ReadLine) \/ Kill \/ Terminate \/ UNCHANGED vars
  <2>0. UNCHANGED <<now, jsonl, file, slips>> /\ SInv /\ XType /\ Where /\ HeldOnce /\ Day(now) \in Days
    BY <1>3, ListenerUnchanged, NowDay DEF XInv, SInv
  <2>1. ever \subseteq ever'
    BY <1>3 DEF ExporterStep, StartFresh, StartResume, StartRecovery, RecoverPage, RecoverGiveUp, LoopGone, LoopOpen,
         ReadEndMore, ReadEndNone, ReadError, Observe, Kill, Terminate, EndLife, vars, exVars
  <2>2. CASE slips # 0
    BY <2>0, <2>2 DEF Saved
  <2>3. CASE slips = 0
    <3>1. ckpt # None => CoveredNext(ckpt.day, ckpt.off)
      BY <2>0, <2>1, <2>3, CoveredKept DEF Saved
    <3>2. path # None /\ held = None => CoveredNext(path, off)
      BY <2>0, <2>1, <2>3, CoveredKept DEF Saved
    <3>3. ex = "read" => CoveredNext(path, off)
      <4> SUFFICES ASSUME ex = "read" PROVE CoveredNext(path, off)
        OBVIOUS
      <4>1. path \in Days /\ path # None
        BY <2>0, NotNone DEF XType
      <4>2. CASE held = None
        BY <3>2, <4>1, <4>2
      <4>3. CASE held # None
        BY <2>0, <2>3, <4>1, <4>3, CoveredGone DEF Saved
      <4> QED BY <4>2, <4>3
    <3>4. /\ held # None => ex = "read"
          /\ ex # "down" => path \in Days /\ path # None
      BY <2>0, NotNone DEF Where, XType
    <3>5. ASSUME held' = None, ckpt' # None => CoveredNext(ckpt'.day, ckpt'.off),
                 path' # None => CoveredNext(path', off')
          PROVE  Saved'
      BY <3>5, SavedNext
    <3>6. CASE StartFresh
      <4>1. CoveredNext(Day(now), 0)
        BY <2>0, CoveredZero
      <4> QED BY <3>1, <3>4, <3>5, <3>6, <4>1 DEF StartFresh
    <3>7. CASE StartResume
      BY <3>1, <3>4, <3>5, <3>7 DEF StartResume
    <3>8. CASE StartRecovery
      <4>1. CoveredNext(Day(now), 0)
        BY <2>0, CoveredZero
      <4> QED BY <3>1, <3>4, <3>5, <3>8, <4>1 DEF StartRecovery
    <3>9. CASE RecoverPage \/ RecoverGiveUp
      <4>1. UNCHANGED <<path, off, held, ckpt>> /\ held = None
        BY <3>4, <3>9 DEF RecoverPage, RecoverGiveUp
      <4> QED BY <3>1, <3>2, <3>5, <4>1
    <3>10. CASE LoopGone
      <4>1. CoveredNext(Day(now), 0)
        BY <2>0, CoveredZero
      <4>2. PersistAt(Day(now), 0) /\ path' = Day(now) /\ off' = 0 /\ held' = None
        BY <3>4, <3>10 DEF LoopGone, SwitchTo
      <4>3. ckpt' # None => CoveredNext(ckpt'.day, ckpt'.off)
        BY <3>1, <4>1, <4>2, PersistCovered
      <4> QED BY <3>5, <4>1, <4>2, <4>3
    <3>11. CASE LoopOpen
      BY <3>1, <3>2, <3>4, <3>5, <3>11 DEF LoopOpen
    <3>12. CASE ReadEndMore
      <4>1. ex = "read" /\ PersistAt(path, off) /\ UNCHANGED <<path, off>> /\ held' = None
        BY <3>12 DEF ReadEndMore, LeaveFile
      <4>2. ckpt' # None => CoveredNext(ckpt'.day, ckpt'.off)
        BY <3>1, <3>3, <4>1, PersistCovered
      <4> QED BY <3>3, <3>5, <4>1, <4>2
    <3>13. CASE ReadEndNone
      <4>1. ex = "read" /\ held' = None /\ top \in Days
        BY <2>0, <3>13 DEF ReadEndNone, LeaveFile, XType
      <4>2. CASE path = top
        BY <3>1, <3>3, <3>5, <3>13, <4>1, <4>2 DEF ReadEndNone
      <4>3. CASE path # top
        <5>1. PersistAt(top, 0) /\ path' = top /\ off' = 0
          BY <3>13, <4>3 DEF ReadEndNone, SwitchTo
        <5>2. CoveredNext(top, 0)
          BY <2>0, <4>1, CoveredZero
        <5>3. ckpt' # None => CoveredNext(ckpt'.day, ckpt'.off)
          BY <3>1, <5>1, <5>2, PersistCovered
        <5> QED BY <3>5, <4>1, <5>1, <5>2, <5>3
      <4> QED BY <4>2, <4>3
    <3>14. CASE ReadError
      <4>1. ex = "read" /\ UNCHANGED <<path, off>> /\ held' = None
        BY <3>14 DEF ReadError, LeaveFile
      <4>2. ckpt' = ckpt \/ ckpt' = [day |-> path, off |-> off]
        BY <3>14 DEF ReadError
      <4>3. ckpt' # None => CoveredNext(ckpt'.day, ckpt'.off)
        BY <3>1, <3>3, <4>1, <4>2
      <4> QED BY <3>3, <3>5, <4>1, <4>3
    <3>15. CASE Kill
      BY <3>1, <3>5, <3>15 DEF Kill, EndLife
    <3>16. CASE Terminate
      <4>1. path # None /\ held = None /\ PersistAt(path, off)
        BY <3>4, <3>16 DEF Terminate
      <4>2. ckpt' # None => CoveredNext(ckpt'.day, ckpt'.off)
        BY <3>1, <3>2, <4>1, PersistCovered
      <4> QED BY <3>5, <3>16, <4>2 DEF Terminate, EndLife
    <3>17. CASE UNCHANGED vars
      <4>1. UNCHANGED <<path, off, held, ckpt, ever>>
        BY <3>17 DEF vars, exVars
      <4>2. held # None => /\ path < Day(now) /\ path \notin jsonl /\ off <= Len(held)
                           /\ \A i \in 1..Len(held) : i <= off => held[i] \in ever
        BY <2>3 DEF Saved, ReadTo
      <4> QED BY <2>0, <3>1, <3>2, <4>1, <4>2, SavedNext
    <3> QED BY <1>3, <3>6, <3>7, <3>8, <3>9, <3>10, <3>11, <3>12, <3>13, <3>14, <3>15, <3>16, <3>17
            DEF ExporterStep
  <2> QED BY <2>0, <2>2, <2>3 DEF SInv, StoreTypeOK
<1> QED BY <1>1, <1>2, <1>3 DEF Next

LEMMA SavedInvariant == Spec => [](XInv /\ Saved)
<1>1. Init => Saved
  BY DEF Init, Saved
<1>2. XInv /\ Saved /\ [Next]_vars => Saved'
  BY SavedStep
<1> QED BY <1>1, <1>2, ExportInvariant, PTL DEF Spec

LEMMA ExportTypes == XInv /\ Once => TypeOK
<1> SUFFICES ASSUME XInv, Once PROVE TypeOK
  OBVIOUS
<1>1. XType /\ StoreTypeOK
  BY DEF XInv, SInv
<1>2. obs \in [Rows -> 0..2]
  <2>1. obs \in [Rows -> Nat] /\ \A r \in Rows : obs[r] <= 2
    <3>1. \A r \in Rows : obs[r] <= IF r \in early THEN 2 ELSE 1
      BY CountedOnce DEF OncePerLife
    <3> QED BY <1>1, <3>1 DEF XType
  <2>2. \A r \in Rows : obs[r] \in 0..2
    BY <2>1
  <2> QED BY <2>1, <2>2
<1>3. (path = None) = (ex = "down") /\ (top = None) = (ex # "read")
  BY <1>1 DEF XType
<1> QED BY <1>1, <1>2, <1>3 DEF XType, TypeOK

\* checkpoint.go 10: the saved position is never ahead of what was observed,
\* wherever the exporter is killed and whatever fails, unless a clock reading
\* was carried over midnight; and it is one of a day's file.
THEOREM CheckpointNeverAhead == Spec => []CheckpointSound
<1>1. XInv /\ Saved => CheckpointBehind
  BY DEF Saved, Covered, ReadTo, CheckpointBehind
<1>2. TypeOK /\ CheckpointBehind => CheckpointSound
  BY DEF CheckpointSound
<1> QED BY <1>1, <1>2, ExportInvariant, SavedInvariant, ExportTypes, PTL
-----------------------------------------------------------------------------
(***************************************************************************)
(* Rows that were passed over.  A row that is neither observed nor listed  *)
(* among the losses is still to come: from the saved position, from that   *)
(* of the running tailer, or on one of the next pages of the recovery.     *)
(***************************************************************************)
Rest(r, s, o) == \E i \in 1..Len(s) : i > o /\ s[i] = r

ToCome(r, d, o) ==
  \/ stamp[r] > d
  \/ stamp[r] = d /\ (d \notin jsonl \/ Rest(r, file[d], o))

\* The day is followed afterwards, the time is past the end of the recovery,
\* or the row is behind the cursor.
Fetchable(r) ==
  \/ stamp[r] >= path
  \/ ended[r] >= page.hi
  \/ stamp[r] > page.from /\ (page.after # None => Before(page.after, r))

Acc ==
  slips = 0 =>
    \A r \in Unread \ (told \cup missed) :
      /\ ckpt # None => ToCome(r, ckpt.day, ckpt.off)
      /\ ex = "loop" => ToCome(r, path, off)
      /\ ex = "read" => stamp[r] > path \/ (stamp[r] = path /\ Rest(r, Content, off))
      /\ ex = "recover" => Fetchable(r)

\* ToCome(r, d, o) of the state after the step.
ToComeNext(r, d, o) ==
  \/ stamp'[r] > d
  \/ stamp'[r] = d /\ (d \notin jsonl' \/ Rest(r, file'[d], o))

LEMMA AccNext ==
  ASSUME slips' = 0 =>
           \A r \in Unread' \ (told' \cup missed') :
             /\ ckpt' # None => ToComeNext(r, ckpt'.day, ckpt'.off)
             /\ ex' = "loop" => ToComeNext(r, path', off')
             /\ ex' = "read" => stamp'[r] > path' \/ (stamp'[r] = path' /\ Rest(r, Content', off'))
             /\ ex' = "recover" => Fetchable(r)'
  PROVE  Acc'
  BY DEF Acc, ToCome, ToComeNext, Rest

\* Nothing of today has been packed: a row of today is in today's file.
LEMMA TodayInFile ==
  ASSUME SInv, slips = 0, NEW r \in Rows, status[r] = "written", stamp[r] = Day(now)
  PROVE  Day(now) \in jsonl
<1>1. Home(r)
  BY DEF SInv, InTime
<1>2. Day(now) \in Int
  BY NowDay DEF SInv
<1>3. Day(now) \notin parquet
  BY <1>2 DEF SInv, PastOnly
<1> QED BY <1>1, <1>3 DEF Home

\* From the start of a file nothing of its day or later is passed over.
LEMMA FromStart ==
  ASSUME XInv, slips = 0, NEW r \in Rows, status[r] = "written", NEW d \in Days, stamp[r] >= d
  PROVE  ToCome(r, d, 0)
<1>1. stamp[r] \in Int /\ d \in Int
  BY WrittenRow, DaysAreInts
<1>2. CASE stamp[r] > d
  BY <1>2 DEF ToCome
<1>3. CASE stamp[r] = d /\ d \in jsonl
  <2>1. r \in ToSet(file[d]) /\ file[d] \in Seq(Rows)
    BY <1>3 DEF XInv, SInv, InTime, Home, StoreTypeOK
  <2>2. PICK i \in 1..Len(file[d]) : file[d][i] = r
    BY <2>1, ToSetIs
  <2>3. Rest(r, file[d], 0)
    BY <2>2 DEF Rest
  <2> QED BY <1>3, <2>3 DEF ToCome
<1>4. CASE stamp[r] = d /\ d \notin jsonl
  BY <1>4 DEF ToCome
<1> QED BY <1>1, <1>2, <1>3, <1>4

\* What is to come stays to come, whatever the listener does.
LEMMA ToComeStep ==
  ASSUME XInv, StoreStep, slips = 0, NEW r \in Rows, status[r] = "written",
         NEW d \in Days, NEW o \in Nat, ToCome(r, d, o)
  PROVE  ToComeNext(r, d, o)
<1>0. /\ SInv /\ stamp'[r] = stamp[r] /\ file[d] \in Seq(Rows) /\ Len(file[d]) \in Nat
  BY WrittenStays DEF XInv, SInv, StoreTypeOK
<1>1. CASE stamp[r] > d
  BY <1>0, <1>1 DEF ToComeNext
<1>2. CASE stamp[r] = d /\ d \notin jsonl
  <2>1. d \notin jsonl'
    <3>1. ASSUME d \in jsonl' PROVE FALSE
      <4>1. d = Day(now)
        BY <1>0, <1>2, <3>1, NewFile
      <4> QED BY <1>0, <1>2, <4>1, TodayInFile
    <3> QED BY <3>1
  <2> QED BY <1>0, <1>2, <2>1 DEF ToComeNext
<1>3. CASE stamp[r] = d /\ d \in jsonl /\ Rest(r, file[d], o)
  <2>1. PICK i \in 1..Len(file[d]) : i > o /\ file[d][i] = r
    BY <1>3 DEF Rest
  <2>2. CASE file'[d] = file[d]
    BY <1>0, <1>3, <2>2 DEF ToComeNext
  <2>3. ASSUME NEW x \in Rows, file'[d] = Append(file[d], x)
        PROVE  ToComeNext(r, d, o)
    <3>1. i \in 1..Len(file'[d]) /\ file'[d][i] = r
      <4>1. file'[d][i] = file[d][i] /\ Len(file'[d]) = Len(file[d]) + 1
        BY <1>0, <2>3, AppendIs
      <4> QED BY <1>0, <2>1, <4>1
    <3>2. Rest(r, file'[d], o)
      BY <2>1, <3>1 DEF Rest
    <3> QED BY <1>0, <1>3, <3>2 DEF ToComeNext
  <2>4. CASE d \notin jsonl'
    BY <1>0, <1>3, <2>4 DEF ToComeNext
  <2> QED BY <1>0, <2>2, <2>3, <2>4, FileStep
<1> QED BY <1>1, <1>2, <1>3 DEF ToCome

\* A row that is written now is ahead of every position.
LEMMA WrittenToCome ==
  ASSUME XInv, StoreStep, slips' = 0, slips = 0, NEW r \in Rows, Write(r),
         NEW d \in Days, d <= Day(now), NEW o \in Nat, d = Day(now) => o <= Len(file[d])
  PROVE  /\ ToComeNext(r, d, o) /\ stamp'[r] = Day(now) /\ (d < Day(now) => stamp'[r] > d)
<1>0. SInv /\ SInv' /\ StoreTypeOK /\ Stamped
  BY StoreInvStep DEF XInv, SInv
<1>1. status[r] = "pending" /\ stamp'[r] = stamp[r] /\ status'[r] = "written"
  <2>1. status[r] = "pending" /\ status' = [status EXCEPT ![r] = "written"] /\ stamp' = stamp
    BY <1>0, WriteIs
  <2> QED BY <1>0, <2>1 DEF StoreTypeOK
<1>2. stamp[r] = Day(now)
  BY <1>0, <1>1 DEF SInv, InTime
<1>3. d \in Int /\ Day(now) \in Int
  BY <1>0, NowDay, DaysAreInts
<1>4. CASE d < Day(now)
  BY <1>1, <1>2, <1>3, <1>4 DEF ToComeNext
<1>5. CASE d = Day(now)
  <2>1. CASE d \notin jsonl'
    BY <1>1, <1>2, <1>3, <1>5, <2>1 DEF ToComeNext
  <2>2. CASE d \in jsonl'
    <3>1. r \in ToSet(file'[d])
      BY <1>0, <1>1, <1>2, <1>5, <2>2 DEF SInv, InTime, Home
    <3>2. file[d] \in Seq(Rows) /\ Len(file[d]) \in Nat
      BY <1>0 DEF StoreTypeOK
    <3>3. r \notin ToSet(file[d])
      <4>1. \A i \in 1..Len(file[d]) : file[d][i] # r
        BY <1>0, <1>1 DEF SInv, OnceIn
      <4> QED BY <3>2, <4>1, ToSetIs
    <3>4. ASSUME NEW x \in Rows, file'[d] = Append(file[d], x)
          PROVE  Rest(r, file'[d], o)
      <4>1. x = r
        BY <3>1, <3>2, <3>3, <3>4, AppendIs
      <4>2. Len(file'[d]) = Len(file[d]) + 1 /\ file'[d][Len(file[d]) + 1] = r
        BY <3>2, <3>4, <4>1, AppendIs
      <4>3. Len(file[d]) + 1 \in 1..Len(file'[d]) /\ Len(file[d]) + 1 > o
        BY <1>5, <3>2, <4>2
      <4> QED BY <4>2, <4>3 DEF Rest
    <3>5. Rest(r, file'[d], o)
      BY <1>0, <3>1, <3>3, <3>4, FileStep
    <3> QED BY <1>1, <1>2, <1>3, <1>5, <3>5 DEF ToComeNext
  <2> QED BY <2>1, <2>2
<1> QED BY <1>3, <1>4, <1>5, <1>1, <1>2

LEMMA ListenerAcc ==
  ASSUME XInv, Saved, Acc, ListenerStep, Where'
  PROVE  Acc'
<1>0. SInv /\ XType /\ Where /\ StoreTypeOK /\ StoreStep
  <2>1. StoreStep
    BY DEF ListenerStep, StoreStep
  <2> QED BY <2>1 DEF XInv, SInv
<1>1. /\ UNCHANGED <<ex, path, off, page, ckpt, ever, told, missed>>
      /\ held' = IF ex = "read" /\ held = None /\ path \in jsonl \ jsonl' THEN file[path] ELSE held
  BY DEF ListenerStep, seenBy, given
<1> SUFFICES ASSUME slips' = 0, NEW r \in Unread', r \notin told \cup missed
             PROVE  /\ ckpt # None => ToComeNext(r, ckpt.day, ckpt.off)
                    /\ ex = "loop" => ToComeNext(r, path, off)
                    /\ ex = "read" => stamp'[r] > path \/ (stamp'[r] = path /\ Rest(r, Content', off))
                    /\ ex = "recover" => Fetchable(r)'
  BY <1>1, AccNext
<1>2. slips = 0
  BY <1>0, SlipsStay
<1>3. r \in Rows /\ status'[r] = "written" /\ r \notin ever
  BY <1>1 DEF Unread
<1>4. /\ path # None => path \in Days /\ path <= Day(now)
      /\ ckpt # None => ckpt.day \in Days /\ ckpt.day <= Day(now) /\ ckpt.off \in Nat
      /\ off \in Nat /\ (ex # "down" => path # None)
      /\ Day(now) \in Int /\ (\A d \in Days : d \in Int)
      /\ \A d \in Days : file[d] \in Seq(Rows)
  <2>1. /\ path \in Days \cup {None} /\ (path # None => path <= Day(now))
        /\ off \in Nat /\ (ex # "down" => path # None)
    BY <1>0 DEF XType, Where
  <2>2. ckpt # None => ckpt.day \in Days /\ ckpt.day <= Day(now) /\ ckpt.off \in Nat
    BY <1>0 DEF XType, Where
  <2>3. \A d \in Days : file[d] \in Seq(Rows)
    BY <1>0 DEF StoreTypeOK
  <2>4. Day(now) \in Int /\ \A d \in Days : d \in Int
    BY <1>0, NowDay, DaysAreInts
  <2> QED BY <2>1, <2>2, <2>3, <2>4
<1>5. ASSUME held' = None, ex = "read" PROVE held = None /\ path \in jsonl /\ path \in jsonl' /\ path \in Days
  <2>1. path \in jsonl => file[path] # None
    BY <1>0, ExportAssumption DEF StoreTypeOK
  <2>2. held = None
    BY <1>1, <1>5, <2>1
  <2>3. path' \in jsonl'
    BY <1>1, <1>5 DEF Where
  <2> QED BY <1>0, <1>1, <1>5, <2>2, <2>3 DEF Where, StoreTypeOK
\* A row that had been written before.
<1>6. CASE status[r] = "written"
  <2>1. /\ ckpt # None => ToCome(r, ckpt.day, ckpt.off)
        /\ ex = "loop" => ToCome(r, path, off)
        /\ ex = "read" => stamp[r] > path \/ (stamp[r] = path /\ Rest(r, Content, off))
        /\ ex = "recover" => Fetchable(r)
    BY <1>2, <1>3, <1>6 DEF Acc, Unread
  <2>2. /\ ckpt # None => ToComeNext(r, ckpt.day, ckpt.off)
        /\ ex = "loop" => ToComeNext(r, path, off)
    BY <1>0, <1>2, <1>3, <1>4, <1>6, <2>1, ToComeStep
  <2>3. stamp'[r] = stamp[r] /\ ended'[r] = ended[r]
    BY <1>0, <1>3, <1>6, WrittenStays
  <2>4. ASSUME ex = "read"
        PROVE  stamp'[r] > path \/ (stamp'[r] = path /\ Rest(r, Content', off))
    <3>1. CASE held' # None
      <4>1. Content' = Content
        BY <1>1, <3>1 DEF Content
      <4> QED BY <2>1, <2>3, <2>4, <4>1
    <3>2. CASE held' = None
      <4>1. held = None /\ path \in jsonl /\ path \in jsonl' /\ path \in Days
        BY <1>5, <2>4, <3>2
      <4>2. Content = file[path] /\ Content' = file'[path]
        BY <1>1, <3>2, <4>1 DEF Content
      <4>3. ToCome(r, path, off)
        BY <2>1, <2>4, <4>2 DEF ToCome
      <4>4. ToComeNext(r, path, off)
        BY <1>0, <1>2, <1>3, <1>4, <1>6, <4>1, <4>3, ToComeStep
      <4> QED BY <4>1, <4>2, <4>4 DEF ToComeNext
    <3> QED BY <3>1, <3>2
  <2>5. ex = "recover" => Fetchable(r)'
    <3>1. page.after # None => ended'[page.after] = ended[page.after]
      <4>1. page.after # None => page.after \in Rows /\ status[page.after] = "written"
        BY <1>0 DEF XType, XInv, Observed
      <4> QED BY <1>0, <4>1, WrittenStays
    <3> QED BY <1>1, <2>1, <2>3, <3>1 DEF Fetchable, Before
  <2> QED BY <2>2, <2>4, <2>5
\* A row that is written now.
<1>7. CASE status[r] # "written"
  <2>0. Write(r)
    BY <1>0, <1>3, <1>7, WrittenStays
  <2>1. ckpt # None => (ckpt.day = Day(now) => ckpt.off <= Len(file[ckpt.day]))
    BY <1>2 DEF Saved, Covered
  <2>2. ckpt # None => ToComeNext(r, ckpt.day, ckpt.off)
    BY <1>0, <1>2, <1>3, <1>4, <2>0, <2>1, WrittenToCome
  <2>3. path # None /\ held = None => (path = Day(now) => off <= Len(file[path]))
    BY <1>2 DEF Saved, Covered
  <2>4. path # None /\ held = None => ToComeNext(r, path, off)
    BY <1>0, <1>2, <1>3, <1>4, <2>0, <2>3, WrittenToCome
  <2>5. stamp'[r] = Day(now)
    <3>1. status[r] = "pending" /\ stamp' = stamp
      BY <1>0, <1>3, <2>0, WriteIs DEF SInv
    <3> QED BY <1>0, <1>2, <1>3, <3>1 DEF SInv, InTime
  <2>6. ex = "loop" => ToComeNext(r, path, off)
    BY <1>0, <1>4, <2>4 DEF Where
  <2>7. ASSUME ex = "read"
        PROVE  stamp'[r] > path \/ (stamp'[r] = path /\ Rest(r, Content', off))
    <3>1. CASE held # None
      BY <1>2, <1>4, <2>5, <2>7, <3>1 DEF Saved
    <3>2. CASE held = None /\ held' = None
      <4>1. path \in jsonl' /\ Content' = file'[path]
        BY <1>1, <1>5, <2>7, <3>2 DEF Content
      <4> QED BY <1>4, <2>4, <2>7, <3>2, <4>1 DEF ToComeNext
    <3>3. CASE held = None /\ held' # None
      <4>1. path \in jsonl \ jsonl' /\ path \in Days
        BY <1>0, <1>1, <3>3 DEF StoreTypeOK
      <4>2. path < Day(now)
        BY <1>0, <1>3, <2>0, <4>1, FileStep
      <4> QED BY <1>4, <2>5, <4>1, <4>2
    <3> QED BY <3>1, <3>2, <3>3
  <2>8. ex = "recover" => Fetchable(r)'
    BY <1>1, <1>4, <2>5 DEF Fetchable
  <2> QED BY <2>2, <2>6, <2>7, <2>8
<1> QED BY <1>6, <1>7

\* A recovery finds the rows before its end that lie past its cursor.
LEMMA WillFetch ==
  ASSUME XInv, slips = 0, ex = "recover", NEW r \in Rows, status[r] = "written",
         Fetchable(r), stamp[r] < path, ended[r] < page.hi
  PROVE  r \in PageHits
<1>1. /\ page.from \in Int /\ page.hi \in Int /\ path \in Int
      /\ page.after # None => page.after \in Rows /\ status[page.after] = "written"
  <2>1. path \in Days
    BY NotNone DEF XInv, XType
  <2> QED BY <2>1, DaysAreInts, StoreAssumption, ExportAssumption DEF XInv, XType, Observed
<1>2. /\ ended[r] \in Int /\ stamp[r] \in Int /\ stamp[r] \in Days /\ Day(ended[r]) \in Int
      /\ Day(ended[r]) <= stamp[r] /\ stamp[r] <= Day(ended[r]) + 1
  BY WrittenRow
<1>3. /\ stamp[r] > page.from /\ (page.after # None => Before(page.after, r))
  BY <1>1, <1>2 DEF Fetchable
<1>4. stamp[r] \in PageDays
  <2>1. Day(ended[r]) <= Day(page.hi) /\ Day(page.hi) \in Int
    BY <1>1, <1>2, DayMono, DayOf
  <2>2. stamp[r] <= Day(page.hi) + 1
    BY <1>2, <2>1
  <2>3. CASE page.after = None
    BY <1>1, <1>2, <1>3, <2>2, <2>3 DEF PageDays
  <2>4. CASE page.after # None
    <3>1. ended[page.after] \in Int /\ Day(ended[page.after]) \in Int /\ Before(page.after, r)
      BY <1>1, <1>3, <2>4, WrittenRow
    <3>2. ended[page.after] <= ended[r]
      BY <1>2, <3>1 DEF Before
    <3>3. Day(ended[page.after]) <= Day(ended[r])
      BY <1>2, <3>1, <3>2, DayMono
    <3>4. Day(ended[page.after]) <= stamp[r]
      BY <1>2, <3>1, <3>3
    <3> QED BY <1>2, <2>2, <2>4, <3>4 DEF PageDays
  <2> QED BY <2>3, <2>4
<1>5. r \in PageRows
  <2>1. Home(r)
    BY DEF XInv, SInv, InTime
  <2>2. CASE stamp[r] \in parquet
    BY <1>4, <2>1, <2>2 DEF Home, PageRows
  <2>3. CASE stamp[r] \notin parquet
    BY <1>4, <2>1, <2>3 DEF Home, PageRows, RowsOf
  <2> QED BY <2>2, <2>3
<1>6. page.after = None => ended[r] >= DayLen * page.from
  <2>1. page.from <= Day(ended[r])
    BY <1>1, <1>2, <1>3
  <2>2. DayLen * page.from <= DayLen * Day(ended[r]) /\ DayLen * page.from \in Int /\ DayLen * Day(ended[r]) \in Int
    BY <1>1, <1>2, <2>1, Product, StoreAssumption
  <2>3. DayLen * Day(ended[r]) <= ended[r]
    BY <1>2, DayOf
  <2> QED BY <1>2, <2>2, <2>3
<1> QED BY <1>3, <1>5, <1>6 DEF PageHits

\* A page of the recovery: the row it takes is the first of those to fetch,
\* and once it takes none, or the last, the rest is of the day that is
\* followed next, or ends after the recovery.
LEMMA PageAcc ==
  ASSUME XInv, slips = 0, ex = "recover", RecoverPage,
         NEW r \in Rows, status[r] = "written", r \notin ever', r \notin missed', r \notin ever, Fetchable(r)
  PROVE  /\ ex' = "recover" => Fetchable(r)'
         /\ ex' = "loop" => stamp[r] >= path
         /\ ex' \in {"recover", "loop"}
<1>1. /\ UNCHANGED <<path, stamp, ended>>
      /\ missed' = IF ex' = "recover" THEN missed
                   ELSE missed \cup {x \in UnreadOf({d \in Days : d < path}) : ended[x] >= page.hi}
  BY DEF RecoverPage, tail, listener, writer
<1>2. /\ ended[r] \in Int /\ stamp[r] \in Int /\ stamp[r] \in Days /\ path \in Int /\ page.hi \in Int
  <2>1. path \in Days
    BY NotNone DEF XInv, XType
  <2>2. page.hi \in Int
    BY StoreAssumption, ExportAssumption DEF XInv, XType
  <2> QED BY <2>1, <2>2, WrittenRow, DaysAreInts
<1>3. r \in Unread
  BY DEF Unread
<1>4. stamp[r] >= path \/ ended[r] >= page.hi \/ r \in PageHits
  <2>1. CASE stamp[r] < path /\ ended[r] < page.hi
    BY <2>1, WillFetch
  <2> QED BY <1>2, <2>1
<1>5. ASSUME ex' = "loop", r \notin PageHits PROVE stamp[r] >= path
  <2>1. ASSUME stamp[r] < path, ended[r] >= page.hi PROVE FALSE
    <3>1. r \in UnreadOf({d \in Days : d < path})
      BY <1>2, <1>3, <2>1 DEF UnreadOf
    <3> QED BY <1>1, <1>5, <2>1, <3>1
  <2> QED BY <1>2, <1>4, <1>5, <2>1
<1>6. CASE PageHits = {} /\ LeaveRecovery
  BY <1>5, <1>6 DEF LeaveRecovery
<1>7. ASSUME NEW x \in PageHits, Observe(x), \A s \in PageHits \ {x} : Before(x, s),
             IF PageHits = {x} THEN LeaveRecovery ELSE page' = [page EXCEPT !.after = x] /\ UNCHANGED ex
      PROVE  /\ ex' = "recover" => Fetchable(r)'
             /\ ex' = "loop" => stamp[r] >= path
             /\ ex' \in {"recover", "loop"}
  <2>1. r # x
    BY <1>7 DEF Observe
  <2>2. CASE PageHits = {x}
    BY <1>5, <1>7, <2>1, <2>2 DEF LeaveRecovery
  <2>3. CASE PageHits # {x}
    <3>1. /\ ex' = "recover"
          /\ page'.after = x /\ page'.from = page.from /\ page'.hi = page.hi
      BY <1>7, <2>3 DEF XInv, XType
    <3>2. r \in PageHits => Before(x, r)
      BY <1>7, <2>1
    <3>3. Fetchable(r)'
      BY <1>1, <1>2, <1>4, <3>1, <3>2 DEF Fetchable, Before
    <3> QED BY <3>1, <3>3
  <2> QED BY <2>2, <2>3
<1> QED BY <1>6, <1>7 DEF RecoverPage

\* An exporter's step.
LEMMA ToComeKept ==
  ASSUME UNCHANGED <<stamp, jsonl, file>>, NEW r, NEW d, NEW o, ToCome(r, d, o)
  PROVE  ToComeNext(r, d, o)
  BY DEF ToCome, ToComeNext

LEMMA LineAcc ==
  ASSUME XInv, Saved, ReadLine, slips = 0, NEW r \in Rows, r \notin ever',
         stamp[r] > path \/ (stamp[r] = path /\ Rest(r, Content, off))
  PROVE  /\ stamp[r] > path \/ (stamp[r] = path /\ Rest(r, Content', off'))
         /\ ToCome(r, path, off')
<1>1. /\ ex = "read" /\ off' = off + 1 /\ UNCHANGED <<path, held, file>>
  BY DEF ReadLine, listener, store
<1>2. Content' = Content
  BY <1>1 DEF Content
<1>3. CASE stamp[r] > path
  BY <1>3 DEF ToCome
<1>4. CASE stamp[r] = path /\ Rest(r, Content, off)
  <2>1. PICK i \in 1..Len(Content) : i > off /\ Content[i] = r
    BY <1>4 DEF Rest
  <2>2. Content[off + 1] # r
    BY LineSeen
  <2>3. i > off + 1
    <3>1. i \in Int /\ off \in Int
      BY DEF XInv, XType
    <3>2. i # off + 1
      BY <2>1, <2>2
    <3> QED BY <2>1, <3>1, <3>2
  <2>4. Rest(r, Content, off + 1)
    BY <2>1, <2>3 DEF Rest
  <2>5. ToCome(r, path, off + 1)
    <3>1. CASE held # None
      BY <1>4, <3>1 DEF Saved, ToCome
    <3>2. CASE held = None
      <4>1. Content = file[path]
        BY <3>2 DEF Content
      <4> QED BY <1>4, <2>4, <4>1 DEF ToCome
    <3> QED BY <3>1, <3>2
  <2> QED BY <1>1, <1>2, <1>4, <2>4, <2>5
<1> QED BY <1>3, <1>4

LEMMA PersistToCome ==
  ASSUME NEW r, ckpt # None => ToComeNext(r, ckpt.day, ckpt.off), NEW d, NEW o, ToComeNext(r, d, o),
         PersistAt(d, o)
  PROVE  ckpt' # None => ToComeNext(r, ckpt'.day, ckpt'.off)
<1>1. CASE ckpt' = ckpt
  BY <1>1
<1>2. CASE ckpt' = [day |-> d, off |-> o]
  <2>1. ckpt'.day = d /\ ckpt'.off = o
    BY <1>2
  <2> QED BY <2>1
<1> QED BY <1>1, <1>2 DEF PersistAt

LEMMA AccStep ==
  ASSUME XInv, XType', Saved, Acc, [Next]_vars
  PROVE  Acc'
<1> USE DEF tail, dup, seenBy, given
<1>1. CASE ListenerStep
  <2>1. Where'
    BY XTypeStep, WhereStep DEF XInv
  <2> QED BY <1>1, <2>1, ListenerAcc
<1>2. CASE ExporterStep \/ Kill \/ Terminate \/ UNCHANGED vars
  <2>0. /\ UNCHANGED <<now, status, ended, stamp, jsonl, file, slips>>
        /\ SInv /\ XType /\ Where /\ Day(now) \in Days /\ Day(now) \in Int
        /\ \A d \in Days : d \in Int /\ d # None
    BY <1>2, ListenerUnchanged, NowDay, DaysAreInts, NotNone DEF XInv, SInv
  <2>1. ever \subseteq ever' /\ told \subseteq told' /\ missed \subseteq missed'
    <3>1. CASE ExporterStep
      BY <3>1 DEF ExporterStep, StartFresh, StartResume, StartRecovery, RecoverPage, RecoverGiveUp, LoopGone,
         LoopOpen, ReadLine, ReadEndMore, ReadEndNone, ReadError, SwitchTo, Observe
    <3>2. CASE Kill \/ Terminate \/ UNCHANGED vars
      BY <3>2 DEF Kill, Terminate, EndLife, vars, exVars
    <3> QED BY <1>2, <3>1, <3>2
  <2> SUFFICES ASSUME slips = 0, NEW r \in Unread', r \notin told' \cup missed'
               PROVE  /\ ckpt' # None => ToComeNext(r, ckpt'.day, ckpt'.off)
                      /\ ex' = "loop" => ToComeNext(r, path', off')
                      /\ ex' = "read" => stamp'[r] > path' \/ (stamp'[r] = path' /\ Rest(r, Content', off'))
                      /\ ex' = "recover" => Fetchable(r)'
    BY <2>0, AccNext
  <2>2. /\ r \in Rows /\ status[r] = "written" /\ r \notin ever' /\ r \notin ever
        /\ r \in Unread \ (told \cup missed) /\ stamp[r] \in Int /\ stamp[r] \in Days /\ stamp[r] <= Day(now)
    <3>1. r \in Rows /\ status[r] = "written" /\ r \notin ever' /\ r \notin ever
      BY <2>0, <2>1 DEF Unread
    <3>2. r \in Unread \ (told \cup missed)
      BY <2>1, <3>1 DEF Unread
    <3> QED BY <3>1, <3>2, WrittenRow
  <2>3. /\ ckpt # None => ToCome(r, ckpt.day, ckpt.off)
        /\ ex = "loop" => ToCome(r, path, off)
        /\ ex = "read" => stamp[r] > path \/ (stamp[r] = path /\ Rest(r, Content, off))
        /\ ex = "recover" => Fetchable(r)
    BY <2>2 DEF Acc
  <2>4. ckpt # None => ToComeNext(r, ckpt.day, ckpt.off)
    BY <2>0, <2>3, ToComeKept
  <2>5. ASSUME NEW d \in Days, stamp[r] >= d PROVE ToComeNext(r, d, 0)
    BY <2>0, <2>2, <2>5, FromStart, ToComeKept
  \* A row that is not listed is none of those that are.
  <2>6. ASSUME NEW S, \/ told' = told \cup UnreadOf(S)
                      \/ missed' = missed \cup UnreadOf(S)
        PROVE  stamp[r] \notin S
    BY <2>2, <2>6 DEF UnreadOf
  <2>7. ASSUME ex = "loop" \/ ex = "read" PROVE ToComeNext(r, path, off) /\ path \in Days
    <3>1. path \in Days
      BY <2>0, <2>7 DEF XType
    <3>2. ToCome(r, path, off)
      <4>1. CASE ex = "loop"
        BY <2>3, <4>1
      <4>2. CASE ex = "read" /\ held # None
        BY <2>3, <4>2 DEF Saved, ToCome
      <4>3. CASE ex = "read" /\ held = None
        BY <2>3, <4>3 DEF Content, ToCome
      <4> QED BY <2>7, <4>1, <4>2, <4>3
    <3> QED BY <2>0, <3>1, <3>2, ToComeKept
  <2>8. ASSUME ex = "read", off >= Len(Content) PROVE stamp[r] > path
    <3>1. Len(Content) \in Nat /\ off \in Int
      <4>1. off \in Int
        BY <2>0 DEF XType
      <4> QED BY <2>8, <4>1, ContentOK DEF XInv
    <3>2. ~Rest(r, Content, off)
      BY <2>8, <3>1 DEF Rest
    <3> QED BY <2>3, <2>8, <3>2
  <2>9. CASE StartFresh
    <3>1. stamp[r] \notin {d \in Days : d < Day(now)}
      BY <2>6, <2>9 DEF StartFresh
    <3>2. ToComeNext(r, Day(now), 0)
      BY <2>0, <2>2, <2>5, <3>1
    <3> QED BY <2>4, <2>9, <3>2 DEF StartFresh
  <2>10. CASE StartResume
    BY <2>4, <2>10 DEF StartResume
  <2>11. CASE StartRecovery
    <3>1. /\ ckpt \in [day : Days, off : 0..NRows] /\ ckpt.day \notin jsonl /\ ckpt' = ckpt /\ ex' = "recover"
          /\ page' = [from |-> ckpt.day - 1, hi |-> now - Lag, after |-> None]
      BY <2>0, <2>11 DEF StartRecovery, RecoveryFrom, XType
    <3>2. stamp[r] >= ckpt.day /\ ckpt.day \in Int
      BY <2>0, <2>2, <2>3, <2>11, <3>1 DEF StartRecovery, ToCome
    <3>3. stamp[r] > ckpt.day - 1
      BY <2>2, <3>2
    <3>4. page'.from = ckpt.day - 1 /\ page'.after = None
      BY <3>1
    <3>5. Fetchable(r)'
      BY <2>0, <3>3, <3>4 DEF Fetchable
    <3> QED BY <2>4, <3>1, <3>5
  <2>12. CASE RecoverPage
    <3>1. ex = "recover" /\ UNCHANGED <<path, off, ckpt>> /\ off = 0 /\ path \in Days
      BY <2>0, <2>12 DEF RecoverPage, Where, XType
    <3>2. /\ ex' = "recover" => Fetchable(r)'
          /\ ex' = "loop" => stamp[r] >= path
          /\ ex' \in {"recover", "loop"}
      BY <2>2, <2>3, <2>12, <3>1, PageAcc
    <3> QED BY <2>4, <2>5, <3>1, <3>2
  <2>13. CASE RecoverGiveUp
    <3>1. /\ ex = "recover" /\ ex' = "loop" /\ UNCHANGED <<path, off, ckpt>> /\ off = 0 /\ path \in Days
      BY <2>0, <2>13 DEF RecoverGiveUp, LeaveRecovery, Where, XType
    <3>2. stamp[r] \notin {d \in Days : d < path}
      BY <2>6, <2>13 DEF RecoverGiveUp
    <3>3. stamp[r] >= path
      BY <2>0, <2>2, <3>1, <3>2
    <3> QED BY <2>4, <2>5, <3>1, <3>3
  <2>14. CASE LoopGone
    <3>1. /\ ex = "loop" /\ ex' = "loop" /\ path' = Day(now) /\ off' = 0 /\ PersistAt(Day(now), 0)
          /\ path \in Days /\ path \in Int
      BY <2>0, <2>14 DEF LoopGone, SwitchTo, XType
    <3>2. stamp[r] \notin path .. (Day(now) - 1)
      BY <2>6, <2>14 DEF LoopGone
    <3>3. stamp[r] >= path
      BY <2>2, <2>3, <3>1 DEF ToCome
    <3>4. stamp[r] >= Day(now)
      BY <2>0, <2>2, <3>1, <3>2, <3>3
    <3>5. ToComeNext(r, Day(now), 0)
      BY <2>0, <2>5, <3>4
    <3>6. ckpt' # None => ToComeNext(r, ckpt'.day, ckpt'.off)
      BY <2>4, <3>1, <3>5, PersistToCome
    <3> QED BY <3>1, <3>5, <3>6
  <2>15. CASE LoopOpen
    <3>1. /\ ex = "loop" /\ ex' = "read" /\ path \in jsonl /\ UNCHANGED <<path, off, held, ckpt>> /\ held = None
      BY <2>0, <2>15 DEF LoopOpen, Where
    <3>2. Content' = file[path]
      BY <2>0, <3>1 DEF Content
    <3> QED BY <2>0, <2>3, <2>4, <3>1, <3>2 DEF ToCome
  <2>16. CASE ReadLine
    <3>1. /\ ex = "read" /\ ex' = "read" /\ path' = path /\ off' = off + 1
          /\ ckpt' = ckpt \/ PersistAt(path, off + 1)
      BY <2>16 DEF ReadLine
    <3>2. /\ stamp[r] > path \/ (stamp[r] = path /\ Rest(r, Content', off'))
          /\ ToCome(r, path, off')
      BY <2>2, <2>3, <2>16, <3>1, LineAcc
    <3>3. ToComeNext(r, path, off + 1)
      BY <2>0, <3>1, <3>2, ToComeKept
    <3>4. ckpt' # None => ToComeNext(r, ckpt'.day, ckpt'.off)
      BY <2>4, <3>1, <3>3, PersistToCome
    <3> QED BY <2>0, <3>1, <3>2, <3>4
  <2>17. CASE ReadEndMore
    <3>1. /\ ex = "read" /\ ex' = "loop" /\ PersistAt(path, off) /\ UNCHANGED <<path, off>>
      BY <2>17 DEF ReadEndMore, LeaveFile
    <3>2. ckpt' # None => ToComeNext(r, ckpt'.day, ckpt'.off)
      BY <2>4, <2>7, <3>1, PersistToCome
    <3> QED BY <2>7, <3>1, <3>2
  <2>18. CASE ReadEndNone
    <3>1. ex = "read" /\ ex' = "loop" /\ off >= Len(Content) /\ top \in Days /\ path \in Days
      BY <2>0, <2>18 DEF ReadEndNone, LeaveFile, XType
    <3>2. CASE path = top
      BY <2>4, <2>7, <2>18, <3>1, <3>2 DEF ReadEndNone
    <3>3. CASE path # top
      <4>1. /\ path' = top /\ off' = 0 /\ PersistAt(top, 0)
            /\ told' = told \cup UnreadOf((path + 1) .. (top - 1))
        BY <2>18, <3>3 DEF ReadEndNone, SwitchTo
      <4>2. stamp[r] \notin (path + 1) .. (top - 1)
        BY <2>6, <4>1
      <4>3. stamp[r] > path
        BY <2>8, <3>1
      <4>4. stamp[r] >= top
        BY <2>0, <2>2, <3>1, <4>2, <4>3
      <4>5. ToComeNext(r, top, 0)
        BY <2>5, <3>1, <4>4
      <4>6. ckpt' # None => ToComeNext(r, ckpt'.day, ckpt'.off)
        BY <2>4, <4>1, <4>5, PersistToCome
      <4> QED BY <3>1, <4>1, <4>5, <4>6
    <3> QED BY <3>2, <3>3
  <2>19. CASE ReadError
    <3>1. /\ ex = "read" /\ ex' = "loop" /\ UNCHANGED <<path, off>>
          /\ ckpt' = ckpt \/ ckpt' = [day |-> path, off |-> off]
      BY <2>19 DEF ReadError, LeaveFile
    <3>2. ckpt' # None => ToComeNext(r, ckpt'.day, ckpt'.off)
      BY <2>4, <2>7, <3>1
    <3> QED BY <2>7, <3>1, <3>2
  <2>20. CASE Kill
    BY <2>4, <2>20 DEF Kill, EndLife
  <2>21. CASE Terminate
    <3>1. ex \in {"loop", "recover"} /\ ex' = "down" /\ PersistAt(path, off) /\ path \in Days
      BY <2>0, <2>21 DEF Terminate, EndLife, XType
    <3>2. ToComeNext(r, path, off)
      <4>1. CASE ex = "loop"
        BY <2>7, <4>1
      <4>2. CASE ex = "recover"
        <5>1. stamp[r] \notin {d \in Days : d < path}
          BY <2>6, <2>21, <4>2 DEF Terminate
        <5>2. stamp[r] >= path /\ off = 0
          BY <2>0, <2>2, <3>1, <4>2, <5>1 DEF Where
        <5> QED BY <2>5, <3>1, <5>2
      <4> QED BY <3>1, <4>1, <4>2
    <3>3. ckpt' # None => ToComeNext(r, ckpt'.day, ckpt'.off)
      BY <2>4, <3>1, <3>2, PersistToCome
    <3> QED BY <3>1, <3>3
  <2>22. CASE UNCHANGED vars
    <3>1. UNCHANGED <<ex, path, off, held, page, ckpt>>
      BY <2>22 DEF vars, exVars
    <3>2. Content' = Content
      BY <2>0, <3>1 DEF Content
    <3>3. ex = "recover" => Fetchable(r)'
      BY <2>0, <2>3, <3>1 DEF Fetchable, Before
    <3> QED BY <2>0, <2>3, <2>4, <2>7, <3>1, <3>2, <3>3
  <2> QED BY <1>2, <2>9, <2>10, <2>11, <2>12, <2>13, <2>14, <2>15, <2>16, <2>17, <2>18, <2>19, <2>20, <2>21, <2>22
          DEF ExporterStep
<1> QED BY <1>1, <1>2 DEF Next

\* A row to come is ahead in the sense of Accounted.
LEMMA AheadOf ==
  ASSUME XInv, slips = 0, NEW r \in Rows, status[r] = "written", path \in Days, ToCome(r, path, off)
  PROVE  \/ Ahead(r, path, off)
         \/ stamp[r] = path /\ path # Day(now) /\ path \notin jsonl
<1>1. CASE stamp[r] > path
  BY <1>1 DEF Ahead
<1>2. CASE stamp[r] = path /\ path \notin jsonl
  <2>1. path # Day(now)
    BY <1>2, TodayInFile DEF XInv
  <2> QED BY <1>2, <2>1
<1>3. CASE stamp[r] = path /\ path \in jsonl /\ Rest(r, file[path], off)
  <2>1. PICK i \in 1..Len(file[path]) : i > off /\ file[path][i] = r
    BY <1>3 DEF Rest
  <2>2. Position(r) \in 1..Len(file[path]) /\ file[path][Position(r)] = r
    BY <1>3, <2>1 DEF Position
  <2>3. Position(r) = i
    BY <2>1, <2>2 DEF XInv, SInv, OnceIn, Distinct
  <2> QED BY <1>3, <2>1, <2>3 DEF Ahead
<1> QED BY <1>1, <1>2, <1>3 DEF ToCome

LEMMA AllAccounted == XInv /\ Saved /\ Acc => OnlyKnownLosses
<1> SUFFICES ASSUME XInv, Saved, Acc, ex \in {"loop", "read"}, slips = 0, NEW r \in Unread \ (told \cup missed)
             PROVE  \/ Ahead(r, path, off)
                    \/ held # None /\ \E i \in (off + 1)..Len(held) : held[i] = r
                    \/ stamp[r] = path /\ path # Day(now) /\ path \notin jsonl
  BY DEF OnlyKnownLosses, Accounted
<1>1. r \in Rows /\ status[r] = "written" /\ path \in Days /\ off \in Int
  BY DEF Unread, XInv, XType
<1>2. CASE ex = "loop"
  BY <1>1, <1>2, AheadOf DEF Acc
<1>3. CASE ex = "read" /\ stamp[r] > path
  BY <1>3 DEF Ahead
<1>4. CASE ex = "read" /\ stamp[r] = path /\ Rest(r, Content, off) /\ held = None
  <2>1. ToCome(r, path, off)
    BY <1>4 DEF Content, ToCome
  <2> QED BY <1>1, <2>1, AheadOf
<1>5. CASE ex = "read" /\ stamp[r] = path /\ Rest(r, Content, off) /\ held # None
  <2>1. PICK i \in 1..Len(held) : i > off /\ held[i] = r
    BY <1>5 DEF Rest, Content
  <2>2. held \in Seq(Rows)
    BY <1>5 DEF XInv, XType
  <2>3. i \in (off + 1)..Len(held)
    BY <1>1, <2>1, <2>2
  <2> QED BY <1>5, <2>1, <2>3
<1> QED BY <1>2, <1>3, <1>4, <1>5 DEF Acc

\* Which rows a tailer passes over: the ones recorded in told, where the log
\* says so or the tailer was a day behind, and in missed, those a recovery does
\* not reach.  No crash, day change, rotation or end of a page adds another,
\* for any number of rows, days, failures and lives.
THEOREM NothingElseLost == Spec => []OnlyKnownLosses
<1>1. Init => Acc
  BY DEF Init, StoreInit, Acc, Unread
<1>2. XInv /\ XType' /\ Saved /\ Acc /\ [Next]_vars => Acc'
  BY AccStep
<1>3. XInv => XType
  BY DEF XInv
<1> QED BY <1>1, <1>2, <1>3, SavedInvariant, AllAccounted, PTL DEF Spec
=============================================================================
