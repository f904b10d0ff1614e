-------------------------- MODULE DayArchiveProofs --------------------------
(***************************************************************************)
(* Proofs about DayArchive: type correctness, that no written line is lost *)
(* while nobody carries a read of the clock over midnight, and that no     *)
(* past day is left unpacked.                                              *)
(***************************************************************************)
EXTENDS DayArchive, TLAPS

\* Days are numbered in the order of the hours.
LEMMA DayFacts ==
  ASSUME NEW t \in Hours
  PROVE  Day(t) \in Days /\ Day(t) \in Nat
  BY ArchiveAssumption DEF Days, Day, Hours

LEMMA DayOrder ==
  ASSUME NEW t \in Hours, t + 1 \in Hours
  PROVE  Day(t) <= Day(t + 1)
  BY ArchiveAssumption DEF Day, Hours

LEMMA DaysNat == Days \subseteq Nat
  BY DayFacts DEF Days

\* The hour a pending line was stamped with.
Stamped == \A e \in Entries : status[e] = "pending" => stamp[e] \in Hours
-----------------------------------------------------------------------------
(***************************************************************************)
(* Type correctness.                                                       *)
(***************************************************************************)
\* A pass works on a day directory from the moment it starts to pack it.
Working == {"walk", "header", "copy", "rename", "remove"}
SrcKnown == hk \in Working => src \in Days

TInv == TypeOK /\ Stamped /\ SrcKnown

LEMMA TInit == Init => TInv
<1> SUFFICES ASSUME Init PROVE TInv
  OBVIOUS
<1>1. 0 \in Hours
  BY ArchiveAssumption DEF Hours
<1>2. wOpen \in BOOLEAN
  BY Zenon DEF Init
<1>3. /\ status \in [Entries -> {"new", "pending", "written", "dropped"}]
      /\ stamp \in [Entries -> Hours \cup {None}]
      /\ lines \in [Hours -> SUBSET Entries]
      /\ tarLines \in [Days -> SUBSET Entries]
      /\ Stamped
  BY DEF Init, Stamped
<1> QED BY <1>1, <1>2, <1>3, ArchiveAssumption DEF Init, TInv, TypeOK, SrcKnown, Working, HkStates

LEMMA TWriter ==
  ASSUME TInv, NEW e \in Entries, ReadClock(e) \/ Write(e) \/ AppendError(e) \/ WriteError(e)
  PROVE  TInv'
<1> USE ArchiveAssumption
<1>1. CASE ReadClock(e)
  BY <1>1 DEF ReadClock, TInv, TypeOK, Stamped, SrcKnown, store, archive, pass, history
<1>2. CASE Write(e) \/ AppendError(e)
  <2>1. stamp[e] \in Hours /\ Day(stamp[e]) \in Days
    BY <1>2, DayFacts DEF Write, AppendError, TInv, Stamped
  <2>2. /\ files' \in SUBSET {t \in Hours : Day(t) \in dirs'}
        /\ dirs' \in SUBSET Days /\ wHour' \in Hours \cup {None}
        /\ queued' \in Nat
    BY <1>2, <2>1, SMT DEF Write, AppendError, OpenHour, HourChanged, DayChanged, TInv, TypeOK
  <2>5. wOpen' \in BOOLEAN
    BY <1>2, Zenon DEF Write, AppendError, OpenHour, TInv, TypeOK
  <2>3. lines' \in [Hours -> SUBSET Entries]
    BY <1>2, <2>1 DEF Write, AppendError, AppendLine, TInv, TypeOK
  <2>4. status' \in [Entries -> {"new", "pending", "written", "dropped"}] /\ Stamped'
    BY <1>2 DEF Write, AppendError, TInv, TypeOK, Stamped
  <2>6. fails' \in 0..MaxFails
    BY <1>2 DEF Write, AppendError, TInv, TypeOK, history
  <2> QED BY <1>2, <2>2, <2>3, <2>4, <2>5, <2>6 DEF Write, AppendError, TInv, TypeOK, SrcKnown, archive, pass, history
<1>3. CASE WriteError(e)
  <2>1. stamp[e] \in Hours /\ Day(stamp[e]) \in Days
    BY <1>3, DayFacts DEF WriteError, TInv, Stamped
  <2>2. /\ dirs' \in SUBSET Days /\ dirs \subseteq dirs'
        /\ fails' \in 0..MaxFails
    BY <1>3, <2>1, SMT DEF WriteError, HourChanged, TInv, TypeOK
  <2>4. wOpen' \in BOOLEAN
    BY <1>3, Zenon DEF WriteError, TInv, TypeOK
  <2>3. status' \in [Entries -> {"new", "pending", "written", "dropped"}] /\ Stamped'
    BY <1>3 DEF WriteError, TInv, TypeOK, Stamped
  <2> QED BY <1>3, <2>2, <2>3, <2>4 DEF WriteError, TInv, TypeOK, SrcKnown, archive, pass
<1> QED BY <1>1, <1>2, <1>3

LEMMA THousekeep ==
  ASSUME TInv, Housekeep
  PROVE  TInv'
<1> USE ArchiveAssumption DEF TInv, TypeOK, Stamped, SrcKnown, HkStates, Working,
        writer, store, archive, history
<1>1. CASE HkLock
  <2>1. Day(now) \in Days
    BY DayFacts
  <2> QED BY <1>1, <2>1 DEF HkLock
<1>2. CASE HkReadDir
  BY <1>2 DEF HkReadDir, DirEntry, TempEntry
<1>3. CASE HkVisit
  BY <1>3 DEF HkVisit, IsNext
<1>14. CASE HkReadDirFail
  BY <1>14 DEF HkReadDirFail
<1>4. CASE HkWalk
  BY <1>4 DEF HkWalk, FilesOf
<1>5. CASE HkHeader
  BY <1>5 DEF HkHeader
<1>6. CASE HkCopy
  BY <1>6 DEF HkCopy
<1>7. CASE HkVerify
  BY <1>7 DEF HkVerify
<1>8. CASE HkRename
  BY <1>8 DEF HkRename
<1>9. CASE HkFail
  BY <1>9 DEF HkFail
<1>10. CASE HkRemoveFile
  BY <1>10 DEF HkRemoveFile, pass
<1>11. CASE HkRemoveDir
  BY <1>11 DEF HkRemoveDir, FilesOf
<1>12. CASE HkRemoveFail
  BY <1>12 DEF HkRemoveFail
<1>13. CASE HkEnd
  BY <1>13 DEF HkEnd
<1> QED BY <1>1, <1>2, <1>3, <1>4, <1>5, <1>6, <1>7, <1>8, <1>9, <1>10, <1>11,
           <1>12, <1>13, <1>14 DEF Housekeep

LEMMA TStep == TInv /\ [Next]_vars => TInv'
<1> SUFFICES ASSUME TInv, [Next]_vars
             PROVE  TInv'
  OBVIOUS
<1> USE ArchiveAssumption
<1>1. CASE Tick
  BY <1>1 DEF Tick, TInv, TypeOK, Hours, Stamped, SrcKnown, writer, store, archive, pass
<1>2. CASE \E d \in Days : Prune(d)
  BY <1>2 DEF Prune, TInv, TypeOK, Stamped, SrcKnown, writer, store, pass
<1>3. CASE Crash
  <2>1. temps' \in SUBSET Days
    BY <1>3 DEF Crash, TInv, TypeOK, SrcKnown, Working
  <2>2. wOpen' \in BOOLEAN
    BY <1>3, Zenon DEF Crash
  <2>3. status' \in [Entries -> {"new", "pending", "written", "dropped"}] /\ Stamped'
    BY <1>3 DEF Crash, TInv, TypeOK, Stamped
  <2> QED BY <1>3, <2>1, <2>2, <2>3 DEF Crash, TInv, TypeOK, SrcKnown, Working, HkStates, store
<1>4. CASE UNCHANGED vars
  BY <1>4 DEF vars, TInv, TypeOK, Stamped, SrcKnown, writer, store, archive, pass, history
<1> QED BY <1>1, <1>2, <1>3, <1>4, TWriter, THousekeep DEF Next

\* TypeOK is invariant: in particular an hour file never exists without its
\* day directory, through any interleaving of writers and RemoveAll.
THEOREM ArchiveTypeCorrect == Spec => []TypeOK
<1>1. TInv => TypeOK
  BY DEF TInv
<1> QED BY <1>1, TInit, TStep, PTL DEF Spec
-----------------------------------------------------------------------------
(***************************************************************************)
(* No line is lost.  The induction needs that nobody holds a clock reading *)
(* of another day (Clock), that a pass only visits days before its today   *)
(* (Visited), that the temporary archive holds what was read so far        *)
(* (Packed), that an archive covers what is left of its directory          *)
(* (Covered), and that the open file still has its name (Linked).          *)
(***************************************************************************)
Clock ==
  /\ \A e \in Entries : status[e] = "pending" => Day(stamp[e]) = Day(now)
  /\ wHour # None => Day(wHour) <= Day(now)
  /\ \A d \in dirs : d <= Day(now)
  /\ hk = "list" => today = Day(now)
  /\ hk # "idle" => today \in Days /\ today <= Day(now)

Visited ==
  /\ hk \in {"idle", "list"} => todo = {}
  /\ \A d \in Days : DirEntry(d) \in todo => d <= today
  /\ hk \in Working => src < today

Linked ==
  wOpen => wHour # None /\ (Day(wHour) = Day(now) => wHour \in files)

Nameless == \A t \in Hours : t \notin files => lines[t] = {}

\* What the archive of a day, or retention, has of it.
Archived(d) == (IF d \in tars THEN tarLines[d] ELSE {}) \cup pruned

Packed ==
  /\ hk \in Working \ {"remove"} => src \notin tars
  /\ hk \in {"header", "copy", "rename"} =>
       /\ \A t \in names : Day(t) = src
       /\ \A t \in packed : Day(t) = src /\ lines[t] \subseteq content
  /\ hk = "rename" => \A t \in Hours : Day(t) = src => lines[t] \subseteq content
  /\ hk = "remove" => \A t \in Hours : Day(t) = src => lines[t] \subseteq Archived(src)

Covered ==
  \A d \in tars :
    /\ d < Day(now)
    /\ \A t \in Hours : Day(t) = d => lines[t] \subseteq tarLines[d]

Safe == Clock /\ Visited /\ Linked /\ Nameless /\ Packed /\ Covered /\ LinesKept

KInv == TInv /\ (slips = 0 => Safe)

LEMMA KInit == Init => KInv
<1> SUFFICES ASSUME Init PROVE KInv
  OBVIOUS
<1> USE DEF Init
<1>1. Clock /\ Visited /\ Nameless /\ LinesKept
  BY DEF Clock, Visited, Nameless, LinesKept, Working
<1>2. Linked
  BY Zenon DEF Linked
<1>3. Packed /\ Covered
  BY DEF Packed, Covered, Working
<1> QED BY <1>1, <1>2, <1>3, TInit DEF KInv, Safe

\* A pass works on a day that is over.
LEMMA SrcBefore ==
  ASSUME TInv, Safe, hk \in Working
  PROVE  src < Day(now) /\ src \in Nat /\ src \in Days
<1>1. Day(now) \in Nat
  BY DayFacts DEF TInv, TypeOK
<1>2. src \in Days /\ src \in Nat
  BY DaysNat DEF TInv, SrcKnown
<1>3. today \in Nat /\ today <= Day(now)
  BY DaysNat DEF Safe, Clock, Working
<1>4. src < today
  BY DEF Safe, Visited
<1> QED BY <1>1, <1>2, <1>3, <1>4

LEMMA KReadClock ==
  ASSUME TInv, Safe, NEW e \in Entries, ReadClock(e)
  PROVE  Safe'
<1> USE DEF ReadClock, TInv, TypeOK, store, archive, pass, history
<1>1. now \in Hours /\ Day(now) \in Nat
  BY DayFacts
<1>2. Clock'
  BY <1>1 DEF Safe, Clock
<1>3. Visited' /\ Nameless'
  BY DEF Safe, Visited, Nameless
<1>4. Linked'
  BY Zenon DEF Safe, Linked
<1>5. Packed' /\ Covered'
  BY DEF Safe, Packed, Covered, Archived
<1>6. LinesKept'
  BY DEF Safe, LinesKept, OnDisk
<1> QED BY <1>2, <1>3, <1>4, <1>5, <1>6 DEF Safe

\* A write goes to a file of the current day that has its name: it touches
\* neither the day a pass works on nor a day that has an archive.
LEMMA KWrite ==
  ASSUME TInv, Safe, NEW e \in Entries, Write(e) \/ AppendError(e)
  PROVE  Safe'
<1> DEFINE t == stamp[e]
<1>1. /\ t \in Hours /\ Day(t) \in Days /\ Day(t) \in Nat
      /\ Day(t) = Day(now) /\ status[e] = "pending"
  BY DayFacts DEF Write, AppendError, TInv, Stamped, Safe, Clock
<1>2. files \subseteq files' /\ t \in files'
  <2>1. CASE HourChanged(t)
    BY <2>1 DEF Write, AppendError, OpenHour
  <2>2. CASE ~HourChanged(t)
    <3>1. wOpen /\ wHour = t /\ files' = files
      BY <2>2, Zenon DEF Write, AppendError, OpenHour, HourChanged
    <3> QED BY <1>1, <3>1, Zenon DEF Safe, Linked
  <2> QED BY <2>1, <2>2
<1>3. /\ \A u \in Hours : lines[u] \subseteq lines'[u]
      /\ \A u \in Hours : Day(u) # Day(now) => lines'[u] = lines[u]
      /\ \A u \in Hours : u \notin files' => lines'[u] = lines[u]
      /\ Write(e) => e \in lines'[t]
  BY <1>1, <1>2 DEF Write, AppendError, AppendLine, TInv, TypeOK
<1>4. Clock'
  <2>1. wHour' \in {wHour, t} /\ dirs' \subseteq dirs \cup {Day(t)}
    BY Zenon DEF Write, AppendError, OpenHour
  <2> QED BY <1>1, <2>1 DEF Write, AppendError, Safe, Clock, TInv, TypeOK, pass
<1>5. Visited' /\ Nameless'
  BY <1>1, <1>2, <1>3 DEF Write, AppendError, Safe, Visited, Nameless, TInv, TypeOK, pass
<1>6. Linked'
  <2>1. wHour' = t
    BY DEF Write, AppendError, OpenHour, HourChanged
  <2>2. t # None
    BY <1>1, ArchiveAssumption DEF Hours
  <2> QED BY <1>2, <2>1, <2>2, Zenon DEF Linked
<1>7. hk \in Working => src < Day(now) /\ src \in Nat
  BY SrcBefore DEF TInv, TypeOK
<1>11. UNCHANGED <<now, archive, pass, pruned>>
  BY DEF Write, AppendError, history
<1>8. Packed'
  <2>1. \A u \in Hours : hk \in Working /\ Day(u) = src => lines'[u] = lines[u]
    BY <1>1, <1>3, <1>7
  <2>2. packed \in SUBSET Hours
    BY DEF TInv, TypeOK
  <2> QED BY <1>11, <2>1, <2>2 DEF Safe, Packed, Archived, Working, archive, pass
<1>9. Covered'
  <2>1. \A d \in tars : d \in Nat /\ d < Day(now)
    BY DaysNat DEF Safe, Covered, TInv, TypeOK
  <2>2. \A d \in tars, u \in Hours : Day(u) = d => lines'[u] = lines[u]
    BY <1>1, <1>3, <2>1
  <2> QED BY <1>11, <2>2 DEF Safe, Covered, archive
<1>10. LinesKept'
  <2> SUFFICES ASSUME NEW x \in Entries, status'[x] = "written"
               PROVE  OnDisk(x)' \/ x \in pruned'
    BY DEF LinesKept
  <2>1. CASE x = e
    <3>1. Write(e)
      BY <2>1 DEF AppendError, TInv, TypeOK
    <3> QED BY <1>1, <1>2, <1>3, <2>1, <3>1 DEF OnDisk
  <2>2. CASE x # e
    <3>1. status[x] = "written" /\ (OnDisk(x) \/ x \in pruned)
      BY <2>2 DEF Write, AppendError, Safe, LinesKept, TInv, TypeOK
    <3> QED BY <1>2, <1>3, <1>11, <3>1 DEF OnDisk, TInv, TypeOK, archive
  <2> QED BY <2>1, <2>2
<1> QED BY <1>4, <1>5, <1>6, <1>8, <1>9, <1>10 DEF Safe

LEMMA KWriteError ==
  ASSUME TInv, Safe, NEW e \in Entries, WriteError(e)
  PROVE  Safe'
<1> USE DEF WriteError, TInv, TypeOK, archive, pass
<1>1. /\ stamp[e] \in Hours /\ Day(stamp[e]) \in Nat
      /\ Day(stamp[e]) = Day(now) /\ status[e] = "pending"
  BY DayFacts DEF Stamped, Safe, Clock
<1>2. dirs' \subseteq dirs \cup {Day(stamp[e])}
  BY Zenon
<1>3. wOpen' => wOpen
  BY Zenon
<1>4. Clock'
  BY <1>1, <1>2 DEF Safe, Clock
<1>5. Visited' /\ Nameless'
  BY DEF Safe, Visited, Nameless
<1>6. Linked'
  BY <1>3, Zenon DEF Safe, Linked
<1>7. Packed' /\ Covered'
  BY DEF Safe, Packed, Covered, Archived
<1>8. LinesKept'
  BY DEF Safe, LinesKept, OnDisk
<1> QED BY <1>4, <1>5, <1>6, <1>7, <1>8 DEF Safe

LEMMA KTick ==
  ASSUME TInv, Safe, Tick, slips = 0, slips' = 0
  PROVE  Safe'
<1> USE DEF Tick, TInv, TypeOK, writer, store, archive, pass
<1>1. /\ Day(now) \in Nat /\ Day(now') \in Nat /\ Day(now) <= Day(now')
      /\ Holding => Day(now') = Day(now)
  <2>1. now \in Hours /\ now + 1 \in Hours /\ now' = now + 1
    BY ArchiveAssumption DEF Hours
  <2>2. Holding => Day(now + 1) = Day(now)
    <3> SUFFICES ASSUME Holding, Day(now + 1) # Day(now) PROVE FALSE
      OBVIOUS
    <3>1. slips' = slips + 1
      BY Zenon
    <3> QED BY <3>1
  <2> QED BY <2>1, <2>2, DayFacts, DayOrder
<1>2. Clock'
  <2>1. \A e \in Entries : status'[e] = "pending" => Day(stamp'[e]) = Day(now')
    BY <1>1 DEF Safe, Clock, Holding
  <2>2. wHour' # None => Day(wHour') <= Day(now')
    BY <1>1, DayFacts DEF Safe, Clock
  <2>3. \A d \in dirs' : d <= Day(now')
    <3> SUFFICES ASSUME NEW d \in dirs PROVE d <= Day(now')
      OBVIOUS
    <3>1. d \in Nat /\ d <= Day(now)
      BY DaysNat DEF Safe, Clock
    <3> QED BY <1>1, <3>1
  <2>4. hk' = "list" => today' = Day(now')
    BY <1>1 DEF Safe, Clock, Holding
  <2>5. ASSUME hk' # "idle" PROVE today' \in Days /\ today' <= Day(now')
    <3>1. today \in Days /\ today \in Nat /\ today <= Day(now)
      BY <2>5, DaysNat DEF Safe, Clock
    <3> QED BY <1>1, <3>1
  <2> QED BY <2>1, <2>2, <2>3, <2>4, <2>5 DEF Clock
<1>3. Visited' /\ Nameless' /\ Packed' /\ LinesKept'
  BY DEF Safe, Visited, Nameless, Packed, Archived, LinesKept, OnDisk
<1>4. Linked'
  <2>1. wHour # None /\ Day(wHour) = Day(now') => Day(wHour) = Day(now)
    BY <1>1, DayFacts DEF Safe, Clock
  <2> QED BY <2>1, Zenon DEF Safe, Linked
<1>5. Covered'
  BY <1>1, DaysNat DEF Safe, Covered
<1> QED BY <1>2, <1>3, <1>4, <1>5 DEF Safe

LEMMA KPrune ==
  ASSUME TInv, Safe, NEW d \in Days, Prune(d)
  PROVE  Safe'
<1> USE DEF Prune, TInv, TypeOK, writer, store, pass
<1>1. Clock' /\ Visited' /\ Nameless'
  BY DEF Safe, Clock, Visited, Nameless
<1>2. Linked'
  BY Zenon DEF Safe, Linked
<1>3. \A c \in Days : Archived(c) \subseteq Archived(c)'
  BY DEF Archived
<1>4. Packed'
  BY <1>3 DEF Safe, Packed, SrcKnown, Working
<1>5. Covered'
  BY DEF Safe, Covered
<1>6. LinesKept'
  BY DEF Safe, LinesKept, OnDisk
<1> QED BY <1>1, <1>2, <1>4, <1>5, <1>6 DEF Safe

LEMMA KCrash ==
  ASSUME TInv, Safe, Crash
  PROVE  Safe'
<1> USE DEF Crash, TInv, TypeOK, store
<1>1. Clock' /\ Visited' /\ Nameless'
  BY DEF Safe, Clock, Visited, Nameless, Working
<1>2. Linked'
  BY Zenon DEF Linked
<1>3. Packed' /\ Covered'
  BY DEF Safe, Packed, Covered, Working
<1>4. LinesKept'
  BY DEF Safe, LinesKept, OnDisk
<1> QED BY <1>1, <1>2, <1>3, <1>4 DEF Safe

\* The steps of a pass that change neither the hour files nor the archives.
LEMMA KReads ==
  ASSUME TInv, Safe,
         HkLock \/ HkReadDir \/ HkReadDirFail \/ HkVisit \/ HkWalk \/ HkHeader \/ HkCopy \/ HkVerify
           \/ HkFail \/ HkRemoveFail \/ HkEnd
  PROVE  Safe'
<1> DEFINE Unread == UNCHANGED <<now, writer, store, tars, tarLines, pruned>>
<1>1. Unread
  BY DEF HkLock, HkReadDir, HkReadDirFail, HkVisit, HkWalk, HkHeader, HkCopy, HkVerify, HkFail,
         HkRemoveFail, HkEnd, archive, history
<1>2. Linked'
  BY <1>1, Zenon DEF Safe, Linked, writer, store
<1>3. Nameless' /\ Covered' /\ LinesKept'
  BY <1>1 DEF Safe, Nameless, Covered, LinesKept, OnDisk, writer, store
<1>4. Day(now) \in Nat /\ Day(now) \in Days
  BY DayFacts DEF TInv, TypeOK
<1> USE DEF Working
<1>5. CASE HkLock
  <2>1. Clock' /\ Visited'
    BY <1>1, <1>4, <1>5 DEF HkLock, Safe, Clock, Visited, writer, store, DirEntry
  <2>2. Packed'
    BY <1>5 DEF HkLock, Packed
  <2> QED BY <1>2, <1>3, <2>1, <2>2 DEF Safe
<1>6. CASE HkReadDir
  <2>1. Clock'
    BY <1>6 DEF HkReadDir, Safe, Clock, writer, store
  <2>2. Visited'
    BY <1>6 DEF HkReadDir, Safe, Clock, Visited, DirEntry, TempEntry
  <2>3. Packed'
    BY <1>6 DEF HkReadDir, Packed
  <2> QED BY <1>2, <1>3, <2>1, <2>2, <2>3 DEF Safe
<1>7. CASE HkVisit
  <2>1. PICK f \in todo : /\ todo' = todo \ {f}
                          /\ \/ UNCHANGED <<hk, src>>
                             \/ /\ f[2] = 0 /\ f[1] # today /\ src' = f[1]
                                /\ hk' = IF f[1] \in tars THEN "remove" ELSE "walk"
    BY <1>7 DEF HkVisit, IsNext, TInv, TypeOK
  <2>2. f \in Days \X {0, 1}
    BY DEF TInv, TypeOK
  <2>3. hk = "next" /\ today' = today
    BY <1>7 DEF HkVisit
  <2>4. Clock'
    BY <1>1, <2>1, <2>3 DEF Safe, Clock, writer, store
  <2>5. CASE UNCHANGED <<hk, src>>
    BY <1>1, <1>2, <1>3, <2>1, <2>3, <2>4, <2>5 DEF Safe, Visited, Packed
  <2>6. CASE f[2] = 0 /\ f[1] # today /\ src' = f[1] /\ hk' = IF f[1] \in tars THEN "remove" ELSE "walk"
    <3>1. f = DirEntry(f[1]) /\ f[1] \in Days /\ f[1] \in Nat
      BY <2>2, <2>6, DaysNat DEF DirEntry
    <3>2. f[1] < today
      <4>1. f[1] <= today
        BY <3>1 DEF Safe, Visited
      <4>2. today \in Nat
        BY <2>3, DaysNat DEF Safe, Clock
      <4> QED BY <2>6, <3>1, <4>1, <4>2
    <3>3. Visited'
      BY <2>1, <2>3, <2>6, <3>2 DEF Safe, Visited
    <3>4. Packed'
      BY <1>1, <2>6, <3>1 DEF Safe, Packed, Covered, Archived, writer, store
    <3> QED BY <1>2, <1>3, <2>4, <3>3, <3>4 DEF Safe
  <2> QED BY <2>1, <2>5, <2>6
<1>8. CASE HkWalk
  <2>1. Clock' /\ Visited'
    BY <1>8 DEF HkWalk, Safe, Clock, Visited, writer, store
  <2>2. Packed'
    BY <1>8 DEF HkWalk, FilesOf, Safe, Packed, archive, store
  <2> QED BY <1>2, <1>3, <2>1, <2>2 DEF Safe
<1>9. CASE HkHeader
  <2>1. Clock' /\ Visited'
    BY <1>9 DEF HkHeader, Safe, Clock, Visited, writer, store
  <2>2. Packed'
    BY <1>9 DEF HkHeader, Safe, Packed, archive, store
  <2> QED BY <1>2, <1>3, <2>1, <2>2 DEF Safe
<1>10. CASE HkCopy
  <2>1. Clock' /\ Visited'
    BY <1>10 DEF HkCopy, Safe, Clock, Visited, writer, store
  <2>2. Packed'
    BY <1>10 DEF HkCopy, Safe, Packed, archive, store
  <2> QED BY <1>2, <1>3, <2>1, <2>2 DEF Safe
<1>11. CASE HkVerify
  <2>1. Clock' /\ Visited'
    BY <1>11 DEF HkVerify, Safe, Clock, Visited, writer, store
  <2>2. \A t \in Hours : Day(t) = src => lines[t] \subseteq content
    BY <1>11 DEF HkVerify, FilesOf, Safe, Packed, Nameless
  <2>3. Packed'
    BY <1>11, <2>2 DEF HkVerify, Safe, Packed, archive, store
  <2> QED BY <1>2, <1>3, <2>1, <2>3 DEF Safe
<1>12. CASE HkFail \/ HkRemoveFail
  <2>1. Clock' /\ Visited' /\ Packed'
    BY <1>12 DEF HkFail, HkRemoveFail, Safe, Clock, Visited, Packed, writer, store
  <2> QED BY <1>2, <1>3, <2>1 DEF Safe
<1>13. CASE HkEnd \/ HkReadDirFail
  <2>1. Clock' /\ Visited' /\ Packed'
    BY <1>13 DEF HkEnd, HkReadDirFail, Safe, Clock, Visited, Packed, writer, store
  <2> QED BY <1>2, <1>3, <2>1 DEF Safe
<1> QED BY <1>5, <1>6, <1>7, <1>8, <1>9, <1>10, <1>11, <1>12, <1>13

LEMMA KRename ==
  ASSUME TInv, Safe, HkRename
  PROVE  Safe'
<1> USE DEF HkRename, TInv, TypeOK, writer, store, history
<1>1. /\ src \in Days /\ src < Day(now) /\ src \notin tars
      /\ \A t \in Hours : Day(t) = src => lines[t] \subseteq content
  BY SrcBefore DEF Safe, Packed, Working
<1>2. tars' = tars \cup {src} /\ tarLines'[src] = content
      /\ \A d \in tars : tarLines'[d] = tarLines[d]
  BY <1>1
<1>3. Clock' /\ Visited' /\ Nameless'
  BY DEF Safe, Clock, Visited, Nameless, Working
<1>4. Linked'
  BY Zenon DEF Safe, Linked
<1>5. Packed'
  BY <1>1, <1>2 DEF Packed, Archived, Working
<1>6. Covered'
  BY <1>1, <1>2 DEF Safe, Covered
<1>7. LinesKept'
  BY <1>2 DEF Safe, LinesKept, OnDisk
<1> QED BY <1>3, <1>4, <1>5, <1>6, <1>7 DEF Safe

\* RemoveAll deletes only lines that the archive, or retention, has.
LEMMA KRemove ==
  ASSUME TInv, Safe, HkRemoveFile \/ HkRemoveDir
  PROVE  Safe'
<1>1. CASE HkRemoveFile
  <2>1. PICK t \in FilesOf(src) : files' = files \ {t} /\ lines' = [lines EXCEPT ![t] = {}]
    BY <1>1 DEF HkRemoveFile
  <2>2. t \in Hours /\ t \in files /\ Day(t) = src /\ hk = "remove" /\ src < Day(now) /\ src \in Nat
    BY <1>1, SrcBefore DEF HkRemoveFile, FilesOf, TInv, TypeOK, Working
  <2>3. lines[t] \subseteq Archived(src)
    BY <2>2 DEF Safe, Packed
  <2>4. \A u \in Hours : lines'[u] \subseteq lines[u] /\ (u # t => lines'[u] = lines[u])
    BY <2>1, <2>2 DEF TInv, TypeOK
  <2> USE <1>1 DEF HkRemoveFile, writer, archive, pass, history
  <2>5. Clock' /\ Visited'
    BY DEF Safe, Clock, Visited
  <2>6. Nameless'
    BY <2>1, <2>2 DEF Safe, Nameless, TInv, TypeOK
  <2>7. Linked'
    <3>1. Day(wHour) = Day(now) => wHour # t
      BY <2>2
    <3> QED BY <2>1, <3>1, Zenon DEF Safe, Linked
  <2>8. Packed'
    BY <2>2, <2>4 DEF Safe, Packed, Archived
  <2>9. Covered'
    BY <2>4 DEF Safe, Covered
  <2>10. LinesKept'
    <3> SUFFICES ASSUME NEW x \in Entries, status[x] = "written", ~(OnDisk(x)'), x \notin pruned
                 PROVE  FALSE
      BY DEF LinesKept
    <3>1. OnDisk(x) /\ \A d \in tars : x \notin tarLines[d]
      BY DEF Safe, LinesKept, OnDisk
    <3>2. PICK u \in files : x \in lines[u]
      BY <3>1 DEF OnDisk
    <3>3. u = t
      BY <2>1, <2>4, <3>2 DEF OnDisk, TInv, TypeOK
    <3> QED BY <2>3, <3>1, <3>2, <3>3 DEF Archived
  <2> QED BY <2>5, <2>6, <2>7, <2>8, <2>9, <2>10 DEF Safe
<1>2. CASE HkRemoveDir
  <2> USE <1>2 DEF HkRemoveDir, writer, archive, history
  <2>1. Clock' /\ Visited' /\ Nameless' /\ Packed' /\ Covered' /\ LinesKept'
    BY DEF Safe, Clock, Visited, Nameless, Packed, Covered, LinesKept, OnDisk, Working
  <2>2. Linked'
    BY Zenon DEF Safe, Linked
  <2> QED BY <2>1, <2>2 DEF Safe
<1> QED BY <1>1, <1>2

LEMMA KStep == KInv /\ [Next]_vars => KInv'
<1> SUFFICES ASSUME KInv, [Next]_vars
             PROVE  KInv'
  OBVIOUS
<1>1. TInv /\ TInv'
  BY TStep DEF KInv
<1>2. SUFFICES ASSUME slips' = 0
               PROVE  Safe'
  BY <1>1 DEF KInv
<1>3. CASE Tick
  <2>1. slips = 0
    BY <1>1, <1>2, <1>3, ArchiveAssumption DEF Tick, TInv, TypeOK
  <2> QED BY <1>1, <1>2, <1>3, <2>1, KTick DEF KInv
<1>4. CASE \E e \in Entries : ReadClock(e) \/ Write(e) \/ AppendError(e) \/ WriteError(e)
  <2>1. slips = 0
    BY <1>2, <1>4 DEF ReadClock, Write, AppendError, WriteError, history
  <2> QED BY <1>1, <1>4, <2>1, KReadClock, KWrite, KWriteError DEF KInv
<1>5. CASE Housekeep
  <2>1. slips = 0
    BY <1>2, <1>5 DEF Housekeep, HkLock, HkReadDir, HkReadDirFail, HkVisit, HkWalk, HkHeader, HkCopy, HkVerify,
       HkRename, HkFail, HkRemoveFile, HkRemoveDir, HkRemoveFail, HkEnd, history
  <2> QED BY <1>1, <1>5, <2>1, KReads, KRename, KRemove DEF KInv, Housekeep
<1>6. CASE \E d \in Days : Prune(d)
  <2>1. slips = 0
    BY <1>2, <1>6 DEF Prune
  <2> QED BY <1>1, <1>6, <2>1, KPrune DEF KInv
<1>7. CASE Crash
  <2>1. slips = 0
    BY <1>2, <1>7 DEF Crash
  <2> QED BY <1>1, <1>7, <2>1, KCrash DEF KInv
<1>8. CASE UNCHANGED vars
  <2> USE <1>8 DEF vars, writer, store, archive, pass, history
  <2>1. slips = 0 /\ Safe
    BY <1>2 DEF KInv
  <2>2. Clock' /\ Visited' /\ Nameless' /\ Packed' /\ Covered' /\ LinesKept'
    BY <2>1 DEF Safe, Clock, Visited, Nameless, Packed, Archived, Covered, LinesKept, OnDisk
  <2>3. Linked'
    BY <2>1, Zenon DEF Safe, Linked
  <2> QED BY <2>2, <2>3 DEF Safe
<1> QED BY <1>3, <1>4, <1>5, <1>6, <1>7, <1>8 DEF Next

\* NothingLost for any number of lines, hours, crashes, failures and prunes:
\* what hourWriter.write has written stays readable until retention deletes
\* it, unless a clock reading was carried over midnight.
THEOREM ArchiveKeepsLines == Spec => []NothingLost
<1>1. KInv => NothingLost
  BY DEF KInv, Safe, NothingLost
<1> QED BY <1>1, KInit, KStep, PTL DEF Spec

\* WriterLinked: no pass removes the file that is being written.
THEOREM ArchiveLeavesWriter == Spec => []WriterLinked
<1>1. KInv => WriterLinked
  BY Zenon DEF KInv, Safe, Linked, WriterLinked
<1> QED BY <1>1, KInit, KStep, PTL DEF Spec
-----------------------------------------------------------------------------
(***************************************************************************)
(* The trigger in hourWriter.write is enough.  While nothing failed and no *)
(* pass waits, the running one read its today and its list after the last  *)
(* change of day (Sweep): a directory older than the day being written is  *)
(* one it has still to visit or is working on (Ahead).  That it does not   *)
(* give up on that directory needs that nobody writes into it (Still).     *)
(***************************************************************************)
\* A reading of the clock is never later than the clock.
Stamps ==
  /\ \A e \in Entries : status[e] = "pending" => stamp[e] <= now
  /\ wHour # None => wHour <= now

\* The pass has yet to deal with the directory of day d.
Ahead(d) == DirEntry(d) \in todo \/ (hk \in Working /\ src = d)

\* The directory is what the walk found, the current file what its header says.
Still ==
  /\ hk \in {"header", "copy"} =>
       FilesOf(src) \subseteq packed \cup names /\ \A t \in names : Day(t) = src
  /\ hk = "copy" => \A t \in names : IsFirst(t) => lines[t] = size

Sweep ==
  /\ hk # "idle" => Day(wHour) <= today
  /\ hk # "list" => \A d \in dirs : d >= Day(wHour) \/ Ahead(d)
  /\ hk \in {"header", "copy"} /\ src # Day(wHour) => Still

PInv ==
  /\ TInv
  /\ Stamps
  /\ hk \in {"idle", "list"} => todo = {}
  /\ hk # "idle" => today \in Days
  /\ queued = 0 /\ wHour # None /\ fails = 0 => Sweep

\* An earlier hour belongs to no later day.
LEMMA DayMono ==
  ASSUME NEW t \in Hours, NEW u \in Hours, t <= u
  PROVE  Day(t) <= Day(u)
  BY ArchiveAssumption DEF Day, Hours

LEMMA PInit == Init => PInv
<1> SUFFICES ASSUME Init PROVE PInv
  OBVIOUS
<1>1. TInv
  BY TInit
<1>2. Stamps
  BY DEF Init, Stamps
<1> QED BY <1>1, <1>2 DEF Init, PInv

\* A write that starts no pass goes to the day that is being written: it
\* makes no directory a pass has passed by, and disturbs no other day.
LEMMA PWrite ==
  ASSUME PInv, TInv', NEW e \in Entries, Write(e)
  PROVE  PInv'
<1> DEFINE t == stamp[e]
<1>1. t \in Hours /\ t <= now /\ Day(t) \in Nat /\ t # None
  BY DayFacts, ArchiveAssumption DEF PInv, TInv, Stamped, Stamps, Write, Hours
<1>2. UNCHANGED <<now, stamp, pass, fails>>
  BY DEF Write, history
<1>3. wHour' = t
  BY DEF Write, OpenHour, HourChanged
<1>4. Stamps'
  <2>1. \A x \in Entries : status'[x] = "pending" => status[x] = "pending"
    BY DEF Write, PInv, TInv, TypeOK
  <2> QED BY <1>1, <1>2, <1>3, <2>1 DEF PInv, Stamps
<1>5. ASSUME queued' = 0, fails = 0
      PROVE  Sweep'
  <2>1. ~HourChanged(t) => queued' = queued /\ dirs' = dirs /\ files' = files
    BY Zenon DEF Write, OpenHour
  <2>2. HourChanged(t) => /\ dirs' = dirs \cup {Day(t)} /\ files' = files \cup {t}
                          /\ queued' = IF DayChanged(t) THEN queued + 1 ELSE queued
    BY Zenon DEF Write, OpenHour
  <2>3. queued \in Nat
    BY DEF PInv, TInv, TypeOK
  <2>4. /\ queued = 0 /\ wHour # None /\ Day(wHour) = Day(t)
        /\ dirs' \subseteq dirs \cup {Day(t)} /\ files' \subseteq files \cup {t}
    <3>1. CASE HourChanged(t)
      <4>1. ~DayChanged(t)
        BY <1>5, <2>2, <2>3, <3>1
      <4> QED BY <1>5, <2>2, <3>1, <4>1 DEF DayChanged
    <3>2. CASE ~HourChanged(t)
      BY <1>1, <1>5, <2>1, <3>2 DEF HourChanged
    <3> QED BY <3>1, <3>2
  <2>5. Sweep
    BY <1>5, <2>4 DEF PInv
  <2>6. hk' # "idle" => Day(wHour') <= today'
    BY <1>2, <1>3, <2>4, <2>5 DEF Sweep, pass
  <2>7. hk' # "list" => \A d \in dirs' : d >= Day(wHour') \/ Ahead(d)'
    BY <1>1, <1>2, <1>3, <2>4, <2>5 DEF Sweep, Ahead, pass
  <2>8. ASSUME hk \in {"header", "copy"}, src # Day(t)
        PROVE  Still'
    <3>1. Still
      BY <2>4, <2>5, <2>8 DEF Sweep
    <3>2. FilesOf(src)' \subseteq FilesOf(src)
      BY <1>2, <2>4, <2>8 DEF FilesOf, pass
    <3>3. \A u \in names : Day(u) = src => lines'[u] = lines[u]
      BY <1>1, <2>8 DEF Write, AppendLine, PInv, TInv, TypeOK
    <3>4. ASSUME hk = "copy", NEW u \in names, IsFirst(u)
          PROVE  lines'[u] = size
      BY <3>1, <3>3, <3>4 DEF Still
    <3> QED BY <1>2, <3>1, <3>2, <3>4 DEF Still, IsFirst, pass
  <2> QED BY <1>2, <1>3, <2>6, <2>7, <2>8 DEF Sweep, pass
<1> QED BY <1>2, <1>4, <1>5 DEF PInv, pass

LEMMA PWriter ==
  ASSUME PInv, TInv', NEW e \in Entries, ReadClock(e) \/ Write(e) \/ AppendError(e) \/ WriteError(e)
  PROVE  PInv'
<1>1. CASE ReadClock(e)
  <2>1. UNCHANGED <<now, wHour, dirs, files, lines, queued, pass, fails>> /\ todo' = todo
    BY <1>1 DEF ReadClock, store, history, pass
  <2>2. now \in Int
    BY DEF PInv, TInv, TypeOK, Hours
  <2>3. Stamps'
    BY <1>1, <2>2 DEF ReadClock, PInv, Stamps, TInv, TypeOK
  <2> QED BY <2>1, <2>3 DEF PInv, Sweep, Ahead, Still, FilesOf, IsFirst, pass
<1>2. CASE Write(e)
  BY <1>2, PWrite
<1>3. CASE AppendError(e) \/ WriteError(e)
  <2>1. /\ UNCHANGED <<now, stamp, pass, lines>> /\ hk' = hk /\ todo' = todo
        /\ today' = today
    BY <1>3 DEF AppendError, WriteError, pass
  <2>2. stamp[e] \in Hours /\ stamp[e] <= now
    BY <1>3 DEF AppendError, WriteError, PInv, TInv, Stamped, Stamps
  <2>3. wHour' = wHour \/ wHour' = stamp[e]
    BY <1>3, Zenon DEF AppendError, WriteError, OpenHour
  <2>4. \A x \in Entries : status'[x] = "pending" => status[x] = "pending"
    BY <1>3 DEF AppendError, WriteError, PInv, TInv, TypeOK
  <2>5. Stamps'
    BY <2>1, <2>2, <2>3, <2>4 DEF PInv, Stamps
  <2>6. fails \in Nat
    BY ArchiveAssumption DEF PInv, TInv, TypeOK
  <2>7. ASSUME fails' = 0, queued' = 0, wHour' # None
        PROVE  Sweep'
    <3>1. WriteError(e)
      BY <1>3, <2>6, <2>7 DEF AppendError
    <3>2. ~HourChanged(stamp[e])
      BY <2>6, <2>7, <3>1 DEF WriteError
    <3>3. UNCHANGED <<wHour, dirs, files, queued, fails>>
      BY <3>1, <3>2 DEF WriteError
    <3>4. Sweep
      BY <2>7, <3>3 DEF PInv
    <3> QED BY <2>1, <3>3, <3>4 DEF Sweep, Ahead, Still, FilesOf, IsFirst, pass
  <2> QED BY <2>1, <2>5, <2>7 DEF PInv
<1> QED BY <1>1, <1>2, <1>3

LEMMA PHousekeep ==
  ASSUME PInv, TInv', Housekeep
  PROVE  PInv'
<1> USE DEF PInv
<1>1. UNCHANGED <<now, status, stamp, wHour>>
  BY DEF Housekeep, HkLock, HkReadDir, HkReadDirFail, HkVisit, HkWalk, HkHeader, HkCopy, HkVerify,
     HkRename, HkFail, HkRemoveFile, HkRemoveDir, HkRemoveFail, HkEnd, writer
<1>2. Stamps'
  BY <1>1 DEF Stamps
<1>3. fails \in Nat /\ queued \in Nat
  BY ArchiveAssumption DEF TInv, TypeOK
<1>4. CASE HkLock
  <2>1. /\ hk = "idle" /\ hk' = "list" /\ todo' = todo /\ today' = Day(now)
        /\ UNCHANGED <<dirs, fails>>
    BY <1>4 DEF HkLock, store, history
  <2>2. today' \in Days
    BY <1>1, <2>1, DayFacts DEF TInv, TypeOK
  <2>3. wHour # None => Day(wHour) <= today'
    BY <2>1, DayMono DEF TInv, TypeOK, Stamps
  <2> QED BY <1>1, <1>2, <2>1, <2>2, <2>3 DEF Sweep
<1>5. CASE HkReadDir
  <2>1. /\ hk = "list" /\ hk' = "next"
        /\ UNCHANGED <<today, dirs, queued, fails>>
        /\ todo' = {DirEntry(d) : d \in dirs} \cup {TempEntry(d) : d \in temps}
    BY <1>5 DEF HkReadDir, store, history
  <2>2. \A d \in dirs' : Ahead(d)'
    BY <2>1 DEF Ahead
  <2> QED BY <1>1, <1>2, <2>1, <2>2 DEF Sweep
<1>6. CASE HkReadDirFail \/ HkRemoveFail
  <2>1. fails' = fails + 1 /\ today' \in {None, today} /\ hk' \in {"idle", "next"}
    BY <1>6 DEF HkReadDirFail, HkRemoveFail
  <2>2. hk' = "idle" => todo' = {}
    BY <1>6 DEF HkReadDirFail, HkRemoveFail
  <2>3. hk' # "idle" => today' \in Days
    BY <1>6 DEF HkReadDirFail, HkRemoveFail
  <2> QED BY <1>2, <1>3, <2>1, <2>2, <2>3
<1>7. CASE HkVisit
  <2>1. PICK f \in todo : /\ todo' = todo \ {f}
                          /\ IF f[2] = 1 \/ f[1] = today THEN UNCHANGED <<hk, src>>
                             ELSE src' = f[1] /\ hk' \in {"remove", "walk"}
    BY <1>7 DEF HkVisit, IsNext, TInv, TypeOK
  <2>2. f \in Days \X {0, 1}
    BY DEF TInv, TypeOK
  <2>3. hk = "next" /\ UNCHANGED <<today, dirs, queued, fails>>
    BY <1>7 DEF HkVisit, store, history
  <2>4. hk' \in {"next", "remove", "walk"}
    BY <2>1, <2>3
  <2>5. ASSUME Sweep, wHour # None, NEW d \in dirs, ~(d >= Day(wHour))
        PROVE  Ahead(d)'
    <3>1. DirEntry(d) \in todo
      BY <2>3, <2>5 DEF Sweep, Ahead, Working
    <3>2. d \in Nat /\ today \in Nat /\ Day(wHour) <= today /\ Day(wHour) \in Nat
      BY <2>3, <2>5, DaysNat, DayFacts DEF Sweep, TInv, TypeOK
    <3>3. d # today
      BY <2>5, <3>2
    <3>4. CASE f = DirEntry(d)
      BY <2>1, <3>3, <3>4 DEF DirEntry, Ahead, Working
    <3>5. CASE f # DirEntry(d)
      BY <2>1, <3>1, <3>5 DEF Ahead
    <3> QED BY <3>4, <3>5
  <2> QED BY <1>1, <1>2, <2>3, <2>4, <2>5 DEF Sweep
<1>8. CASE HkWalk \/ HkHeader \/ HkCopy
  <2>1. /\ UNCHANGED <<today, todo, src, dirs, files, lines, queued, fails>>
        /\ hk \in {"walk", "header", "copy"} /\ hk' \in {"header", "copy"}
    BY <1>8 DEF HkWalk, HkHeader, HkCopy, store, history
  <2>2. \A d \in dirs : Ahead(d) => Ahead(d)'
    BY <2>1 DEF Ahead, Working
  <2>3. ASSUME hk \in {"header", "copy"} => Still
        PROVE  Still'
    <3>1. CASE HkWalk
      BY <3>1 DEF HkWalk, Still, FilesOf, store
    <3>2. CASE HkHeader
      <4>1. \A t \in names, u \in names : IsFirst(t) /\ IsFirst(u) => t = u
        BY DEF IsFirst, TInv, TypeOK, Hours
      <4> QED BY <2>3, <3>2, <4>1 DEF HkHeader, Still, FilesOf, IsFirst, store
    <3>3. CASE HkCopy
      BY <2>3, <3>3 DEF HkCopy, Still, FilesOf, store
    <3> QED BY <1>8, <3>1, <3>2, <3>3
  <2> QED BY <1>1, <1>2, <2>1, <2>2, <2>3 DEF Sweep
<1>9. CASE HkVerify \/ HkRename \/ HkRemoveFile
  <2>1. /\ UNCHANGED <<today, todo, src, dirs, queued, fails>>
        /\ hk \in Working /\ hk' \in {"rename", "remove"}
    BY <1>9 DEF HkVerify, HkRename, HkRemoveFile, store, history, pass, Working
  <2>2. \A d \in dirs : Ahead(d) => Ahead(d)'
    BY <2>1 DEF Ahead, Working
  <2> QED BY <1>1, <1>2, <2>1, <2>2 DEF Sweep, Working
<1>10. CASE HkFail
  <2>1. /\ UNCHANGED <<today, todo, src, dirs, queued>>
        /\ hk \in {"walk", "header", "copy", "rename"} /\ hk' = "next"
        /\ fails' = IF MustFail THEN fails ELSE fails + 1
    BY <1>10 DEF HkFail, store
  <2>2. ASSUME Sweep, fails' = 0, wHour # None, NEW d \in dirs, ~(d >= Day(wHour))
        PROVE  Ahead(d)'
    <3>1. MustFail
      BY <1>3, <2>1, <2>2
    <3>2. ~Still
      BY <3>1 DEF MustFail, Still
    <3>3. src = Day(wHour)
      BY <2>2, <3>1, <3>2 DEF Sweep, MustFail
    <3>4. d # src
      BY <2>2, <3>3, DaysNat DEF TInv, TypeOK
    <3> QED BY <2>1, <2>2, <3>4 DEF Sweep, Ahead
  <2>3. fails' = 0 => fails = 0
    BY <1>3, <2>1
  <2> QED BY <1>1, <1>2, <2>1, <2>2, <2>3 DEF Sweep
<1>11. CASE HkRemoveDir
  <2>1. /\ UNCHANGED <<today, todo, src, queued, fails>>
        /\ hk = "remove" /\ hk' = "next" /\ dirs' = dirs \ {src}
    BY <1>11 DEF HkRemoveDir, history
  <2>2. \A d \in dirs' : Ahead(d) => Ahead(d)'
    BY <2>1 DEF Ahead
  <2> QED BY <1>1, <1>2, <2>1, <2>2 DEF Sweep
<1>12. CASE HkEnd
  <2>1. /\ UNCHANGED <<todo, dirs, queued, fails>>
        /\ hk = "next" /\ todo = {} /\ hk' = "idle"
    BY <1>12 DEF HkEnd, store, history
  <2>2. \A d \in dirs : ~Ahead(d)
    BY <2>1 DEF Ahead, Working
  <2> QED BY <1>1, <1>2, <2>1, <2>2 DEF Sweep
<1> QED BY <1>4, <1>5, <1>6, <1>7, <1>8, <1>9, <1>10, <1>11, <1>12 DEF Housekeep

LEMMA PStep == PInv /\ [Next]_vars => PInv'
<1> SUFFICES ASSUME PInv, [Next]_vars
             PROVE  PInv'
  OBVIOUS
<1>1. TInv'
  BY TStep DEF PInv
<1>2. CASE Tick
  <2>1. now \in Int /\ now' = now + 1
    BY <1>2 DEF Tick, PInv, TInv, TypeOK, Hours
  <2>2. \A e \in Entries : status[e] = "pending" => stamp[e] \in Int
    BY DEF PInv, TInv, Stamped, Hours
  <2>3. wHour # None => wHour \in Int
    BY DEF PInv, TInv, TypeOK, Hours
  <2>4. UNCHANGED <<writer, store, queued, pass, fails>>
    BY <1>2 DEF Tick
  <2>5. Stamps'
    BY <2>1, <2>2, <2>3, <2>4 DEF PInv, Stamps, writer
  <2> QED BY <1>1, <2>4, <2>5 DEF PInv, Sweep, Ahead, Still, FilesOf, IsFirst, writer, store, pass
<1>3. CASE \E d \in Days : Prune(d)
  BY <1>1, <1>3 DEF Prune, PInv, Stamps, Sweep, Ahead, Still, FilesOf, IsFirst, writer, store, pass
<1>4. CASE Crash
  <2>1. Stamps'
    BY <1>4 DEF Crash, PInv, Stamps, TInv, TypeOK
  <2> QED BY <1>1, <1>4, <2>1 DEF Crash, PInv
<1>5. CASE UNCHANGED vars
  BY <1>1, <1>5
     DEF vars, PInv, Stamps, Sweep, Ahead, Still, FilesOf, IsFirst, writer, store, pass, history
<1> QED BY <1>1, <1>2, <1>3, <1>4, <1>5, PWriter, PHousekeep DEF Next

\* PastDaysPacked for any number of lines, hours, crashes and midnights
\* between a reading of the clock and its use: once no pass waits or runs, and
\* nothing failed, every directory before the day being written is packed.
THEOREM ArchivePacksPastDays == Spec => []PastDaysPacked
<1>1. PInv => PastDaysPacked
  BY DEF PInv, Sweep, Ahead, Working, PastDaysPacked
<1> QED BY <1>1, PInit, PStep, PTL DEF Spec
=============================================================================
