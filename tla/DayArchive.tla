----------------------------- MODULE DayArchive -----------------------------
(***************************************************************************)
(* The raw body log of bodylog-listener-go on disk (main.go): hourWriter,  *)
(* which appends lines to <day>/<hour>.jsonl, housekeep with tarGzDir and  *)
(* verifyTarGz, which turn past days into <day>.tar.gz, and the part of    *)
(* prune (retention.go) that deletes archives.                             *)
(*                                                                         *)
(* Time is counted in hours, and an hour names its file: hour t belongs to *)
(* Day(t).  Every file operation of housekeep is a step; a write of the    *)
(* hourWriter is one step under its mutex, and the clock is read before    *)
(* the mutex is taken, in a step of its own.  A pass of housekeep holds    *)
(* housekeepMu, so there is one at a time and others wait (queued).        *)
(***************************************************************************)
EXTENDS Integers

CONSTANTS
  MaxTime,     \* bound: hours 0..MaxTime
  DayLen,      \* hours of a day
  Entries,     \* the lines of a behaviour
  MaxSlips,    \* bound: midnights between a read of the clock and its use
  MaxCrashes,  \* bound: stops of the listener
  MaxFails,    \* bound: file operations that fail
  MaxPrunes,   \* bound: archives deleted by prune
  None

ASSUME ArchiveAssumption ==
  /\ MaxTime \in Nat /\ DayLen \in Nat \ {0}
  /\ MaxSlips \in Nat /\ MaxCrashes \in Nat /\ MaxFails \in Nat /\ MaxPrunes \in Nat
  /\ None \notin Int

Hours    == 0..MaxTime
Day(t)   == t \div DayLen
Days     == {Day(t) : t \in Hours}

VARIABLES
  now,       \* the clock
  status,    \* line -> "new", "pending" (clock read), "written" or "dropped"
  stamp,     \* line -> the hour its writer read
  wHour,     \* hourWriter.day and .hour, None at first
  wOpen,     \* is hourWriter.f open
  dirs,      \* day directories
  lines,     \* hour file -> its lines; a file exists when its hour is in files
  files,     \* hour files
  tars,      \* days with a <day>.tar.gz
  tarLines,  \* day -> lines in its archive
  temps,     \* days with a <day>.tar.gz.tmp-* left by a crash
  queued,    \* housekeep goroutines that wait for housekeepMu
  hk,        \* where the running pass is
  today,     \* its today
  todo,      \* directory entries it has still to visit
  src,       \* the day directory it works on
  names,     \* hour files the walk has still to visit
  size,      \* lines of the current member when its header was written
  packed,    \* hour files in the temporary archive
  content,   \* lines in the temporary archive
  pruned,    \* history: lines deleted by retention
  slips, crashes, fails, prunes

writer  == <<status, stamp, wHour, wOpen>>
store   == <<dirs, lines, files>>
archive == <<tars, tarLines, temps>>
pass    == <<hk, today, todo, src, names, size, packed, content>>
history == <<pruned, slips, crashes, fails, prunes>>
vars    == <<now, writer, store, archive, queued, pass, history>>

FilesOf(d) == {t \in files : Day(t) = d}
LinesOf(d) == UNION {lines[t] : t \in FilesOf(d)}

\* Entries of BODYLOG_DIR as ReadDir sorts them: by day, a day's directory
\* before its temporary archives.
DirEntry(d)  == <<d, 0>>
TempEntry(d) == <<d, 1>>
Precedes(a, b) == a[1] < b[1] \/ (a[1] = b[1] /\ a[2] <= b[2])
IsNext(e)      == e \in todo /\ \A f \in todo : Precedes(e, f)
IsFirst(t)     == t \in names /\ \A u \in names : t <= u
-----------------------------------------------------------------------------
Init ==
  /\ now = 0
  /\ status = [e \in Entries |-> "new"] /\ stamp = [e \in Entries |-> None]
  /\ wHour = None /\ wOpen = FALSE
  /\ dirs = {} /\ files = {} /\ lines = [t \in Hours |-> {}]
  /\ tars = {} /\ tarLines = [d \in Days |-> {}] /\ temps = {}
  /\ queued = 0
  /\ hk = "idle" /\ today = None /\ todo = {} /\ src = None
  /\ names = {} /\ size = {} /\ packed = {} /\ content = {}
  /\ pruned = {} /\ slips = 0 /\ crashes = 0 /\ fails = 0 /\ prunes = 0

\* Somebody has read the clock and not yet used what it read.
Holding == hk = "list" \/ \E e \in Entries : status[e] = "pending"

Tick ==
  /\ now < MaxTime
  /\ now' = now + 1
  /\ slips' = IF Holding /\ Day(now + 1) # Day(now) THEN slips + 1 ELSE slips
  /\ slips' <= MaxSlips
  /\ UNCHANGED <<writer, store, archive, queued, pass, pruned, crashes, fails, prunes>>
-----------------------------------------------------------------------------
(***************************************************************************)
(* hourWriter.write                                                        *)
(***************************************************************************)
ReadClock(e) ==
  /\ status[e] = "new"
  /\ status' = [status EXCEPT ![e] = "pending"]
  /\ stamp' = [stamp EXCEPT ![e] = now]
  /\ UNCHANGED <<now, wHour, wOpen, store, archive, queued, pass, history>>

DayChanged(t)  == wHour = None \/ Day(wHour) # Day(t)
HourChanged(t) == wHour # t

\* Variant: the first write of a process does not start housekeep.
OpenHourNoTrigger(t) ==
  IF HourChanged(t)
    THEN /\ dirs' = dirs \cup {Day(t)} /\ files' = files \cup {t}
         /\ wHour' = t /\ wOpen' = TRUE
         /\ queued' = IF wHour # None /\ Day(wHour) # Day(t) THEN queued + 1 ELSE queued
    ELSE wOpen /\ UNCHANGED <<dirs, files, wHour, wOpen, queued>>

\* The directory and the file of hour t are opened, and housekeep is started
\* when the day is another one; or that file is open already.
OpenHour(t) ==
  IF HourChanged(t)
    THEN /\ dirs' = dirs \cup {Day(t)} /\ files' = files \cup {t}
         /\ wHour' = t /\ wOpen' = TRUE
         /\ queued' = IF DayChanged(t) THEN queued + 1 ELSE queued
    ELSE wOpen /\ UNCHANGED <<dirs, files, wHour, wOpen, queued>>

\* The line goes to the file of hour t, if that file still has its name.
AppendLine(e, t) ==
  lines' = [lines EXCEPT ![t] = IF t \in files' THEN @ \cup {e} ELSE @]

Write(e) ==
  /\ status[e] = "pending"
  /\ OpenHour(stamp[e])
  /\ AppendLine(e, stamp[e])
  /\ status' = [status EXCEPT ![e] = "written"]
  /\ UNCHANGED <<now, stamp, archive, pass, history>>

\* The write to the open file fails.
AppendError(e) ==
  /\ status[e] = "pending"
  /\ fails < MaxFails /\ fails' = fails + 1
  /\ OpenHour(stamp[e])
  /\ status' = [status EXCEPT ![e] = "dropped"]
  /\ UNCHANGED <<now, stamp, lines, archive, pass, pruned, slips, crashes, prunes>>

\* A mkdir or an open fails after the old file was closed, with the hour left
\* as it was; or the file in hand is that closed one.
WriteError(e) ==
  LET t == stamp[e] IN
  /\ status[e] = "pending"
  /\ IF HourChanged(t)
       THEN /\ fails < MaxFails /\ fails' = fails + 1
            /\ wOpen' = FALSE
            /\ \/ UNCHANGED dirs
               \/ dirs' = dirs \cup {Day(t)}
       ELSE ~wOpen /\ UNCHANGED <<fails, wOpen, dirs>>
  /\ status' = [status EXCEPT ![e] = "dropped"]
  /\ UNCHANGED <<now, stamp, wHour, files, lines, archive, queued, pass, pruned, slips, crashes, prunes>>
-----------------------------------------------------------------------------
(***************************************************************************)
(* housekeep: one pass over the entries of BODYLOG_DIR.                    *)
(***************************************************************************)
HkLock ==
  /\ hk = "idle" /\ queued > 0
  /\ queued' = queued - 1
  /\ today' = Day(now)
  /\ hk' = "list"
  /\ UNCHANGED <<now, writer, store, archive, todo, src, names, size, packed, content, history>>

HkReadDir ==
  /\ hk = "list"
  /\ todo' = {DirEntry(d) : d \in dirs} \cup {TempEntry(d) : d \in temps}
  /\ hk' = "next"
  /\ UNCHANGED <<now, writer, store, archive, queued, today, src, names, size, packed, content, history>>

HkReadDirFail ==
  /\ hk = "list" /\ fails < MaxFails
  /\ fails' = fails + 1
  /\ hk' = "idle" /\ today' = None
  /\ UNCHANGED <<now, writer, store, archive, queued, todo, src, names, size, packed, content,
                 pruned, slips, crashes, prunes>>

\* Variant: the directory of today is not skipped.
HkVisitToday ==
  /\ hk = "next"
  /\ \E e \in todo : IsNext(e)
       /\ todo' = todo \ {e}
       /\ IF e[2] = 1 THEN /\ temps' = temps \ {e[1]}
                           /\ UNCHANGED <<hk, src>>
          ELSE /\ src' = e[1]
               /\ hk' = IF e[1] \in tars THEN "remove" ELSE "walk"
               /\ UNCHANGED temps
  /\ UNCHANGED <<now, writer, store, tars, tarLines, queued, today, names, size, packed, content, history>>

\* The next entry: today's directory is left alone, a day that has an archive
\* is removed, any other day is packed; a temporary archive of a crashed pass
\* is deleted.
HkVisit ==
  /\ hk = "next"
  /\ \E e \in todo : IsNext(e)
       /\ todo' = todo \ {e}
       /\ IF e[2] = 1 THEN /\ temps' = temps \ {e[1]}
                           /\ UNCHANGED <<hk, src>>
          ELSE IF e[1] = today THEN UNCHANGED <<temps, hk, src>>
          ELSE /\ src' = e[1]
               /\ hk' = IF e[1] \in tars THEN "remove" ELSE "walk"
               /\ UNCHANGED temps
  /\ UNCHANGED <<now, writer, store, tars, tarLines, queued, today, names, size, packed, content, history>>

\* tarGzDir: filepath.Walk reads the names of the directory once, then writes
\* the header of each file with its size, then copies the file.
HkWalk ==
  /\ hk = "walk"
  /\ names' = FilesOf(src)
  /\ packed' = {} /\ content' = {}
  /\ hk' = "header"
  /\ UNCHANGED <<now, writer, store, archive, queued, today, todo, src, size, history>>

HkHeader ==
  /\ hk = "header"
  /\ \E t \in names : IsFirst(t) /\ size' = lines[t]
  /\ hk' = "copy"
  /\ UNCHANGED <<now, writer, store, archive, queued, today, todo, src, names, packed, content, history>>

\* A file that grew since its header is an error of the tar writer (HkFail).
HkCopy ==
  /\ hk = "copy"
  /\ \E t \in names :
       /\ IsFirst(t) /\ lines[t] = size
       /\ names' = names \ {t}
       /\ packed' = packed \cup {t}
  /\ content' = content \cup size
  /\ hk' = "header"
  /\ UNCHANGED <<now, writer, store, archive, queued, today, todo, src, size, history>>

\* verifyTarGz: every file the directory has now must be a member.
HkVerify ==
  /\ hk = "header" /\ names = {}
  /\ FilesOf(src) \subseteq packed
  /\ hk' = "rename"
  /\ UNCHANGED <<now, writer, store, archive, queued, today, todo, src, names, size, packed, content, history>>

HkRename ==
  /\ hk = "rename"
  /\ tars' = tars \cup {src}
  /\ tarLines' = [tarLines EXCEPT ![src] = content]
  /\ hk' = "remove"
  /\ UNCHANGED <<now, writer, store, temps, queued, today, todo, src, names, size, packed, content, history>>

\* The tar writer or verifyTarGz finds an error, or a file operation fails:
\* the temporary archive is removed and the directory kept.
MustFail ==
  \/ hk = "copy" /\ \E t \in names : IsFirst(t) /\ lines[t] # size
  \/ hk = "header" /\ names = {} /\ ~(FilesOf(src) \subseteq packed)

\* Variant: the directory is removed although the pack failed.
HkFailRemoves ==
  /\ hk \in {"walk", "header", "copy", "rename"}
  /\ MustFail \/ fails < MaxFails
  /\ fails' = IF MustFail THEN fails ELSE fails + 1
  /\ hk' = "remove"
  /\ UNCHANGED <<now, writer, store, archive, queued, today, todo, src, names, size, packed, content,
                 pruned, slips, crashes, prunes>>

HkFail ==
  /\ hk \in {"walk", "header", "copy", "rename"}
  /\ MustFail \/ fails < MaxFails
  /\ fails' = IF MustFail THEN fails ELSE fails + 1
  /\ hk' = "next"
  /\ UNCHANGED <<now, writer, store, archive, queued, today, todo, src, names, size, packed, content,
                 pruned, slips, crashes, prunes>>

\* os.RemoveAll: file by file, then the directory.
HkRemoveFile ==
  /\ hk = "remove"
  /\ \E t \in FilesOf(src) :
       /\ files' = files \ {t}
       /\ lines' = [lines EXCEPT ![t] = {}]
  /\ UNCHANGED <<now, writer, dirs, archive, queued, pass, history>>

HkRemoveDir ==
  /\ hk = "remove" /\ FilesOf(src) = {}
  /\ dirs' = dirs \ {src}
  /\ hk' = "next"
  /\ UNCHANGED <<now, writer, lines, files, archive, queued, today, todo, src, names, size, packed, content, history>>

\* RemoveAll fails half way: the pass goes on.
HkRemoveFail ==
  /\ hk = "remove" /\ fails < MaxFails
  /\ fails' = fails + 1
  /\ hk' = "next"
  /\ UNCHANGED <<now, writer, store, archive, queued, today, todo, src, names, size, packed, content,
                 pruned, slips, crashes, prunes>>

HkEnd ==
  /\ hk = "next" /\ todo = {}
  /\ hk' = "idle" /\ today' = None /\ src' = None
  /\ names' = {} /\ size' = {} /\ packed' = {} /\ content' = {}
  /\ UNCHANGED <<now, writer, store, archive, queued, todo, history>>

Housekeep ==
  \/ HkLock \/ HkReadDir \/ HkReadDirFail \/ HkVisit \/ HkWalk \/ HkHeader \/ HkCopy \/ HkVerify
  \/ HkRename \/ HkFail \/ HkRemoveFile \/ HkRemoveDir \/ HkRemoveFail \/ HkEnd
-----------------------------------------------------------------------------
\* prune deletes archives and never looks at directories.  It goes from the
\* oldest on, but through a list it took before, and past a delete that fails.
Prune(d) ==
  /\ prunes < MaxPrunes
  /\ d \in tars
  /\ tars' = tars \ {d}
  /\ pruned' = pruned \cup tarLines[d]
  /\ tarLines' = [tarLines EXCEPT ![d] = {}]
  /\ prunes' = prunes + 1
  /\ UNCHANGED <<now, writer, store, temps, queued, pass, slips, crashes, fails>>

\* The listener is killed, at any point, and starts again.
Crash ==
  /\ crashes < MaxCrashes
  /\ crashes' = crashes + 1
  /\ status' = [e \in Entries |-> IF status[e] = "pending" THEN "dropped" ELSE status[e]]
  /\ wHour' = None /\ wOpen' = FALSE
  /\ temps' = IF hk \in {"header", "copy", "rename"} THEN temps \cup {src} ELSE temps
  /\ queued' = 0
  /\ hk' = "idle" /\ today' = None /\ todo' = {} /\ src' = None
  /\ names' = {} /\ size' = {} /\ packed' = {} /\ content' = {}
  /\ UNCHANGED <<now, stamp, store, tars, tarLines, pruned, slips, fails, prunes>>

Next ==
  \/ Tick
  \/ \E e \in Entries : ReadClock(e) \/ Write(e) \/ AppendError(e) \/ WriteError(e)
  \/ Housekeep
  \/ \E d \in Days : Prune(d)
  \/ Crash

Spec == Init /\ [][Next]_vars
-----------------------------------------------------------------------------
(***************************************************************************)
(* Properties                                                              *)
(***************************************************************************)
HkStates == {"idle", "list", "next", "walk", "header", "copy", "rename", "remove"}

TypeOK ==
  /\ now \in Hours
  /\ status \in [Entries -> {"new", "pending", "written", "dropped"}]
  /\ stamp \in [Entries -> Hours \cup {None}]
  /\ wHour \in Hours \cup {None} /\ wOpen \in BOOLEAN
  /\ dirs \in SUBSET Days
  /\ files \in SUBSET {t \in Hours : Day(t) \in dirs}
  /\ lines \in [Hours -> SUBSET Entries]
  /\ tars \in SUBSET Days
  /\ tarLines \in [Days -> SUBSET Entries]
  /\ temps \in SUBSET Days
  /\ queued \in Nat
  /\ hk \in HkStates
  /\ today \in Days \cup {None}
  /\ todo \in SUBSET (Days \X {0, 1})
  /\ src \in Days \cup {None}
  /\ names \in SUBSET Hours
  /\ size \in SUBSET Entries
  /\ packed \in SUBSET Hours
  /\ content \in SUBSET Entries
  /\ pruned \in SUBSET Entries
  /\ slips \in 0..MaxSlips /\ crashes \in 0..MaxCrashes
  /\ fails \in 0..MaxFails /\ prunes \in 0..MaxPrunes

OnDisk(e) == \/ \E t \in files : e \in lines[t]
             \/ \E d \in tars : e \in tarLines[d]

\* housekeep "only archives": a line that hourWriter.write has written stays
\* in an hour file or an archive until retention deletes that archive,
\* whatever fails or crashes in between.
LinesKept == \A e \in Entries : status[e] = "written" => OnDisk(e) \/ e \in pruned

\* Lines are kept as long as nobody carries a read of the clock over midnight:
\* no writer between its time.Now and its lock, no pass between its today and
\* its ReadDir.
NothingLost == slips = 0 => LinesKept

\* housekeep never works on the directory that is being written: the file
\* hourWriter has open for the current day keeps its name.
WriterLinked ==
  slips = 0 /\ wOpen /\ Day(wHour) = Day(now) => wHour \in files

\* The trigger in hourWriter.write is enough: when no housekeep is waiting or
\* running and nothing failed, no day before the one being written is left
\* unpacked, downtime over midnight included.
PastDaysPacked ==
  hk = "idle" /\ queued = 0 /\ wHour # None /\ fails = 0
    => \A d \in dirs : d >= Day(wHour)
=============================================================================
