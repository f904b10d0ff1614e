--------------------------- MODULE DetailsExport ----------------------------
(***************************************************************************)
(* bodylog-exporter-go behind the details store: the tailer (tail.go)      *)
(* follows <day>.jsonl and observes each row, saves how far it came in a   *)
(* checkpoint (checkpoint.go), changes to the file of the new day, and     *)
(* after a long stop fetches what was packed meanwhile from GET /metrics   *)
(* (recovery.go; metricsHandler of httpapi.go).                            *)
(*                                                                         *)
(* The rows observed are what the Prometheus counters count; these start   *)
(* from zero with each life of the exporter.  BODYLOG_URL is set: without  *)
(* it a start behaves like a recovery that gives up at once.  Every row    *)
(* has a request id and parses.  A page of /metrics holds one row          *)
(* (metricsMaxRows) and persist writes once per PersistEvery lines.        *)
(***************************************************************************)
EXTENDS DetailsStore, FiniteSets

CONSTANTS
  Lag,          \* RECOVERY_LAG_SECONDS
  PersistEvery, \* the 2000 of readFrom
  MaxStops      \* bound: ends of an exporter's life

ASSUME ExportAssumption ==
  /\ Lag \in Nat /\ PersistEvery \in Nat \ {0} /\ MaxStops \in Nat
  /\ None \notin Seq(Rows) /\ None \notin [day : Days, off : 0..NRows]

VARIABLES
  ex,      \* "down", "recover", "loop" (top of tailLoop) or "read" (in readFrom)
  path,    \* curPath: the day of the file it follows
  off,     \* offset: rows of that file it has read
  top,     \* today, as read at the top of tailLoop
  count,   \* complete lines of this readFrom
  held,    \* what the open file holds once it has been removed, else None
  page,    \* the recovery: from day [from], ends before [hi], cursor [after]
  seen, dedup,
  obs,     \* row -> times observed in this life
  ckpt,    \* the saved [day, off], or None
  ever,    \* history: rows observed in any life
  early,   \* history: rows a recovery took from a file of a later day than
           \* the one that is followed next
  told,    \* history: rows passed over by a tailer that was a day behind, or
           \* where the log says that rows may be lost
  missed,  \* history: rows passed over by a recovery that did not say so
  stops    \* lives ended

tail   == <<path, off, top, count, held>>
dup    == <<seen, dedup>>
seenBy == <<obs, ever, early>>
listener == <<now, writer, store, pass, slips, torn>>
given  == <<told, missed>>
exVars == <<ex, tail, page, dup, seenBy, ckpt, given, stops>>
vars   == <<storeVars, exVars>>

NoPage == [from |-> 0, hi |-> 0, after |-> None]
Unread == {r \in Rows : status[r] = "written"} \ ever
UnreadOf(S) == {r \in Unread : stamp[r] \in S}
-----------------------------------------------------------------------------
Init ==
  /\ StoreInit
  /\ ex = "down" /\ path = None /\ off = 0 /\ top = None /\ count = 0 /\ held = None
  /\ page = NoPage /\ seen = {} /\ dedup = FALSE
  /\ obs = [r \in Rows |-> 0] /\ ckpt = None
  /\ ever = {} /\ early = {} /\ told = {} /\ missed = {} /\ stops = 0

\* persist: a failure to save is logged.
PersistAt(d, o) ==
  \/ ckpt' = [day |-> d, off |-> o] /\ UNCHANGED fails
  \/ fails < MaxFails /\ fails' = fails + 1 /\ UNCHANGED ckpt

Observe(r) ==
  /\ obs' = [obs EXCEPT ![r] = @ + 1]
  /\ ever' = ever \cup {r}

DropDedup == seen' = {} /\ dedup' = FALSE
-----------------------------------------------------------------------------
(***************************************************************************)
(* run: where to start                                                     *)
(***************************************************************************)
StartFresh ==
  /\ ex = "down" /\ ckpt = None
  /\ ex' = "loop" /\ path' = Day(now) /\ off' = 0
  /\ told' = told \cup UnreadOf({d \in Days : d < Day(now)})
  /\ UNCHANGED <<listener, fails, top, count, held, page, dup, seenBy, ckpt, missed, stops>>

StartResume ==
  /\ ex = "down" /\ ckpt # None /\ ckpt.day \in jsonl
  /\ ex' = "loop" /\ path' = ckpt.day /\ off' = ckpt.off
  /\ UNCHANGED <<listener, fails, top, count, held, page, dup, seenBy, ckpt, given, stops>>

\* Mutant: no margin for rows that were written after midnight.
RecoveryFromFile(c) == c.day

\* The file of the checkpoint is gone: fetch from the day before it.
RecoveryFrom(c) == c.day - 1

StartRecovery ==
  /\ ex = "down" /\ ckpt # None /\ ckpt.day \notin jsonl
  /\ ex' = "recover"
  /\ page' = [from |-> RecoveryFrom(ckpt), hi |-> now - Lag, after |-> None]
  /\ path' = Day(now) /\ off' = 0
  /\ dedup' = TRUE
  /\ UNCHANGED <<listener, fails, top, count, held, seen, seenBy, ckpt, given, stops>>
-----------------------------------------------------------------------------
(***************************************************************************)
(* recoverViaHTTP and, for each page, metricsHandler                       *)
(***************************************************************************)
\* Rows in the order of (ts_end, request_id).
Before(r, s) == ended[r] < ended[s] \/ (ended[r] = ended[s] /\ r < s)

\* The days whose files are read: up to the one after that of the end.
PageDays ==
  LET first == IF page.after = None THEN page.from ELSE Day(ended[page.after])
  IN {d \in Days : first <= d /\ d <= Day(page.hi) + 1}

\* For each day its parquet or else its jsonl.
PageRows ==
  LET days == PageDays
  IN (UNION {packed[d] : d \in days \cap parquet}) \cup (UNION {RowsOf(d) : d \in days \ parquet})

\* Mutant: the cursor compares times only, and includes its own.
PageHitsInclusive ==
  {r \in PageRows :
     /\ ended[r] < page.hi
     /\ IF page.after = None THEN ended[r] >= DayLen * page.from ELSE ended[r] >= ended[page.after]}

PageHits ==
  {r \in PageRows :
     /\ ended[r] < page.hi
     /\ IF page.after = None THEN ended[r] >= DayLen * page.from ELSE Before(page.after, r)}

LeaveRecovery ==
  /\ ex' = "loop" /\ page' = NoPage

RecoverPage ==
  /\ ex = "recover" /\ PageDays \cap broken = {}
  /\ LET hits == PageHits
     IN \/ /\ hits = {}
           /\ LeaveRecovery
           /\ UNCHANGED <<seenBy, seen>>
        \/ \E r \in hits :
             /\ \A s \in hits \ {r} : Before(r, s)
             /\ Observe(r)
             /\ early' = IF stamp[r] > path THEN early \cup {r} ELSE early
             /\ seen' = seen \cup {r}
             /\ IF hits = {r} THEN LeaveRecovery
                ELSE page' = [page EXCEPT !.after = r] /\ UNCHANGED ex
  /\ missed' = IF ex' = "recover" THEN missed
               ELSE missed \cup {r \in UnreadOf({d \in Days : d < path}) : ended[r] >= page.hi}
  /\ UNCHANGED <<listener, fails, tail, dedup, ckpt, told, stops>>

\* The first error ends the recovery; a parquet that is not complete is one.
RecoverGiveUp ==
  /\ ex = "recover"
  /\ \/ PageDays \cap broken # {} /\ UNCHANGED fails
     \/ fails < MaxFails /\ fails' = fails + 1
  /\ LeaveRecovery
  /\ told' = told \cup UnreadOf({d \in Days : d < path})
  /\ UNCHANGED <<listener, tail, dup, seenBy, ckpt, missed, stops>>
-----------------------------------------------------------------------------
(***************************************************************************)
(* tailLoop and readFrom                                                   *)
(***************************************************************************)
\* Mutant: the offset of the old file is kept.
SwitchKeepingOffset(d) ==
  /\ path' = d /\ UNCHANGED off
  /\ DropDedup
  /\ PersistAt(d, off)

SwitchTo(d) ==
  /\ path' = d /\ off' = 0
  /\ DropDedup
  /\ PersistAt(d, 0)

\* The file of a past day is gone before its end was read: this is logged.
LoopGone ==
  /\ ex = "loop" /\ path # Day(now) /\ path \notin jsonl
  /\ SwitchTo(Day(now))
  /\ told' = told \cup UnreadOf(path .. (Day(now) - 1))
  /\ UNCHANGED <<listener, ex, top, count, held, page, seenBy, missed, stops>>

LoopOpen ==
  /\ ex = "loop" /\ path \in jsonl
  /\ ex' = "read" /\ top' = Day(now) /\ count' = 0
  /\ UNCHANGED <<listener, fails, path, off, held, page, dup, seenBy, ckpt, given, stops>>

Content == IF held # None THEN held ELSE file[path]

\* handleLine, then the offset.
ReadLine ==
  /\ ex = "read" /\ off < Len(Content)
  /\ LET r == Content[off + 1]
     IN IF dedup /\ r \in seen THEN UNCHANGED seenBy ELSE Observe(r) /\ UNCHANGED early
  /\ off' = off + 1 /\ count' = count + 1
  /\ IF (count + 1) % PersistEvery = 0 THEN PersistAt(path, off + 1) ELSE UNCHANGED <<ckpt, fails>>
  /\ UNCHANGED <<listener, ex, path, top, held, page, dup, given, stops>>

LeaveFile == ex' = "loop" /\ top' = None /\ count' = 0 /\ held' = None

\* End of file after new lines: saved, and once more round the loop.
ReadEndMore ==
  /\ ex = "read" /\ off >= Len(Content) /\ count > 0
  /\ LeaveFile
  /\ PersistAt(path, off)
  /\ UNCHANGED <<listener, path, off, page, dup, seenBy, given, stops>>

\* End of file and nothing new: today's file is waited for, a past day's left.
ReadEndNone ==
  /\ ex = "read" /\ off >= Len(Content) /\ count = 0
  /\ LeaveFile
  /\ IF path = top
       THEN /\ DropDedup
            /\ UNCHANGED <<path, off, ckpt, fails, told>>
       ELSE /\ SwitchTo(top)
            /\ told' = told \cup UnreadOf((path + 1) .. (top - 1))
  /\ UNCHANGED <<listener, page, seenBy, missed, stops>>

\* A read error ends readFrom where it is, the lines so far are saved.
ReadError ==
  /\ ex = "read" /\ fails < MaxFails
  /\ fails' = fails + 1
  /\ LeaveFile
  /\ ckpt' = IF count > 0 THEN [day |-> path, off |-> off] ELSE ckpt
  /\ UNCHANGED <<listener, path, off, page, dup, seenBy, given, stops>>
-----------------------------------------------------------------------------
EndLife ==
  /\ stops < MaxStops /\ stops' = stops + 1
  /\ ex' = "down" /\ path' = None /\ off' = 0
  /\ top' = None /\ count' = 0 /\ held' = None
  /\ page' = NoPage /\ seen' = {} /\ dedup' = FALSE
  /\ obs' = [r \in Rows |-> 0] /\ early' = {} /\ UNCHANGED ever

Kill ==
  /\ ex # "down"
  /\ EndLife
  /\ UNCHANGED <<listener, fails, ckpt, given>>

\* SIGTERM: seen at the top of tailLoop, while it waits there, and between the
\* pages of a recovery, which then goes on to the top of tailLoop.
Terminate ==
  /\ ex \in {"loop", "recover"}
  /\ EndLife
  /\ PersistAt(path, off)
  /\ missed' = IF ex = "recover" THEN missed \cup UnreadOf({d \in Days : d < path}) ELSE missed
  /\ UNCHANGED <<listener, told>>

\* A file removed while it is open stays readable.
ListenerStep ==
  /\ StoreNext
  /\ held' = IF ex = "read" /\ held = None /\ path \in jsonl \ jsonl'
               THEN file[path] ELSE held
  /\ UNCHANGED <<ex, path, off, top, count, page, dup, seenBy, ckpt, given, stops>>

ExporterStep ==
  \/ StartFresh \/ StartResume \/ StartRecovery
  \/ RecoverPage \/ RecoverGiveUp
  \/ LoopGone \/ LoopOpen \/ ReadLine \/ ReadEndMore \/ ReadEndNone \/ ReadError

Next == ListenerStep \/ ExporterStep \/ Kill \/ Terminate

Spec == Init /\ [][Next]_vars
-----------------------------------------------------------------------------
Position(r) == CHOOSE i \in 1..Len(file[stamp[r]]) : file[stamp[r]][i] = r

\* Will the tailer still come to row r from row o of the file of day d?
Ahead(r, d, o) ==
  \/ stamp[r] > d
  \/ stamp[r] = d /\ d \in jsonl /\ Position(r) > o

TypeOK ==
  /\ StoreTypeOK
  /\ ex \in {"down", "recover", "loop", "read"}
  /\ path \in Days \cup {None} /\ top \in Days \cup {None}
  /\ (path = None) = (ex = "down") /\ (top = None) = (ex # "read")
  /\ off \in 0..NRows /\ count \in 0..NRows
  /\ held \in Seq(Rows) \cup {None}
  /\ page \in [from : -1..MaxTime, hi : -Lag..MaxTime, after : Rows \cup {None}]
  /\ seen \subseteq Rows /\ dedup \in BOOLEAN /\ (seen # {} => dedup)
  /\ obs \in [Rows -> 0..2] /\ ever \subseteq Rows
  /\ early \subseteq Rows /\ told \subseteq Rows /\ missed \subseteq Rows
  /\ ckpt \in [day : Days, off : 0..NRows] \cup {None}
  /\ stops \in 0..MaxStops

\* tail.go 23: the rows of a recovery are skipped when today's file is read
\* again, so no life of the exporter counts a row twice.  The one exception:
\* a recovery that runs past midnight also reads the file of the new day, and
\* the change to that file forgets which rows were read (tail.go 121, 130).
OncePerLife == \A r \in Rows : obs[r] <= IF r \in early THEN 2 ELSE 1

\* checkpoint.go 10: "only the position already observed, never ahead of it":
\* every line before the saved offset has been observed, whatever was
\* interrupted.
CheckpointBehind ==
  ckpt # None /\ slips = 0 =>
    \A i \in 1..Len(file[ckpt.day]) : i <= ckpt.off => file[ckpt.day][i] \in ever

\* The same with the types: the saved offset is one of the saved file.
CheckpointSound == TypeOK /\ CheckpointBehind

\* Every written row but those of S has been observed or lies ahead of the
\* running tailer: in what it has open, in its file, in a later file; or its
\* file is gone and the tailer is about to notice.
Accounted(S) ==
  ex \in {"loop", "read"} /\ slips = 0 =>
    \A r \in Unread \ S :
      \/ Ahead(r, path, off)
      \/ held # None /\ \E i \in (off + 1)..Len(held) : held[i] = r
      \/ stamp[r] = path /\ path # Day(now) /\ path \notin jsonl

\* The ways a tailer can pass over a row are those recorded in told (past days
\* of a first start, a file that vanished under a tailer a day behind, a whole
\* day between the file that was followed and today, a recovery that gave up)
\* and in missed (the last Lag ticks before a recovery, a recovery cut short by
\* SIGTERM).  No crash, day change, rotation or page boundary adds another.
OnlyKnownLosses == Accounted(told \cup missed)

\* tail.go 76: the recovery fetches from a day before the checkpoint's file and
\* "never misses" a row.
RecoveryComplete == Accounted(told)
=============================================================================
