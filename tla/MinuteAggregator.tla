-------------------------- MODULE MinuteAggregator --------------------------
(***************************************************************************)
(* The per-minute aggregator of bodylog-listener-go (main.go): ingest,     *)
(* flushClosedMinutes, appendToFile and reload.                            *)
(*                                                                         *)
(* A bucket belongs to a minute and a key (peer, stream).  Of its fields   *)
(* the model keeps two sums: "req" (Requests; the status, token, byte and  *)
(* rt sums are handled alike) and "frt" (FrtN; FrtSumMs alike).  A bucket  *)
(* exists exactly when it has counted a request, so maps of buckets are    *)
(* functions on cells that are 0 where there is no bucket; the Go code's   *)
(* zero value of a missing map entry is the same 0.                        *)
(*                                                                         *)
(* Time is in half minutes: minute m starts at 2 * m.                      *)
(***************************************************************************)
EXTENDS Integers

CONSTANTS
  MaxMinute,    \* bound: minutes 0..MaxMinute
  MaxTime,      \* bound: half minutes
  Keys,         \* (peer, stream) pairs
  KeepMin,      \* archiveKeepMin
  DayLen,       \* minutes of a day
  DayStart,     \* minutes of the first day before minute 0
  MaxIngests,   \* bound: entries ingested
  MaxRestarts,  \* bound: restarts of the listener
  MaxFails      \* bound: failed appends

ASSUME ConstAssumption ==
  /\ MaxMinute \in Nat /\ MaxTime \in Nat
  /\ KeepMin \in Nat \ {0} /\ DayLen \in Nat \ {0} /\ DayStart \in Nat
  /\ MaxIngests \in Nat /\ MaxRestarts \in Nat /\ MaxFails \in Nat

Minutes == 0..MaxMinute
Fields  == {"req", "frt"}
Cells   == [m : Minutes, k : Keys, f : Fields]
Day(m)  == (m + DayStart) \div DayLen
Days    == {Day(m) : m \in Minutes}

VARIABLES
  now,       \* the clock, in half minutes
  active,    \* a.active
  archive,   \* a.archive and a.archiveIdx
  written,   \* a.archiveLastWritten
  dirty,     \* a.archiveDirty: minutes and keys
  flushing,  \* where flushClosedMinutes is
  closed,    \* its local closed: lines still to append
  deltas,    \* its local dirty
  disk,      \* metrics/<day>.jsonl: the sum of a cell's lines
  ingested,  \* history: what was ingested
  lost,      \* history: what a failed append or a stop lost
  ingests, restarts, fails

memory  == <<active, archive, written, dirty>>
flush   == <<flushing, closed, deltas>>
history == <<ingested, lost, ingests, restarts, fails>>
vars    == <<now, memory, flush, disk, history>>

Zero == [c \in Cells |-> 0]

\* The request count of the bucket a cell belongs to, and whether a map has
\* the minute at all.
Req(c)          == [c EXCEPT !.f = "req"]
Slot(c)         == <<c.m, c.k>>
HasMinute(b, m) == \E c \in Cells : c.m = m /\ b[c] > 0
-----------------------------------------------------------------------------
Init ==
  /\ now = 0
  /\ active = Zero /\ archive = Zero /\ written = Zero /\ dirty = {}
  /\ flushing = "idle" /\ closed = Zero /\ deltas = Zero
  /\ disk = Zero
  /\ ingested = Zero /\ lost = Zero
  /\ ingests = 0 /\ restarts = 0 /\ fails = 0

Tick ==
  /\ now < MaxTime
  /\ now' = now + 1
  /\ UNCHANGED <<memory, flush, disk, history>>

\* b with one entry of minute m and key k added, with a first chunk or not.
Count(b, m, k, hasFrt) ==
  [c \in Cells |-> IF c.m = m /\ c.k = k /\ (c.f = "req" \/ hasFrt)
                     THEN b[c] + 1 ELSE b[c]]

(***************************************************************************)
(* ingest: the bucket of the active minute, else of the archived minute    *)
(* (a late entry), else a new active minute.  An entry ends at or before   *)
(* its ingestion, however much earlier.                                    *)
(***************************************************************************)
Ingest(m, k, hasFrt) ==
  /\ ingests < MaxIngests /\ 2 * m <= now
  /\ IF ~HasMinute(active, m) /\ HasMinute(archive, m)
       THEN /\ archive' = Count(archive, m, k, hasFrt)
            /\ dirty' = dirty \cup {<<m, k>>}
            /\ UNCHANGED active
       ELSE /\ active' = Count(active, m, k, hasFrt)
            /\ UNCHANGED <<archive, dirty>>
  /\ ingested' = Count(ingested, m, k, hasFrt)
  /\ ingests' = ingests + 1
  /\ UNCHANGED <<now, written, flush, disk, lost, restarts, fails>>

(***************************************************************************)
(* flushClosedMinutes under the lock: buckets of minutes before now - 90s  *)
(* move to the archive and are to be written in full; late counts of       *)
(* archived buckets are to be written as deltas, for the fields the delta  *)
(* has; then minutes before now - KeepMin leave the archive.               *)
(***************************************************************************)
Closing(c) == 2 * c.m < now - 3 /\ active[Req(c)] > 0
Evicted(c) == 2 * c.m < now - 2 * KeepMin
IsDirty(c) == Slot(c) \in dirty /\ ~Closing(c)

\* Variant: a late bucket is written with its running total.
DeltaTotal(c) == IF IsDirty(c) /\ c.f = "req" THEN archive[c] ELSE 0

Delta(c) == IF IsDirty(c) /\ c.f = "req" THEN archive[c] - written[c] ELSE 0

\* Variant: minutes leave the archive before the deltas are taken.
FlushEvictFirst ==
  /\ flushing = "idle"
  /\ closed'  = [c \in Cells |-> IF Closing(c) THEN active[c] ELSE 0]
  /\ deltas'  = [c \in Cells |-> IF Evicted(c) THEN 0 ELSE Delta(c)]
  /\ archive' = [c \in Cells |-> IF Evicted(c) THEN 0
                                 ELSE IF Closing(c) THEN active[c] ELSE archive[c]]
  /\ written' = [c \in Cells |-> IF Evicted(c) THEN 0
                                 ELSE IF Closing(c) THEN active[c]
                                 ELSE IF IsDirty(c) THEN archive[c] ELSE written[c]]
  /\ active'  = [c \in Cells |-> IF Closing(c) THEN 0 ELSE active[c]]
  /\ dirty'   = {}
  /\ flushing' = "append"
  /\ UNCHANGED <<now, disk, history>>

\* Variant: a minute too many leaves the archive.
FlushEvictEarly ==
  /\ flushing = "idle"
  /\ closed'  = [c \in Cells |-> IF Closing(c) THEN active[c] ELSE 0]
  /\ deltas'  = [c \in Cells |-> Delta(c)]
  /\ archive' = [c \in Cells |-> IF 2 * c.m <= now - 2 * KeepMin THEN 0
                                 ELSE IF Closing(c) THEN active[c] ELSE archive[c]]
  /\ written' = [c \in Cells |-> IF 2 * c.m <= now - 2 * KeepMin THEN 0
                                 ELSE IF Closing(c) THEN active[c]
                                 ELSE IF IsDirty(c) THEN archive[c] ELSE written[c]]
  /\ active'  = [c \in Cells |-> IF Closing(c) THEN 0 ELSE active[c]]
  /\ dirty'   = {}
  /\ flushing' = "append"
  /\ UNCHANGED <<now, disk, history>>

Flush ==
  /\ flushing = "idle"
  /\ closed'  = [c \in Cells |-> IF Closing(c) THEN active[c] ELSE 0]
  /\ deltas'  = [c \in Cells |-> Delta(c)]
  /\ archive' = [c \in Cells |-> IF Evicted(c) THEN 0
                                 ELSE IF Closing(c) THEN active[c] ELSE archive[c]]
  /\ written' = [c \in Cells |-> IF Evicted(c) THEN 0
                                 ELSE IF Closing(c) THEN active[c]
                                 ELSE IF IsDirty(c) THEN archive[c] ELSE written[c]]
  /\ active'  = [c \in Cells |-> IF Closing(c) THEN 0 ELSE active[c]]
  /\ dirty'   = {}
  /\ flushing' = "append"
  /\ UNCHANGED <<now, disk, history>>

\* appendToFile(lines): the file of each day is opened and written on its
\* own; the days in bad cannot be.
Written(lines, bad, c) == IF Day(c.m) \in bad THEN 0 ELSE lines[c]

Append(lines, bad) ==
  /\ disk' = [c \in Cells |-> disk[c] + Written(lines, bad, c)]
  /\ lost' = [c \in Cells |-> lost[c] + lines[c] - Written(lines, bad, c)]
  /\ fails' = IF bad = {} THEN fails ELSE fails + 1
  /\ UNCHANGED <<now, memory, ingested, ingests, restarts>>

BadDays == {bad \in SUBSET Days : bad = {} \/ fails < MaxFails}

AppendClosed ==
  /\ flushing = "append"
  /\ \E bad \in BadDays : Append(closed, bad)
  /\ flushing' = "appendDirty" /\ closed' = Zero
  /\ UNCHANGED deltas

AppendDirty ==
  /\ flushing = "appendDirty"
  /\ \E bad \in BadDays : Append(deltas, bad)
  /\ flushing' = "idle" /\ deltas' = Zero
  /\ UNCHANGED closed

\* What memory has still to write to the files.
Unwritten(c) ==
  active[c] + closed[c] + deltas[c]
    + IF Slot(c) \in dirty THEN archive[c] - written[c] ELSE 0

(***************************************************************************)
(* The listener stops, at any point, and starts again: reload merges the   *)
(* lines of the current day into the archive.                              *)
(***************************************************************************)
Restart ==
  /\ restarts < MaxRestarts
  /\ restarts' = restarts + 1
  /\ lost' = [c \in Cells |-> lost[c] + Unwritten(c)]
  /\ active' = Zero /\ written' = Zero /\ dirty' = {}
  /\ archive' = [c \in Cells |-> IF Day(c.m) = Day(now \div 2) THEN disk[c] ELSE 0]
  /\ flushing' = "idle" /\ closed' = Zero /\ deltas' = Zero
  /\ UNCHANGED <<now, disk, ingested, ingests, fails>>

Next ==
  \/ Tick
  \/ \E m \in Minutes, k \in Keys, hasFrt \in BOOLEAN : Ingest(m, k, hasFrt)
  \/ Flush
  \/ AppendClosed
  \/ AppendDirty
  \/ Restart

Spec == Init /\ [][Next]_vars
-----------------------------------------------------------------------------
(***************************************************************************)
(* Properties                                                              *)
(***************************************************************************)
TypeOK ==
  /\ now \in 0..MaxTime
  /\ active \in [Cells -> Nat]
  /\ archive \in [Cells -> Nat]
  /\ written \in [Cells -> Nat]
  /\ dirty \in SUBSET (Minutes \X Keys)
  /\ flushing \in {"idle", "append", "appendDirty"}
  /\ closed \in [Cells -> Nat]
  /\ deltas \in [Cells -> Nat]
  /\ disk \in [Cells -> Nat]
  /\ ingested \in [Cells -> Nat]
  /\ lost \in [Cells -> Nat]
  /\ ingests \in 0..MaxIngests /\ restarts \in 0..MaxRestarts /\ fails \in 0..MaxFails

ReqCells == {c \in Cells : c.f = "req"}

\* ingest: one bucket per minute and key, never one in the active map and a
\* second one in the archive.
OneBucket == \A m \in Minutes : ~(HasMinute(active, m) /\ HasMinute(archive, m))

\* flushClosedMinutes: "the first line plus the deltas equal the current
\* total", so that a reload finds what memory held.
DeltasAddUp ==
  flushing = "idle" /\ fails = 0 =>
    \A c \in ReqCells : Slot(c) \notin dirty /\ HasMinute(archive, c.m) /\ ~Evicted(c)
      => disk[c] = archive[c]

\* The same for a process that was never restarted.
FilesMatchMemory == restarts = 0 => DeltasAddUp

\* No request disappears between ingestion and the files, whatever is late,
\* evicted or restarted: it is in a file, still to be written, or lost by a
\* failed append or a stop.
NothingVanishes ==
  \A c \in ReqCells : ingested[c] <= disk[c] + Unwritten(c) + lost[c]

\* /summary is complete: as long as the process runs, memory holds everything
\* ingested for the minutes of the last KeepMin minutes.
WindowComplete ==
  restarts = 0 => \A c \in Cells :
    2 * c.m >= now - 2 * KeepMin => active[c] + archive[c] = ingested[c]
=============================================================================
