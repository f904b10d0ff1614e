---------------------------- MODULE DetailsStore ----------------------------
(***************************************************************************)
(* The per-request details of bodylog-listener-go (main.go): detailsWriter *)
(* appends a row to metrics/details/<day>.jsonl, and rotateDetails, at the *)
(* end of a pass of housekeep, turns the jsonl of past days into parquet.  *)
(*                                                                         *)
(* A row carries the time its request ended; its file is the day on which  *)
(* the writer read the clock.  The clock is read before the mutex is       *)
(* taken.  Passes of housekeep exclude each other; when one starts is the  *)
(* subject of DayArchive, so here one may start at any time.  A frame      *)
(* reaches the listener on the day its request ended or on the next one    *)
(* (what httpapi.go 316 allows for), duckDB is there, and no day reaches   *)
(* the end of the details retention.                                       *)
(***************************************************************************)
EXTENDS Integers, Sequences, SequencesExt

CONSTANTS
  FirstTime,   \* the clock at first
  MaxTime,     \* bound: it runs to MaxTime
  DayLen,      \* ticks of a day
  NRows,       \* rows are 1..NRows, in the order of their request ids
  MaxSlips,    \* bound: rows whose clock reading is carried over midnight
  MaxFails,    \* bound: operations that fail and stops of the listener
  None

ASSUME StoreAssumption ==
  /\ MaxTime \in Nat /\ FirstTime \in 0..MaxTime /\ DayLen \in Nat \ {0} /\ NRows \in Nat
  /\ MaxSlips \in Nat /\ MaxFails \in Nat
  /\ None \notin Int

Times    == 0..MaxTime
Rows     == 1..NRows
Day(t)   == t \div DayLen
Days     == {Day(t) : t \in Times}

VARIABLES
  now,      \* the clock
  status,   \* row -> "open" (its request runs), "ended", "pending" (clock
            \* read), "written" or "dropped"
  ended,    \* row -> ts_end of its request
  stamp,    \* row -> the day its writer read
  wDay,     \* detailsWriter.day, None at first
  wNamed,   \* does the open file of detailsWriter still have its name
  jsonl,    \* days with a <day>.jsonl
  file,     \* day -> the rows of its jsonl, in order
  parquet,  \* days with a <day>.parquet
  broken,   \* those whose parquet is not complete
  packed,   \* day -> the rows of its parquet
  rot,      \* where the running pass of rotateDetails is
  todo,     \* jsonl days it has still to visit
  today,    \* its today
  src,      \* the day it converts
  slips, fails,
  torn      \* history: did the listener die in a COPY

writer == <<status, ended, stamp, wDay, wNamed>>
store  == <<jsonl, file, parquet, broken, packed>>
pass   == <<rot, todo, today, src>>
storeVars == <<now, writer, store, pass, slips, fails, torn>>

RowsOf(d) == ToSet(file[d])
-----------------------------------------------------------------------------
StoreInit ==
  /\ now = FirstTime
  /\ status = [r \in Rows |-> "open"]
  /\ ended = [r \in Rows |-> None] /\ stamp = [r \in Rows |-> None]
  /\ wDay = None /\ wNamed = FALSE
  /\ jsonl = {} /\ file = [d \in Days |-> <<>>]
  /\ parquet = {} /\ broken = {} /\ packed = [d \in Days |-> {}]
  /\ rot = "idle" /\ todo = {} /\ today = None /\ src = None
  /\ slips = 0 /\ fails = 0 /\ torn = FALSE

Tick ==
  /\ now < MaxTime
  /\ now' = now + 1
  /\ slips' = IF Day(now + 1) # Day(now) /\ \E r \in Rows : status[r] = "pending"
                THEN slips + 1 ELSE slips
  /\ slips' <= MaxSlips
  /\ UNCHANGED <<writer, store, pass, fails, torn>>

\* The request ends; its frame is on the way to the listener.
End(r) ==
  /\ status[r] = "open"
  /\ status' = [status EXCEPT ![r] = "ended"]
  /\ ended' = [ended EXCEPT ![r] = now]
  /\ UNCHANGED <<now, stamp, wDay, wNamed, store, pass, slips, fails, torn>>
-----------------------------------------------------------------------------
(***************************************************************************)
(* detailsWriter.write                                                     *)
(***************************************************************************)
ReadClock(r) ==
  /\ status[r] = "ended" /\ Day(now) <= Day(ended[r]) + 1
  /\ status' = [status EXCEPT ![r] = "pending"]
  /\ stamp' = [stamp EXCEPT ![r] = Day(now)]
  /\ UNCHANGED <<now, ended, wDay, wNamed, store, pass, slips, fails, torn>>

\* A row for another day than the open file's opens the file of that day; a
\* row for a file that was removed under the writer goes nowhere.
Write(r) ==
  LET d == stamp[r]
      opens == wDay # d
      named == opens \/ wNamed
  IN
  /\ status[r] = "pending"
  /\ wDay' = d /\ wNamed' = named
  /\ jsonl' = IF opens THEN jsonl \cup {d} ELSE jsonl
  /\ file' = IF named THEN [file EXCEPT ![d] = Append(@, r)] ELSE file
  /\ status' = [status EXCEPT ![r] = "written"]
  /\ UNCHANGED <<now, ended, stamp, parquet, broken, packed, pass, slips, fails, torn>>

\* processFrame only logs an error.  The file of the previous day is closed
\* before the next one is opened, so a failed open leaves no file to write to;
\* the append may fail on a file that was open or that this row has opened.
WriteError(r) ==
  /\ status[r] = "pending" /\ fails < MaxFails
  /\ fails' = fails + 1
  /\ status' = [status EXCEPT ![r] = "dropped"]
  /\ \/ /\ wDay = stamp[r] /\ UNCHANGED <<wDay, wNamed, jsonl>>
     \/ /\ wDay # stamp[r] /\ wNamed' = FALSE /\ UNCHANGED <<wDay, jsonl>>
     \/ /\ wDay # stamp[r] /\ wDay' = stamp[r] /\ wNamed' = TRUE
        /\ jsonl' = jsonl \cup {stamp[r]}
  /\ UNCHANGED <<now, ended, stamp, file, parquet, broken, packed, pass, slips, torn>>
-----------------------------------------------------------------------------
(***************************************************************************)
(* rotateDetails: the directory is read before the clock.                  *)
(***************************************************************************)
RotList ==
  /\ rot = "idle" /\ jsonl # {}
  /\ todo' = jsonl
  /\ rot' = "list"
  /\ UNCHANGED <<now, writer, store, today, src, slips, fails, torn>>

RotToday ==
  /\ rot = "list"
  /\ today' = Day(now)
  /\ rot' = "next"
  /\ UNCHANGED <<now, writer, store, todo, src, slips, fails, torn>>

\* The next jsonl in the order of ReadDir.  Today's is left alone.  A day
\* that has a parquet loses its jsonl; any other day is converted.
RotVisit ==
  /\ rot = "next"
  /\ \E d \in todo :
       /\ \A c \in todo : d <= c
       /\ todo' = todo \ {d}
       /\ IF d = today THEN UNCHANGED <<rot, src, parquet, broken, packed>>
          ELSE /\ src' = d
               /\ IF d \in parquet
                    THEN rot' = "remove" /\ UNCHANGED <<parquet, broken, packed>>
                    ELSE /\ rot' = "copy"
                         /\ parquet' = parquet \cup {d}
                         /\ broken' = broken \cup {d}
                         /\ packed' = [packed EXCEPT ![d] = RowsOf(d)]
  /\ UNCHANGED <<now, writer, jsonl, file, today, slips, fails, torn>>

\* COPY has written the parquet; its rows are those the file had at the start.
RotCopied ==
  /\ rot = "copy"
  /\ broken' = broken \ {src}
  /\ rot' = "remove"
  /\ UNCHANGED <<now, writer, jsonl, file, parquet, packed, todo, today, src, slips, fails, torn>>

\* Mutant: the failed conversion goes on to the removal.
RotCopyFailRemoves ==
  /\ rot = "copy" /\ fails < MaxFails
  /\ fails' = fails + 1
  /\ parquet' = parquet \ {src} /\ broken' = broken \ {src}
  /\ packed' = [packed EXCEPT ![src] = {}]
  /\ rot' = "remove"
  /\ UNCHANGED <<now, writer, jsonl, file, todo, today, src, slips, torn>>

\* COPY fails: its output is removed and the jsonl stays.
RotCopyFail ==
  /\ rot = "copy" /\ fails < MaxFails
  /\ fails' = fails + 1
  /\ parquet' = parquet \ {src} /\ broken' = broken \ {src}
  /\ packed' = [packed EXCEPT ![src] = {}]
  /\ rot' = "next"
  /\ UNCHANGED <<now, writer, jsonl, file, todo, today, src, slips, torn>>

RotRemove ==
  /\ rot = "remove"
  /\ jsonl' = jsonl \ {src}
  /\ file' = [file EXCEPT ![src] = <<>>]
  /\ wNamed' = (wNamed /\ wDay # src)
  /\ rot' = "next"
  /\ UNCHANGED <<now, status, ended, stamp, wDay, parquet, broken, packed, todo, today, src,
                 slips, fails, torn>>

RotEnd ==
  /\ rot = "next" /\ todo = {}
  /\ rot' = "idle" /\ today' = None /\ src' = None
  /\ UNCHANGED <<now, writer, store, todo, slips, fails, torn>>

\* The listener is killed and starts again.  A COPY that was running leaves
\* part of a parquet file under its final name.
Crash ==
  /\ fails < MaxFails
  /\ fails' = fails + 1
  /\ status' = [r \in Rows |-> IF status[r] = "pending" THEN "dropped" ELSE status[r]]
  /\ wDay' = None /\ wNamed' = FALSE
  /\ rot' = "idle" /\ todo' = {} /\ today' = None /\ src' = None
  /\ torn' = (torn \/ rot = "copy")
  /\ UNCHANGED <<now, ended, stamp, store, slips>>

StoreNext ==
  \/ Tick
  \/ \E r \in Rows : End(r) \/ ReadClock(r) \/ Write(r) \/ WriteError(r)
  \/ RotList \/ RotToday \/ RotVisit \/ RotCopied \/ RotCopyFail \/ RotRemove \/ RotEnd
  \/ Crash
-----------------------------------------------------------------------------
StoreTypeOK ==
  /\ now \in Times
  /\ status \in [Rows -> {"open", "ended", "pending", "written", "dropped"}]
  /\ ended \in [Rows -> Times \cup {None}]
  /\ stamp \in [Rows -> Days \cup {None}]
  /\ wDay \in Days \cup {None} /\ wNamed \in BOOLEAN
  /\ wNamed => wDay \in jsonl
  /\ jsonl \in SUBSET Days
  /\ file \in [Days -> Seq(Rows)]
  /\ \A d \in Days \ jsonl : file[d] = <<>>
  /\ parquet \in SUBSET Days /\ broken \in SUBSET parquet
  /\ packed \in [Days -> SUBSET Rows]
  /\ rot \in {"idle", "list", "next", "copy", "remove"}
  /\ todo \in SUBSET Days
  /\ today \in Days \cup {None} /\ src \in Days \cup {None}
  /\ slips \in 0..MaxSlips /\ fails \in 0..MaxFails
  /\ torn \in BOOLEAN

\* Rows somebody can read: those of a jsonl and those of a complete parquet.
Stored == (UNION {RowsOf(d) : d \in jsonl}) \cup (UNION {packed[d] : d \in parquet \ broken})

\* "COPY ..., and the jsonl is removed after success" (main.go 783): a written
\* row stays in a jsonl or in a parquet that can be read, whatever fails and
\* whenever the listener restarts, unless it died inside a COPY (the next pass
\* takes the torn parquet for a finished one) or a clock reading was carried
\* over midnight.
RowsKept ==
  ~torn /\ slips = 0 => \A r \in Rows : status[r] = "written" => r \in Stored
=============================================================================
