------------------------------ MODULE Retention ------------------------------
(***************************************************************************)
(* Retention of finished data in bodylog-listener-go (retention.go): a     *)
(* pass of prune lists the files it may delete, deletes the expired ones,  *)
(* and, when the disk is too full, the oldest of the others, as many as    *)
(* their sizes say are needed.  Around it housekeep converts and packs     *)
(* (main.go), the disk fills, and the file system shows the space of a     *)
(* deleted file late.                                                      *)
(*                                                                         *)
(* A file is a kind and a day: "tar" is <day>.tar.gz, "gz" the legacy      *)
(* <day>.jsonl.gz and "raw" its source; "jsonl" and "parquet" are the      *)
(* details.  Sizes and the disk are in units; today's data, directories    *)
(* not packed yet and other tenants are one number, other.                 *)
(*                                                                         *)
(* Days change at any time.  The cooldown, the pause between passes and    *)
(* the delay of freed space are in ticks, and a pass takes less than one.  *)
(***************************************************************************)
EXTENDS Integers, FiniteSets

CONSTANTS
  InitFiles,     \* what is on the disk at first
  KeepDays, DetailsKeepDays,
  ArchiveSize, DetailsSize,
  Limit,         \* total * diskUsagePct / 100
  Others,        \* values of other
  Cooldown,      \* diskCooldown
  Interval,      \* BODYLOG_PRUNE_INTERVAL_SECONDS
  Lag,           \* freed space shows after at most this long
  FirstDay,      \* the day at first
  MaxDay,        \* bound: days are 0..MaxDay
  MaxEvents      \* bound: changes of other, failed operations and restarts

Kinds == {"tar", "gz", "raw", "jsonl", "parquet"}
Days  == 0..MaxDay
Files == [kind : Kinds, day : Days]
NoFile == [kind |-> "none", day |-> 0]

ASSUME RetentionAssumption ==
  /\ InitFiles \subseteq Files
  /\ KeepDays \in Nat /\ DetailsKeepDays \in Nat
  /\ ArchiveSize \in Nat \ {0} /\ DetailsSize \in Nat \ {0}
  /\ Limit \in Nat /\ Others \subseteq Nat /\ Others # {}
  /\ Cooldown \in Nat /\ Interval \in Nat \ {0} /\ Lag \in Nat
  /\ MaxDay \in Nat /\ FirstDay \in Days /\ MaxEvents \in Nat

\* What diskCooldown is there for (retention.go 58-59): the space of a batch
\* has shown up when the next one is considered.
ASSUME CooldownAssumption == Lag < Cooldown

VARIABLES
  today,     \* the day
  files,     \* the files on disk
  other,     \* space used by everything else
  dirs,      \* days whose directory is not packed yet
  pending,   \* deleted files whose space statfs still shows: for how long,
             \* and which step of prune deleted them
  duckDB,    \* is there a duckDB
  hk,        \* the day the last pass of housekeep began
  conv,      \* the file housekeep converts
  pc,        \* where prune is
  names,     \* what its ReadDir returned
  aCut, dCut,\* its cutoffs
  expired, left, \* its candidates, by age
  ageFreed, freed, need,
  raced,     \* history: housekeep has removed a file of left
  until,     \* ticks until the next pass
  since,     \* ticks since lastDiskBatch, at most Cooldown
  changes, fails, restarts,
  oversized  \* history: batches that count space of an earlier batch

env   == <<today, other, duckDB, changes>>
house == <<dirs, hk, conv>>
locals == <<names, aCut, dCut, expired, left, ageFreed, freed, need, raced>>
clock == <<until, since>>
vars  == <<env, files, pending, house, pc, locals, clock, fails, restarts, oversized>>

IsDetails(f) == f.kind \in {"jsonl", "parquet"}
Size(f)      == IF IsDetails(f) THEN DetailsSize ELSE ArchiveSize
SizeOf(S)    == ArchiveSize * Cardinality({f \in S : ~IsDetails(f)})
                  + DetailsSize * Cardinality({f \in S : IsDetails(f)})

\* What a conversion writes, in place, and the file it makes superfluous.
Output(f) == [f EXCEPT !.kind = IF f.kind = "raw" THEN "gz" ELSE "parquet"]
Source(f) == [f EXCEPT !.kind = IF f.kind = "gz" THEN "raw" ELSE "jsonl"]

\* The space in use, and what statfs says is in use.
Used    == SizeOf(files) + other
Visible == Used + SizeOf({p.file : p \in pending})

\* Space an age step has freed in an earlier pass, and that still shows.
OldAgeFreed == SizeOf({p.file : p \in {q \in pending : q.by = "age" /\ q.age > 0}})
-----------------------------------------------------------------------------
Quiet == changes + fails + restarts < MaxEvents

\* prune returns.
Return ==
  /\ pc' = "idle" /\ names' = {} /\ expired' = {} /\ left' = {}
  /\ aCut' = 0 /\ dCut' = 0 /\ ageFreed' = 0 /\ freed' = 0 /\ need' = 0
  /\ raced' = FALSE

Init ==
  /\ today = FirstDay /\ files = InitFiles /\ other \in Others
  /\ pending = {} /\ duckDB \in BOOLEAN
  /\ dirs = {today} /\ hk = today /\ conv = NoFile
  /\ pc = "idle" /\ names = {} /\ aCut = 0 /\ dCut = 0
  /\ expired = {} /\ left = {} /\ ageFreed = 0 /\ freed = 0 /\ need = 0
  /\ raced = FALSE
  /\ until = 0 /\ since = Cooldown
  /\ changes = 0 /\ fails = 0 /\ restarts = 0 /\ oversized = 0
-----------------------------------------------------------------------------
(***************************************************************************)
(* The surroundings: midnight, other data, and time.  No deleted file's    *)
(* space stays hidden longer than Lag.                                     *)
(***************************************************************************)
Midnight ==
  /\ today < MaxDay
  /\ today' = today + 1 /\ dirs' = dirs \cup {today + 1}
  /\ UNCHANGED <<other, duckDB, changes, files, pending, hk, conv, pc, locals,
                 clock, fails, restarts, oversized>>

Change ==
  /\ Quiet
  /\ other' \in Others \ {other}
  /\ changes' = changes + 1
  /\ UNCHANGED <<today, duckDB, files, pending, house, pc, locals, clock,
                 fails, restarts, oversized>>

Show(p) ==
  /\ p \in pending
  /\ pending' = pending \ {p}
  /\ UNCHANGED <<env, files, house, pc, locals, clock, fails, restarts, oversized>>

Tick ==
  /\ pc = "idle" /\ until > 0
  /\ \A p \in pending : p.age < Lag
  /\ until' = until - 1
  /\ since' = IF since < Cooldown THEN since + 1 ELSE since
  /\ pending' = {[p EXCEPT !.age = @ + 1] : p \in pending}
  /\ UNCHANGED <<env, files, house, pc, locals, fails, restarts, oversized>>
-----------------------------------------------------------------------------
(***************************************************************************)
(* housekeep, as far as it meets prune: it packs past days, and converts a *)
(* legacy file or the details of a past day inside the retention (as of    *)
(* the start of its pass).  A conversion writes its output under the final *)
(* name and removes the source at the end; if it fails it removes the      *)
(* output of a details conversion only.                                    *)
(***************************************************************************)
HousekeepBegin ==
  /\ hk < today /\ conv = NoFile
  /\ hk' = today
  /\ UNCHANGED <<env, files, pending, dirs, conv, pc, locals, clock, fails, restarts, oversized>>

Pack(d) ==
  /\ conv = NoFile /\ d \in dirs \ {hk}
  /\ dirs' = dirs \ {d}
  /\ files' = files \cup {[kind |-> "tar", day |-> d]}
  /\ UNCHANGED <<env, pending, hk, conv, pc, locals, clock, fails, restarts, oversized>>

Convertible(f) ==
  /\ f \in files /\ f.day # hk /\ Output(f) \notin files
  /\ \/ f.kind = "raw"
     \/ f.kind = "jsonl" /\ duckDB /\ f.day >= hk - DetailsKeepDays

ConvertBegin(f) ==
  /\ conv = NoFile /\ Convertible(f)
  /\ conv' = f /\ files' = files \cup {Output(f)}
  /\ UNCHANGED <<env, pending, dirs, hk, pc, locals, clock, fails, restarts, oversized>>

ConvertEnd ==
  /\ conv # NoFile
  /\ conv' = NoFile
  /\ \/ files' = files \ {conv} /\ UNCHANGED fails
     \/ /\ Quiet /\ fails' = fails + 1
        /\ files' = IF conv.kind = "raw" THEN files ELSE files \ {Output(conv)}
  /\ UNCHANGED <<env, pending, dirs, hk, pc, locals, clock, restarts, oversized>>

\* rotateDetails finds a parquet next to the jsonl, left by a crash.  It does
\* not ask for duckDB before it removes the jsonl, so without one that may be
\* a file prune has listed.
DropSource(f) ==
  /\ conv = NoFile /\ f \in files /\ f.kind = "jsonl"
  /\ f.day # hk /\ f.day >= hk - DetailsKeepDays /\ Output(f) \in files
  /\ files' = files \ {f}
  /\ raced' = (raced \/ f \in left)
  /\ UNCHANGED <<env, pending, house, pc, names, aCut, dCut, expired, left,
                 ageFreed, freed, need, clock, fails, restarts, oversized>>
-----------------------------------------------------------------------------
(***************************************************************************)
(* prune.  pruneCandidates reads the directories first and looks at each   *)
(* name afterwards: a file that may still be written is left out, which is *)
(* one whose source is there, or a jsonl that may yet be converted.        *)
(***************************************************************************)
\* Variant: a file is listed although its source is still there.
CandidateUnguarded(f, cut) ==
  /\ f \in files
  /\ \/ f.kind \in {"tar", "gz"}
     \/ f.kind = "parquet" /\ f.day # today
     \/ f.kind = "jsonl" /\ f.day # today /\ (~duckDB \/ f.day < cut)

Candidate(f, cut) ==
  /\ f \in files
  /\ \/ f.kind = "tar"
     \/ f.kind = "gz" /\ Source(f) \notin files
     \/ f.kind = "parquet" /\ f.day # today /\ Source(f) \notin files
     \/ f.kind = "jsonl" /\ f.day # today /\ (~duckDB \/ f.day < cut)

Expired(f) == f.day < IF IsDetails(f) THEN dCut ELSE aCut

PassBegin ==
  /\ pc = "idle" /\ until = 0
  /\ pc' = "list" /\ names' = files /\ until' = Interval
  /\ aCut' = today - KeepDays /\ dCut' = today - DetailsKeepDays
  /\ UNCHANGED <<env, files, pending, house, expired, left, ageFreed, freed,
                 need, raced, since, fails, restarts, oversized>>

List ==
  LET C == {f \in names : Candidate(f, dCut)} IN
  /\ pc = "list"
  /\ expired' = {f \in C : Expired(f)}
  /\ left' = {f \in C : ~Expired(f)}
  /\ pc' = "age" /\ names' = {}
  /\ UNCHANGED <<env, files, pending, house, aCut, dCut, ageFreed, freed, need,
                 raced, clock, fails, restarts, oversized>>

\* Variant: the oldest file goes first, details or not.
BeforeByDate(f, g) ==
  \/ f.day < g.day
  \/ f.day = g.day /\ f.kind \in {"gz", "jsonl"} /\ g.kind \in {"tar", "parquet"}
  \/ f.day = g.day /\ IsDetails(g) /\ ~IsDetails(f)

\* The order of pruneCandidates: archives, then details, oldest first; on
\* the same day by path.
Before(f, g) ==
  \/ ~IsDetails(f) /\ IsDetails(g)
  \/ /\ IsDetails(f) = IsDetails(g)
     /\ \/ f.day < g.day
        \/ f.day = g.day /\ f.kind \in {"gz", "jsonl"} /\ g.kind \in {"tar", "parquet"}

First(S) == CHOOSE f \in S : \A g \in S \ {f} : Before(f, g)

\* os.Remove of a file: it is gone, or was gone, or the call fails.
Remove(f, gain, got) ==
  \/ /\ f \in files
     /\ files' = files \ {f}
     /\ pending' = pending \cup {[file |-> f, age |-> 0, by |-> pc]}
     /\ gain' = got + Size(f) /\ UNCHANGED fails
  \/ /\ f \notin files
     /\ UNCHANGED <<files, pending, fails>> /\ gain' = got
  \/ /\ Quiet /\ fails' = fails + 1
     /\ UNCHANGED <<files, pending>> /\ gain' = got

AgeRemove ==
  /\ pc = "age" /\ expired # {}
  /\ Remove(First(expired), ageFreed, ageFreed)
  /\ expired' = expired \ {First(expired)}
  /\ UNCHANGED <<env, house, pc, names, aCut, dCut, left, freed, need, raced,
                 clock, restarts, oversized>>

AssumedUsed == IF ageFreed >= Visible THEN 0 ELSE Visible - ageFreed

\* Variant: the cooldown is not looked at.
DiskPressureAlways == AssumedUsed >= Limit

DiskPressure == AssumedUsed >= Limit /\ since >= Cooldown

\* Variant: what cannot be enough is deleted all the same.
CanHelpAlways(S, n) == TRUE

CanHelp(S, n) == SizeOf(S) >= n

\* Variant: enough to reach the threshold, not to get below it.
NeedToReach == AssumedUsed - Limit

Need == AssumedUsed - Limit + 1

Measure ==
  /\ pc = "age" /\ expired = {}
  /\ \/ /\ DiskPressure /\ CanHelp(left, Need)
        /\ pc' = "disk" /\ need' = Need
        /\ oversized' = IF Need > Used - Limit + 1 + OldAgeFreed
                          THEN oversized + 1 ELSE oversized
        /\ UNCHANGED <<names, aCut, dCut, expired, left, ageFreed, freed, raced, fails>>
     \/ /\ ~(DiskPressure /\ CanHelp(left, Need))
        /\ Return /\ UNCHANGED <<fails, oversized>>
     \/ /\ Quiet /\ fails' = fails + 1  \* statfs fails
        /\ Return /\ UNCHANGED oversized
  /\ UNCHANGED <<env, files, pending, house, clock, restarts>>

Enough == freed >= need

DiskRemove ==
  /\ pc = "disk" /\ left # {} /\ ~Enough
  /\ Remove(First(left), freed, freed)
  /\ left' = left \ {First(left)}
  /\ UNCHANGED <<env, house, pc, names, aCut, dCut, expired, ageFreed, need,
                 raced, clock, restarts, oversized>>

BatchEnd ==
  /\ pc = "disk" /\ (left = {} \/ Enough)
  /\ Return /\ since' = 0
  /\ UNCHANGED <<env, files, pending, house, until, fails, restarts, oversized>>

\* The listener stops and starts again: what prune knew is forgotten, duckDB
\* opens or does not, and runPrune begins with a pass.
Restart ==
  /\ Quiet
  /\ restarts' = restarts + 1 /\ duckDB' \in BOOLEAN
  /\ hk' = today /\ conv' = NoFile
  /\ Return /\ until' = 0 /\ since' = Cooldown
  /\ UNCHANGED <<today, other, changes, files, pending, dirs, fails, oversized>>

Prune == PassBegin \/ List \/ AgeRemove \/ Measure \/ DiskRemove \/ BatchEnd

Next ==
  \/ Midnight \/ Change \/ Tick \/ Restart
  \/ \E p \in pending : Show(p)
  \/ HousekeepBegin \/ ConvertEnd
  \/ \E d \in dirs : Pack(d)
  \/ \E f \in files : ConvertBegin(f) \/ DropSource(f)
  \/ Prune

\* The ticker fires and a pass goes on; the file system frees space.
Fairness == WF_vars(Prune) /\ WF_vars(Tick) /\ WF_vars(\E p \in pending : Show(p))

Spec == Init /\ [][Next]_vars /\ Fairness
-----------------------------------------------------------------------------
TypeOK ==
  /\ today \in Days /\ dirs \subseteq Days /\ files \subseteq Files /\ other \in Others
  /\ pending \subseteq [file : Files, age : 0..Lag, by : {"age", "disk"}]
  /\ duckDB \in BOOLEAN /\ raced \in BOOLEAN
  /\ hk \in Days /\ conv \in Files \cup {NoFile}
  /\ pc \in {"idle", "list", "age", "disk"}
  /\ names \subseteq Files /\ expired \subseteq Files /\ left \subseteq Files
  /\ aCut \in Int /\ dCut \in Int
  /\ ageFreed \in Nat /\ freed \in Nat /\ need \in Nat
  /\ until \in 0..Interval /\ since \in 0..Cooldown
  /\ changes \in 0..MaxEvents /\ fails \in 0..MaxEvents
  /\ restarts \in 0..MaxEvents /\ oversized \in Nat

(***************************************************************************)
(* Space that a batch frees late is not freed twice: the next batch asks   *)
(* for more than the disk really needs only in the first pass after a      *)
(* restart, which has forgotten the batch before it (retention.go 17-21).  *)
(* The space of an age step is taken off in its own pass; when passes are  *)
(* closer together than Lag a later one still counts it, and by no more.   *)
(***************************************************************************)
DamageBounded == oversized <= restarts

(***************************************************************************)
(* prune never deletes a file housekeep is writing or reading, unless it   *)
(* has left the retention since that conversion began (retention.go 33-37).*)
(***************************************************************************)
KeepsHalfWritten ==
  [][\A f \in files \ files' :
       (conv # NoFile /\ conv' = conv) =>
         f \notin {conv, Output(conv)} \/ Expired(f)]_vars

(***************************************************************************)
(* Disk pressure takes the oldest archive there is, and details only once  *)
(* no archive is left (retention.go 26-30), of those the pass may touch.   *)
(***************************************************************************)
OldestArchiveFirst ==
  [][(pc = "disk" /\ pc' = "disk") =>
       \A f \in left \ left', g \in left' \cap files :
         (IsDetails(f) => IsDetails(g)) /\ (IsDetails(f) = IsDetails(g) => f.day <= g.day)]_vars

(***************************************************************************)
(* All or nothing: a batch that has begun frees what it set out to free,   *)
(* unless a removal fails (retention.go 23-25) or rotateDetails has taken  *)
(* one of its files (main.go 815-816, without duckDB and after a crash).   *)
(***************************************************************************)
BatchSuffices == pc = "disk" /\ left = {} /\ fails = 0 /\ ~raced => freed >= need

\* The same with the types: a batch never sets out to free a negative amount.
BatchSound == TypeOK /\ BatchSuffices

(***************************************************************************)
(* A disk that is too full, with enough to delete, is relieved: the        *)
(* cooldown and the space counted twice put it off and do not prevent it.  *)
(***************************************************************************)
Deletable == {f \in files : Candidate(f, today - DetailsKeepDays)}
TooFull   == Used >= Limit /\ SizeOf(Deletable) > Used - Limit
Relief    == []<>(~TooFull)
=============================================================================
