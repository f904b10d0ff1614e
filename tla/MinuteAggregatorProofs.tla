----------------------- MODULE MinuteAggregatorProofs -----------------------
(***************************************************************************)
(* Proofs about MinuteAggregator.  SInv collects what holds whatever       *)
(* happens; RInv adds what holds as long as the listener is not restarted. *)
(***************************************************************************)
EXTENDS MinuteAggregator, TLAPS

\* The quantified action of Next, and the facts about cells every proof uses.
AnyIngest == \E m \in Minutes, k \in Keys, hasFrt \in BOOLEAN : Ingest(m, k, hasFrt)

LEMMA CellFacts ==
  ASSUME NEW c \in Cells
  PROVE  /\ c.m \in Minutes /\ c.k \in Keys /\ c.f \in Fields
         /\ c.m \in Nat
         /\ Req(c) \in Cells /\ Req(c).m = c.m /\ Req(c).k = c.k /\ Req(c).f = "req"
         /\ Slot(c) \in Minutes \X Keys
  BY ConstAssumption DEF Cells, Req, Slot, Fields, Minutes

\* Count adds 0 or 1 to a cell, and to the request cell whenever to any.
LEMMA CountFacts ==
  ASSUME NEW b \in [Cells -> Nat], NEW m \in Minutes, NEW k \in Keys,
         NEW hasFrt \in BOOLEAN
  PROVE  /\ Count(b, m, k, hasFrt) \in [Cells -> Nat]
         /\ \A c \in Cells :
              /\ Count(b, m, k, hasFrt)[c] \in {b[c], b[c] + 1}
              /\ Slot(c) # <<m, k>> => Count(b, m, k, hasFrt)[c] = b[c]
              /\ Slot(c) = <<m, k>> /\ c.f = "req"
                   => Count(b, m, k, hasFrt)[c] = b[c] + 1
              /\ Count(b, m, k, hasFrt)[c] # b[c]
                   => Count(b, m, k, hasFrt)[Req(c)] = b[Req(c)] + 1
<1> DEFINE b2 == Count(b, m, k, hasFrt)
<1>1. \A c \in Cells : b2[c] = IF c.m = m /\ c.k = k /\ (c.f = "req" \/ hasFrt)
                              THEN b[c] + 1 ELSE b[c]
  BY DEF Count
<1>2. b2 \in [Cells -> Nat]
  BY DEF Count
<1>3. ASSUME NEW c \in Cells
      PROVE  /\ b2[c] \in {b[c], b[c] + 1}
             /\ Slot(c) # <<m, k>> => b2[c] = b[c]
             /\ Slot(c) = <<m, k>> /\ c.f = "req" => b2[c] = b[c] + 1
  BY <1>1 DEF Slot
<1>4. ASSUME NEW c \in Cells, b2[c] # b[c]
      PROVE  b2[Req(c)] = b[Req(c)] + 1
  <2>1. c.m = m /\ c.k = k
    BY <1>1, <1>4
  <2> QED BY <1>1, <2>1, CellFacts
<1> HIDE DEF b2
<1>5. b2 = Count(b, m, k, hasFrt)
  BY DEF b2
<1> QED BY <1>2, <1>3, <1>4, <1>5
-----------------------------------------------------------------------------
\* What a bucket has written never exceeds what it counts.
WrittenBelow == \A c \in Cells : written[c] <= archive[c]
\* A bucket that counts anything counts requests.
ReqFirst == \A c \in Cells : active[c] > 0 => active[Req(c)] > 0
\* A dirty bucket is in the archive.
DirtyArchived == \A c \in Cells : Slot(c) \in dirty => archive[Req(c)] > 0
\* The lines of flushClosedMinutes are pending only inside it.
FlushLocals ==
  /\ flushing # "append" => closed = Zero
  /\ flushing = "idle" => deltas = Zero

SInv == TypeOK /\ WrittenBelow /\ ReqFirst /\ DirtyArchived /\ FlushLocals /\ OneBucket

LEMMA ZeroType == Zero \in [Cells -> Nat] /\ \A c \in Cells : Zero[c] = 0
  BY DEF Zero

LEMMA SInit == Init => SInv
  BY ConstAssumption, ZeroType, CellFacts
  DEF Init, SInv, TypeOK, WrittenBelow, ReqFirst, DirtyArchived, FlushLocals,
      OneBucket, HasMinute, Minutes

\* A bucket that closes is not in the archive, so not dirty and never written.
LEMMA ClosingFresh ==
  ASSUME SInv, NEW c \in Cells, Closing(c)
  PROVE  archive[c] = 0 /\ written[c] = 0 /\ Slot(c) \notin dirty
<1>1. active[Req(c)] > 0
  BY DEF Closing
<1>2. HasMinute(active, c.m)
  BY <1>1, CellFacts DEF HasMinute
<1>3. \A d \in Cells : d.m = c.m => archive[d] = 0
  BY <1>2, CellFacts DEF SInv, OneBucket, HasMinute, TypeOK
<1> QED BY <1>3, CellFacts DEF SInv, WrittenBelow, DirtyArchived, TypeOK

\* A minute that can close leaves the active map entirely.
LEMMA FlushEmpties ==
  ASSUME SInv, Flush, NEW c \in Cells, 2 * c.m < now - 3
  PROVE  active'[c] = 0
  BY CellFacts DEF Flush, Closing, SInv, ReqFirst, TypeOK

LEMMA SIngest ==
  ASSUME SInv, AnyIngest
  PROVE  SInv'
<1>1. PICK m \in Minutes, k \in Keys, hasFrt \in BOOLEAN : Ingest(m, k, hasFrt)
  BY DEF AnyIngest
<1>2. TypeOK
  BY DEF SInv
<1>3. ingested' \in [Cells -> Nat] /\ ingests' \in 0..MaxIngests
  BY <1>1, <1>2, CountFacts, ConstAssumption DEF Ingest, TypeOK
<1>4. CASE ~HasMinute(active, m) /\ HasMinute(archive, m)
  <2>1. archive' = Count(archive, m, k, hasFrt) /\ dirty' = dirty \cup {<<m, k>>} /\ active' = active
    BY <1>1, <1>4 DEF Ingest
  <2>0. archive' \in [Cells -> Nat] /\ <<m, k>> \in Minutes \X Keys
    BY <1>2, <2>1, CountFacts DEF TypeOK
  <2>2. TypeOK'
    BY <1>1, <1>2, <1>3, <2>0, <2>1 DEF TypeOK, Ingest, flush
  <2>3. WrittenBelow'
    <3>1. \A c \in Cells : archive'[c] >= archive[c]
      BY <1>2, <2>1, CountFacts DEF TypeOK
    <3> QED BY <1>1, <1>2, <2>0, <3>1 DEF SInv, WrittenBelow, TypeOK, Ingest
  <2>4. DirtyArchived'
    <3> SUFFICES ASSUME NEW c \in Cells, Slot(c) \in dirty'
                 PROVE  archive'[Req(c)] > 0
      BY DEF DirtyArchived
    <3>0. /\ Req(c) \in Cells /\ Req(c).f = "req" /\ Slot(Req(c)) = Slot(c)
          /\ archive \in [Cells -> Nat]
      BY <1>2, CellFacts DEF Slot, TypeOK
    <3>1. CASE Slot(c) \in dirty
      <4>1. archive[Req(c)] > 0
        BY <3>1 DEF SInv, DirtyArchived
      <4> QED BY <2>1, <3>0, <4>1, CountFacts
    <3>2. CASE Slot(c) = <<m, k>>
      BY <2>1, <3>0, <3>2, CountFacts
    <3> QED BY <2>1, <3>1, <3>2
  <2>5. OneBucket'
    <3> SUFFICES ASSUME NEW n \in Minutes
                 PROVE  ~(HasMinute(active', n) /\ HasMinute(archive', n))
      BY DEF OneBucket, HasMinute
    <3>1. CASE n = m
      BY <1>4, <2>1, <3>1
    <3>2. CASE n # m
      <4>1. \A c \in Cells : c.m = n => archive'[c] = archive[c]
        BY <1>2, <2>1, <3>2, CountFacts DEF Slot, TypeOK
      <4> QED BY <2>1, <4>1 DEF SInv, OneBucket, HasMinute
    <3> QED BY <3>1, <3>2
  <2>6. ReqFirst' /\ FlushLocals'
    BY <1>1, <2>1 DEF SInv, ReqFirst, FlushLocals, Ingest, flush
  <2> QED BY <2>2, <2>3, <2>4, <2>5, <2>6 DEF SInv
<1>5. CASE ~(~HasMinute(active, m) /\ HasMinute(archive, m))
  <2>1. active' = Count(active, m, k, hasFrt) /\ archive' = archive /\ dirty' = dirty
    BY <1>1, <1>5 DEF Ingest
  <2>2. TypeOK'
    BY <1>1, <1>2, <1>3, <2>1, CountFacts DEF TypeOK, Ingest, flush
  <2>3. ~HasMinute(archive, m)
    BY <1>5 DEF SInv, OneBucket
  <2>4. OneBucket'
    <3> SUFFICES ASSUME NEW n \in Minutes
                 PROVE  ~(HasMinute(active', n) /\ HasMinute(archive', n))
      BY DEF OneBucket, HasMinute
    <3>1. CASE n = m
      BY <2>1, <2>3, <3>1
    <3>2. CASE n # m
      <4>1. \A c \in Cells : c.m = n => active'[c] = active[c]
        BY <1>2, <2>1, <3>2, CountFacts DEF Slot, TypeOK
      <4> QED BY <2>1, <4>1 DEF SInv, OneBucket, HasMinute
    <3> QED BY <3>1, <3>2
  <2>5. ReqFirst'
    <3> SUFFICES ASSUME NEW c \in Cells, active'[c] > 0
                 PROVE  active'[Req(c)] > 0
      BY DEF ReqFirst
    <3>1. active \in [Cells -> Nat] /\ Req(c) \in Cells
      BY <1>2, CellFacts DEF TypeOK
    <3>2. CASE active'[c] = active[c]
      BY <2>1, <3>1, <3>2, CountFacts DEF SInv, ReqFirst
    <3>3. CASE active'[c] # active[c]
      BY <2>1, <3>1, <3>3, CountFacts
    <3> QED BY <3>2, <3>3
  <2>6. WrittenBelow' /\ DirtyArchived' /\ FlushLocals'
    BY <1>1, <2>1 DEF SInv, WrittenBelow, DirtyArchived, FlushLocals, Ingest, flush
  <2> QED BY <2>2, <2>4, <2>5, <2>6 DEF SInv
<1> QED BY <1>4, <1>5

LEMMA SFlush ==
  ASSUME SInv, Flush
  PROVE  SInv'
<1>1. TypeOK
  BY DEF SInv
<1>2. \A c \in Cells : Delta(c) \in Nat
  BY <1>1 DEF Delta, SInv, WrittenBelow, TypeOK
<1>3. TypeOK'
  BY <1>1, <1>2 DEF Flush, TypeOK, history
<1>4. WrittenBelow'
  BY <1>1 DEF Flush, SInv, WrittenBelow, TypeOK
<1>5. ReqFirst'
  <2> SUFFICES ASSUME NEW c \in Cells, active'[c] > 0
               PROVE  active'[Req(c)] > 0
    BY DEF ReqFirst
  <2>1. ~Closing(c) /\ active[c] > 0
    BY <1>1 DEF Flush, TypeOK
  <2>2. active[Req(c)] > 0 /\ Req(c) \in Cells /\ Req(c).m = c.m
    BY <2>1, CellFacts DEF SInv, ReqFirst
  <2>3. ~Closing(Req(c))
    BY <2>1, <2>2 DEF Closing
  <2> QED BY <2>2, <2>3 DEF Flush
<1>6. DirtyArchived' /\ FlushLocals'
  BY DEF Flush, DirtyArchived, FlushLocals
<1>7. OneBucket'
  <2> SUFFICES ASSUME NEW n \in Minutes, NEW c \in Cells, c.m = n, active'[c] > 0,
                      NEW d \in Cells, d.m = n, archive'[d] > 0
               PROVE  FALSE
    BY DEF OneBucket, HasMinute
  <2>1. ~(2 * n < now - 3)
    BY FlushEmpties
  <2>2. ~Closing(c) /\ ~Closing(d)
    BY <2>1 DEF Closing
  <2>3. active[c] > 0
    BY <2>2 DEF Flush
  <2>4. archive[d] > 0
    BY <1>1, <2>2 DEF Flush, TypeOK
  <2> QED BY <2>3, <2>4 DEF SInv, OneBucket, HasMinute
<1> QED BY <1>3, <1>4, <1>5, <1>6, <1>7 DEF SInv

\* Either half of the append, with the lines it writes.
LEMMA SAppend ==
  ASSUME TypeOK, NEW lines \in [Cells -> Nat], NEW bad \in BadDays, Append(lines, bad)
  PROVE  /\ disk' \in [Cells -> Nat] /\ lost' \in [Cells -> Nat]
         /\ \A c \in Cells : disk'[c] + lost'[c] = disk[c] + lost[c] + lines[c]
         /\ fails' \in 0..MaxFails
         /\ fails' = 0 => fails = 0 /\ \A c \in Cells : disk'[c] = disk[c] + lines[c]
<1>1. \A c \in Cells : Written(lines, bad, c) \in 0..lines[c]
  BY DEF Written
<1>2. bad = {} => \A c \in Cells : Written(lines, bad, c) = lines[c]
  BY DEF Written
<1> QED BY <1>1, <1>2, ConstAssumption DEF TypeOK, Append, BadDays

LEMMA SStep == SInv /\ [Next]_vars => SInv'
<1> SUFFICES ASSUME SInv, [Next]_vars
             PROVE  SInv'
  OBVIOUS
<1> USE ConstAssumption
<1>0. TypeOK
  BY DEF SInv
<1>1. CASE UNCHANGED vars
  BY <1>1 DEF SInv, TypeOK, WrittenBelow, ReqFirst, DirtyArchived, FlushLocals,
              OneBucket, HasMinute, vars, memory, flush, history
<1>2. CASE Tick
  BY <1>2 DEF SInv, TypeOK, WrittenBelow, ReqFirst, DirtyArchived, FlushLocals,
              OneBucket, HasMinute, Tick, memory, flush, history
<1>3. CASE AnyIngest
  BY <1>3, SIngest
<1>4. CASE Flush
  BY <1>4, SFlush
<1>5. CASE AppendClosed
  <2>1. PICK bad \in BadDays : Append(closed, bad)
    BY <1>5 DEF AppendClosed
  <2>2. /\ disk' \in [Cells -> Nat] /\ lost' \in [Cells -> Nat] /\ fails' \in 0..MaxFails
    BY <1>0, <2>1, SAppend DEF TypeOK
  <2>3. UNCHANGED <<now, memory, ingested, ingests, restarts, deltas>>
    BY <1>5, <2>1 DEF AppendClosed, Append
  <2> QED BY <1>5, <2>2, <2>3, ZeroType
         DEF SInv, TypeOK, WrittenBelow, ReqFirst, DirtyArchived, FlushLocals,
             OneBucket, HasMinute, AppendClosed, memory
<1>6. CASE AppendDirty
  <2>1. PICK bad \in BadDays : Append(deltas, bad)
    BY <1>6 DEF AppendDirty
  <2>2. /\ disk' \in [Cells -> Nat] /\ lost' \in [Cells -> Nat] /\ fails' \in 0..MaxFails
    BY <1>0, <2>1, SAppend DEF TypeOK
  <2>3. UNCHANGED <<now, memory, ingested, ingests, restarts, closed>>
    BY <1>6, <2>1 DEF AppendDirty, Append
  <2> QED BY <1>6, <2>2, <2>3, ZeroType
         DEF SInv, TypeOK, WrittenBelow, ReqFirst, DirtyArchived, FlushLocals,
             OneBucket, HasMinute, AppendDirty, memory
<1>7. CASE Restart
  <2>1. \A c \in Cells : Unwritten(c) \in Nat
    BY <1>0 DEF Unwritten, TypeOK, SInv, WrittenBelow
  <2>2. TypeOK'
    BY <1>0, <1>7, <2>1, ZeroType DEF Restart, TypeOK
  <2>3. WrittenBelow' /\ ReqFirst' /\ OneBucket'
    BY <1>0, <1>7, ZeroType DEF Restart, TypeOK, WrittenBelow, ReqFirst, OneBucket, HasMinute
  <2>4. DirtyArchived' /\ FlushLocals'
    BY <1>7 DEF Restart, DirtyArchived, FlushLocals
  <2> QED BY <2>2, <2>3, <2>4 DEF SInv
<1> QED BY <1>1, <1>2, <1>3, <1>4, <1>5, <1>6, <1>7 DEF Next, AnyIngest

LEMMA SInvariant == Spec => []SInv
  BY SInit, SStep, PTL DEF Spec

\* Type correctness of the aggregator: in particular a delta is never
\* negative, because a bucket never wrote more than it counts.
THEOREM AggregatorTypeCorrect == Spec => []TypeOK
<1>1. SInv => TypeOK
  BY DEF SInv
<1> QED BY <1>1, SInvariant, PTL

\* "one bucket per (minute, peer)": a minute is never in the active map and
\* in the archive, through late entries, evictions, failed appends and
\* restarts.
THEOREM OneBucketPerMinute == Spec => []OneBucket
<1>1. SInv => OneBucket
  BY DEF SInv
<1> QED BY <1>1, SInvariant, PTL
-----------------------------------------------------------------------------
(***************************************************************************)
(* Nothing vanishes: a late count becomes pending the moment it dirties    *)
(* its bucket, flushClosedMinutes turns it into a line before it evicts,   *)
(* and a bucket that closes is never dirty.                                *)
(***************************************************************************)
LEMMA VanishStep == SInv /\ NothingVanishes /\ [Next]_vars => NothingVanishes'
<1> SUFFICES ASSUME SInv, NothingVanishes, [Next]_vars, NEW c \in ReqCells
             PROVE  (ingested[c] <= disk[c] + Unwritten(c) + lost[c])'
  BY DEF NothingVanishes, ReqCells
<1>0. /\ TypeOK /\ c \in Cells /\ c.f = "req"
      /\ ingested[c] <= disk[c] + Unwritten(c) + lost[c]
      /\ written[c] <= archive[c]
  BY DEF SInv, NothingVanishes, ReqCells, WrittenBelow
<1>1. /\ active[c] \in Nat /\ archive[c] \in Nat /\ written[c] \in Nat
      /\ closed[c] \in Nat /\ deltas[c] \in Nat /\ disk[c] \in Nat
      /\ ingested[c] \in Nat /\ lost[c] \in Nat
  BY <1>0 DEF TypeOK
<1>2. CASE UNCHANGED vars \/ Tick
  BY <1>0, <1>2 DEF vars, Tick, memory, flush, history, Unwritten
<1>3. CASE AnyIngest
  <2>1. PICK m \in Minutes, k \in Keys, hasFrt \in BOOLEAN : Ingest(m, k, hasFrt)
    BY <1>3 DEF AnyIngest
  <2>2. /\ ingested' = Count(ingested, m, k, hasFrt)
        /\ UNCHANGED <<written, closed, deltas, disk, lost>>
    BY <2>1 DEF Ingest, flush
  <2>3. CASE Slot(c) # <<m, k>>
    <3>0. ingested \in [Cells -> Nat]
      BY <1>0 DEF TypeOK
    <3>1. ingested'[c] = ingested[c]
      BY <1>0, <2>2, <2>3, <3>0, CountFacts
    <3>2. active'[c] = active[c] /\ archive'[c] = archive[c]
      BY <1>0, <2>1, <2>3, CountFacts DEF TypeOK, Ingest
    <3>3. Slot(c) \in dirty' <=> Slot(c) \in dirty
      BY <2>1, <2>3 DEF Ingest
    <3> QED BY <1>0, <1>1, <2>2, <3>1, <3>2, <3>3 DEF Unwritten
  <2>4. CASE Slot(c) = <<m, k>>
    <3>1. ingested'[c] = ingested[c] + 1
      BY <1>0, <2>2, <2>4, CountFacts DEF TypeOK
    <3>2. CASE ~HasMinute(active, m) /\ HasMinute(archive, m)
      <4>1. active' = active /\ Slot(c) \in dirty' /\ archive'[c] = archive[c] + 1
        BY <1>0, <2>1, <2>4, <3>2, CountFacts DEF TypeOK, Ingest
      <4> QED BY <1>0, <1>1, <2>2, <3>1, <4>1 DEF Unwritten
    <3>3. CASE ~(~HasMinute(active, m) /\ HasMinute(archive, m))
      <4>1. active'[c] = active[c] + 1 /\ dirty' = dirty /\ archive' = archive
        BY <1>0, <2>1, <2>4, <3>3, CountFacts DEF TypeOK, Ingest
      <4> QED BY <1>0, <1>1, <2>2, <3>1, <4>1 DEF Unwritten
    <3> QED BY <3>2, <3>3
  <2> QED BY <2>3, <2>4
<1>4. CASE Flush
  <2>1. closed[c] = 0 /\ deltas[c] = 0
    BY <1>0, <1>4, ZeroType DEF Flush, SInv, FlushLocals
  <2>2. CASE Closing(c)
    <3>1. Slot(c) \notin dirty
      BY <1>0, <2>2, ClosingFresh
    <3>2. closed'[c] = active[c] /\ deltas'[c] = 0 /\ active'[c] = 0 /\ dirty' = {}
      BY <1>0, <1>4, <2>2, <3>1 DEF Flush, Delta, IsDirty
    <3> QED BY <1>0, <1>1, <1>4, <2>1, <3>1, <3>2 DEF Unwritten, Flush, history
  <2>3. CASE ~Closing(c)
    <3>1. /\ closed'[c] = 0 /\ active'[c] = active[c] /\ dirty' = {}
          /\ deltas'[c] = IF Slot(c) \in dirty THEN archive[c] - written[c] ELSE 0
      BY <1>0, <1>4, <2>3 DEF Flush, Delta, IsDirty
    <3> QED BY <1>0, <1>1, <1>4, <2>1, <3>1 DEF Unwritten, Flush, history
  <2> QED BY <2>2, <2>3
<1>5. CASE AppendClosed
  <2>1. PICK bad \in BadDays : Append(closed, bad)
    BY <1>5 DEF AppendClosed
  <2>2. disk'[c] + lost'[c] = disk[c] + lost[c] + closed[c]
    BY <1>0, <2>1, SAppend DEF TypeOK
  <2>3. disk'[c] \in Nat /\ lost'[c] \in Nat
    BY <1>0, <2>1, SAppend DEF TypeOK
  <2>4. closed'[c] = 0 /\ UNCHANGED <<active, archive, written, dirty, deltas, ingested>>
    BY <1>0, <1>5, <2>1, ZeroType DEF AppendClosed, Append, memory
  <2> QED BY <1>0, <1>1, <2>2, <2>3, <2>4 DEF Unwritten
<1>6. CASE AppendDirty
  <2>1. PICK bad \in BadDays : Append(deltas, bad)
    BY <1>6 DEF AppendDirty
  <2>2. disk'[c] + lost'[c] = disk[c] + lost[c] + deltas[c]
    BY <1>0, <2>1, SAppend DEF TypeOK
  <2>3. disk'[c] \in Nat /\ lost'[c] \in Nat
    BY <1>0, <2>1, SAppend DEF TypeOK
  <2>4. deltas'[c] = 0 /\ UNCHANGED <<active, archive, written, dirty, closed, ingested>>
    BY <1>0, <1>6, <2>1, ZeroType DEF AppendDirty, Append, memory
  <2> QED BY <1>0, <1>1, <2>2, <2>3, <2>4 DEF Unwritten
<1>7. CASE Restart
  <2>1. /\ lost'[c] = lost[c] + Unwritten(c) /\ dirty' = {}
        /\ active'[c] = 0 /\ closed'[c] = 0 /\ deltas'[c] = 0
        /\ disk' = disk /\ ingested' = ingested
    BY <1>0, <1>7, ZeroType DEF Restart
  <2>2. Unwritten(c)' = 0
    BY <2>1 DEF Unwritten
  <2>3. Unwritten(c) \in Nat
    BY <1>0, <1>1 DEF Unwritten
  <2> QED BY <1>0, <1>1, <2>1, <2>2, <2>3
<1> QED BY <1>2, <1>3, <1>4, <1>5, <1>6, <1>7 DEF Next, AnyIngest

\* No ingested request vanishes between memory and the metrics files: through
\* late entries, evictions, failed appends and restarts it is in a file,
\* still to be written, or lost by a failed append or a stop.
THEOREM RequestsConserved == Spec => []NothingVanishes
<1>1. Init => NothingVanishes
  BY ZeroType DEF Init, NothingVanishes, Unwritten, ReqCells
<1> QED BY <1>1, SInvariant, VanishStep, PTL DEF Spec
-----------------------------------------------------------------------------
(***************************************************************************)
(* Without restarts archiveLastWritten is what the files hold, and a       *)
(* bucket that is not dirty has written everything it counts.              *)
(***************************************************************************)
FilesMatch ==
  fails = 0 => \A c \in ReqCells :
    ~Evicted(c) => disk[c] + closed[c] + deltas[c] = written[c]
CleanWritten == \A c \in Cells : Slot(c) \notin dirty => archive[c] = written[c]
RInv == restarts = 0 /\ FilesMatch /\ CleanWritten /\ WindowComplete

LEMMA RInit == Init => RInv
  BY ZeroType DEF Init, RInv, FilesMatch, CleanWritten, WindowComplete, ReqCells

LEMMA RStep ==
  ASSUME SInv, RInv, [Next]_vars, restarts' = 0
  PROVE  RInv'
<1> USE ConstAssumption
<1>0. TypeOK /\ restarts = 0
  BY DEF SInv, RInv
<1>1. CASE UNCHANGED vars
  BY <1>1 DEF RInv, FilesMatch, CleanWritten, WindowComplete, Evicted,
              vars, memory, flush, history
<1>2. CASE Tick
  <2>1. \A c \in Cells : Evicted(c) => Evicted(c)'
    BY <1>0, <1>2, CellFacts DEF Tick, Evicted, TypeOK
  <2>2. FilesMatch' /\ CleanWritten' /\ restarts' = 0
    BY <1>2, <2>1 DEF RInv, FilesMatch, CleanWritten, ReqCells, Tick, memory, flush, history
  <2>3. WindowComplete'
    BY <1>0, <1>2, CellFacts DEF RInv, WindowComplete, Tick, TypeOK, memory, history
  <2> QED BY <2>2, <2>3 DEF RInv
<1>3. CASE AnyIngest
  <2>1. PICK m \in Minutes, k \in Keys, hasFrt \in BOOLEAN : Ingest(m, k, hasFrt)
    BY <1>3 DEF AnyIngest
  <2>2. FilesMatch' /\ restarts' = 0
    BY <1>0, <2>1 DEF RInv, FilesMatch, Evicted, Ingest, flush
  <2>3. CASE ~HasMinute(active, m) /\ HasMinute(archive, m)
    <3>1. /\ archive' = Count(archive, m, k, hasFrt) /\ active' = active
          /\ ingested' = Count(ingested, m, k, hasFrt)
          /\ dirty' = dirty \cup {<<m, k>>} /\ written' = written /\ now' = now
      BY <2>1, <2>3 DEF Ingest
    <3>2. CleanWritten'
      BY <1>0, <3>1, CountFacts DEF RInv, CleanWritten, TypeOK
    <3>3. WindowComplete'
      <4> SUFFICES ASSUME NEW c \in Cells, 2 * c.m >= now - 2 * KeepMin
                   PROVE  active'[c] + archive'[c] = ingested'[c]
        BY <3>1 DEF WindowComplete
      <4>1. active[c] + archive[c] = ingested[c]
        BY <1>0 DEF RInv, WindowComplete
      <4>2. active[c] \in Nat /\ archive[c] \in Nat /\ ingested[c] \in Nat
        BY <1>0 DEF TypeOK
      <4> QED BY <3>1, <4>1, <4>2 DEF Count
    <3> QED BY <2>2, <3>2, <3>3 DEF RInv
  <2>4. CASE ~(~HasMinute(active, m) /\ HasMinute(archive, m))
    <3>1. /\ active' = Count(active, m, k, hasFrt) /\ archive' = archive
          /\ ingested' = Count(ingested, m, k, hasFrt)
          /\ dirty' = dirty /\ written' = written /\ now' = now
      BY <2>1, <2>4 DEF Ingest
    <3>2. CleanWritten'
      BY <3>1 DEF RInv, CleanWritten
    <3>3. WindowComplete'
      <4> SUFFICES ASSUME NEW c \in Cells, 2 * c.m >= now - 2 * KeepMin
                   PROVE  active'[c] + archive'[c] = ingested'[c]
        BY <3>1 DEF WindowComplete
      <4>1. active[c] + archive[c] = ingested[c]
        BY <1>0 DEF RInv, WindowComplete
      <4>2. active[c] \in Nat /\ archive[c] \in Nat /\ ingested[c] \in Nat
        BY <1>0 DEF TypeOK
      <4> QED BY <3>1, <4>1, <4>2 DEF Count
    <3> QED BY <2>2, <3>2, <3>3 DEF RInv
  <2> QED BY <2>3, <2>4
<1>4. CASE Flush
  <2>1. /\ now' = now /\ disk' = disk /\ ingested' = ingested /\ fails' = fails
        /\ restarts' = 0 /\ dirty' = {}
    BY <1>0, <1>4 DEF Flush, history
  <2>2. \A c \in Cells : closed[c] = 0 /\ deltas[c] = 0
    BY <1>4, ZeroType DEF Flush, SInv, FlushLocals
  <2>3. CleanWritten'
    <3> SUFFICES ASSUME NEW c \in Cells
                 PROVE  archive'[c] = written'[c]
      BY DEF CleanWritten
    <3>1. Slot(c) \notin dirty => archive[c] = written[c]
      BY DEF RInv, CleanWritten
    <3> QED BY <1>4, <3>1 DEF Flush, IsDirty
  <2>4. FilesMatch'
    <3> SUFFICES ASSUME fails = 0, NEW c \in ReqCells, ~Evicted(c)
                 PROVE  disk[c] + closed'[c] + deltas'[c] = written'[c]
      BY <2>1 DEF FilesMatch, Evicted
    <3>1. /\ c \in Cells /\ c.f = "req" /\ disk[c] = written[c]
          /\ disk[c] \in Nat /\ written[c] \in Nat /\ archive[c] \in Nat /\ active[c] \in Nat
      BY <1>0, <2>2 DEF RInv, FilesMatch, ReqCells, TypeOK
    <3>2. CASE Closing(c)
      <4>1. written[c] = 0
        BY <3>1, <3>2, ClosingFresh
      <4>2. closed'[c] = active[c] /\ deltas'[c] = 0 /\ written'[c] = active[c]
        BY <1>4, <3>1, <3>2 DEF Flush, Delta, IsDirty
      <4> QED BY <3>1, <4>1, <4>2
    <3>3. CASE ~Closing(c)
      <4>1. closed'[c] = 0
        BY <1>4, <3>1, <3>3 DEF Flush
      <4>2. CASE Slot(c) \in dirty
        <5>1. deltas'[c] = archive[c] - written[c] /\ written'[c] = archive[c]
          BY <1>4, <3>1, <3>3, <4>2 DEF Flush, Delta, IsDirty
        <5> QED BY <3>1, <4>1, <5>1
      <4>3. CASE Slot(c) \notin dirty
        <5>1. deltas'[c] = 0 /\ written'[c] = written[c]
          BY <1>4, <3>1, <3>3, <4>3 DEF Flush, Delta, IsDirty
        <5> QED BY <3>1, <4>1, <5>1
      <4> QED BY <4>2, <4>3
    <3> QED BY <3>2, <3>3
  <2>5. WindowComplete'
    <3> SUFFICES ASSUME NEW c \in Cells, 2 * c.m >= now - 2 * KeepMin
                 PROVE  active'[c] + archive'[c] = ingested[c]
      BY <2>1 DEF WindowComplete
    <3>1. ~Evicted(c)
      BY <1>0, CellFacts DEF Evicted, TypeOK
    <3>2. active[c] + archive[c] = ingested[c] /\ active[c] \in Nat
      BY <1>0 DEF RInv, WindowComplete, TypeOK
    <3>3. CASE Closing(c)
      BY <1>4, <3>1, <3>2, <3>3, ClosingFresh DEF Flush
    <3>4. CASE ~Closing(c)
      BY <1>4, <3>1, <3>2, <3>4 DEF Flush
    <3> QED BY <3>3, <3>4
  <2> QED BY <2>1, <2>3, <2>4, <2>5 DEF RInv
<1>5. CASE AppendClosed
  <2>1. PICK bad \in BadDays : Append(closed, bad)
    BY <1>5 DEF AppendClosed
  <2>2. fails' = 0 => fails = 0 /\ \A c \in Cells : disk'[c] = disk[c] + closed[c]
    BY <1>0, <2>1, SAppend DEF TypeOK
  <2>3. closed' = Zero /\ UNCHANGED <<now, active, archive, written, dirty, deltas, ingested, restarts>>
    BY <1>5, <2>1 DEF AppendClosed, Append, memory
  <2>4. FilesMatch'
    BY <1>0, <2>2, <2>3, ZeroType DEF RInv, FilesMatch, ReqCells, Evicted, TypeOK
  <2> QED BY <1>0, <2>3, <2>4 DEF RInv, CleanWritten, WindowComplete
<1>6. CASE AppendDirty
  <2>1. PICK bad \in BadDays : Append(deltas, bad)
    BY <1>6 DEF AppendDirty
  <2>2. fails' = 0 => fails = 0 /\ \A c \in Cells : disk'[c] = disk[c] + deltas[c]
    BY <1>0, <2>1, SAppend DEF TypeOK
  <2>3. deltas' = Zero /\ UNCHANGED <<now, active, archive, written, dirty, closed, ingested, restarts>>
    BY <1>6, <2>1 DEF AppendDirty, Append, memory
  <2>4. FilesMatch'
    BY <1>0, <2>2, <2>3, ZeroType DEF RInv, FilesMatch, ReqCells, Evicted, TypeOK
  <2> QED BY <1>0, <2>3, <2>4 DEF RInv, CleanWritten, WindowComplete
<1>7. CASE Restart
  BY <1>0, <1>7 DEF Restart
<1> QED BY <1>1, <1>2, <1>3, <1>4, <1>5, <1>6, <1>7 DEF Next, AnyIngest

LEMMA RInvariant == Spec => [](SInv /\ (restarts = 0 => RInv))
<1> DEFINE I == SInv /\ (restarts = 0 => RInv)
<1>1. Init => I
  BY SInit, RInit
<1>2. I /\ [Next]_vars => I'
  <2> SUFFICES ASSUME I, [Next]_vars
               PROVE  I'
    OBVIOUS
  <2>1. SInv'
    BY SStep
  <2>2. restarts' = 0 => restarts = 0
    <3>1. restarts \in Nat
      BY ConstAssumption DEF SInv, TypeOK
    <3>2. restarts' = restarts \/ restarts' = restarts + 1
      BY DEF Next, vars, history, Tick, Ingest, Flush, AppendClosed, AppendDirty, Append, Restart
    <3> QED BY <3>1, <3>2
  <2> QED BY <2>1, <2>2, RStep
<1> QED BY <1>1, <1>2, PTL DEF Spec

\* As long as the listener is not restarted and no append fails, the lines of
\* a bucket add up to its running total, through any late entries.  After a
\* restart they do not (README, section 6): reload leaves
\* archiveLastWritten empty.
THEOREM LinesAddUp == Spec => []FilesMatchMemory
<1>1. SInv /\ (restarts = 0 => RInv) => FilesMatchMemory
  <2> SUFFICES ASSUME SInv, RInv, flushing = "idle", fails = 0, NEW c \in ReqCells,
                      Slot(c) \notin dirty, ~Evicted(c)
               PROVE  disk[c] = archive[c]
    BY DEF FilesMatchMemory, DeltasAddUp
  <2>1. c \in Cells /\ closed[c] = 0 /\ deltas[c] = 0
    BY ZeroType DEF ReqCells, SInv, FlushLocals
  <2>2. disk[c] \in Nat /\ written[c] \in Nat
    BY <2>1 DEF SInv, TypeOK
  <2> QED BY <2>1, <2>2 DEF RInv, FilesMatch, CleanWritten
<1> QED BY <1>1, RInvariant, PTL

\* Until a restart, memory holds everything ingested for the minutes /summary
\* may ask for: late entries find their bucket and nothing inside the kept
\* window is evicted.
THEOREM SummaryComplete == Spec => []WindowComplete
<1>1. (restarts = 0 => RInv) => WindowComplete
  BY DEF RInv, WindowComplete
<1> QED BY <1>1, RInvariant, PTL
=============================================================================
