---------------------------- MODULE FramePipeline ----------------------------
(***************************************************************************)
(* The way of a body-log frame from an nginx worker to the listener's      *)
(* files: the worker's socket logger (vendor/resty/logger/socket.lua), its *)
(* TCP connections, and in bodylog-listener-go/main.go the accept loop,    *)
(* handleConn, the frame queue, the writer pool, processFrame, and the     *)
(* shutdown on a signal.                                                   *)
(*                                                                         *)
(* A frame is its number in the order of logging.  The logger sends its    *)
(* whole buffer at every attempt, so a copy on the wire is a frame and the *)
(* attempt it was sent in.  A connection carries whole frames; a frame cut *)
(* off in the middle is one that was not sent, since readFrame returns no  *)
(* part of it.  Frames in Refused are those readFrame or its caller will   *)
(* not have (a length that is 0, too large, or does not add up).           *)
(***************************************************************************)
EXTENDS Integers, Sequences

CONSTANTS
  Conns,        \* connections that may exist at a time
  Writers,      \* numFrameWriters goroutines
  QueueCap,     \* frameChanBuf
  DropLimit,    \* drop_limit of the logger, in frames
  Refused,      \* frames readFrame refuses
  NoConn,       \* no connection
  MaxFrames,    \* bound: frames logged
  MaxAttempts,  \* bound: attempts to send
  MaxStops      \* bound: signals and kills

ASSUME PipelineAssumption ==
  /\ QueueCap \in Nat \ {0} /\ DropLimit \in Nat
  /\ MaxFrames \in Nat /\ MaxAttempts \in Nat /\ MaxStops \in Nat
  /\ Refused \subseteq Nat /\ NoConn \notin Conns

Frames == 1..MaxFrames
Copies == [frame : Frames, attempt : 1..MaxAttempts]
NoCopy == [frame |-> 0, attempt |-> 0]

VARIABLES
  \* the logger
  logged,    \* frames logged so far
  buf,       \* send_buffer followed by log_buffer_data
  dropped,   \* frames over drop_limit
  flight,    \* the send in progress: connection, frames to send, buffer covered
  attempts,  \* attempts so far
  failed,    \* attempts the logger saw fail
  pool,      \* the keepalive pool
  \* connections
  wire,      \* copies sent and not yet read
  eof,       \* the logger has closed its side
  sock,      \* the listener's side: "open" or "closed"
  \* the listener
  hnd,       \* handleConn, or where its connection is before and after
  hold,      \* the copy handleConn is about to queue
  conns,     \* the registry of connections
  queue,     \* frameCh
  chOpen,    \* frameCh is not closed
  busy,      \* a writer is in processFrame
  whold,     \* with this copy
  main, cur, \* the main goroutine and the connection it accepted
  lnOpen,    \* the listening socket
  term,      \* ctx is done
  closer,    \* the shutdown goroutine
  todo,      \* connections its Range has still to visit
  \* history
  taken,     \* copies read from a socket, less those a kill forgot
  settled,   \* copies processFrame has finished with
  stops

logger   == <<logged, buf, dropped, flight, attempts, failed, pool>>
net      == <<wire, eof, sock>>
handlers == <<hnd, hold, conns>>
writers  == <<busy, whold>>
control  == <<main, cur, lnOpen, term, closer, todo>>
history  == <<taken, settled, stops>>
vars     == <<logger, net, handlers, queue, chOpen, writers, control, history>>

Idle == [on |-> NoConn, rest |-> <<>>, n |-> 0]
Up   == main \notin {"exited", "killed"}

\* The copies in the listener's memory.
InMemory ==
  {hold[c] : c \in {x \in Conns : hnd[x] = "push"}}
    \cup {queue[i] : i \in DOMAIN queue}
    \cup {whold[w] : w \in {x \in Writers : busy[x]}}

OnWire == UNION {{wire[c][i] : i \in DOMAIN wire[c]} : c \in Conns}
-----------------------------------------------------------------------------
Init ==
  /\ logged = 0 /\ buf = <<>> /\ dropped = {} /\ flight = Idle
  /\ attempts = 0 /\ failed = {} /\ pool = {}
  /\ wire = [c \in Conns |-> <<>>]
  /\ eof = [c \in Conns |-> TRUE]
  /\ sock = [c \in Conns |-> "closed"]
  /\ hnd = [c \in Conns |-> "done"]
  /\ hold = [c \in Conns |-> NoCopy]
  /\ conns = {} /\ queue = <<>> /\ chOpen = TRUE
  /\ busy = [w \in Writers |-> FALSE]
  /\ whold = [w \in Writers |-> NoCopy]
  /\ main = "accept" /\ cur = NoConn /\ lnOpen = TRUE
  /\ term = FALSE /\ closer = "wait" /\ todo = {}
  /\ taken = {} /\ settled = {} /\ stops = 0
-----------------------------------------------------------------------------
(***************************************************************************)
(* The logger.  log appends a frame or drops it; _flush opens a connection *)
(* or takes one of the pool and sends everything that is buffered at that  *)
(* moment.  Only a whole send takes the frames off the buffer; on any      *)
(* error, a timeout or a failed setkeepalive included, all of them are     *)
(* sent again in the next attempt.                                         *)
(***************************************************************************)
Log ==
  /\ logged < MaxFrames
  /\ logged' = logged + 1
  /\ \/ /\ Len(buf) < DropLimit
        /\ buf' = Append(buf, logged') /\ UNCHANGED dropped
     \/ /\ Len(buf) >= DropLimit
        /\ dropped' = dropped \cup {logged'} /\ UNCHANGED buf
  /\ UNCHANGED <<flight, attempts, failed, pool, net, handlers, queue, chOpen,
                 writers, control, history>>

\* A connection of the pool, even one the listener has closed unnoticed, or
\* a new one when there is none in the pool that is not known to be closed.
Reuse(c) == c \in pool /\ pool' = pool \ {c} /\ UNCHANGED <<wire, eof, sock, hnd>>

Connect(c) ==
  /\ \A x \in pool : sock[x] = "closed"
  /\ hnd[c] = "done" /\ (eof[c] \/ c \in pool) /\ lnOpen
  /\ wire' = [wire EXCEPT ![c] = <<>>]
  /\ eof'  = [x \in Conns |-> x # c /\ (eof[x] \/ x \in pool)]
  /\ sock' = [sock EXCEPT ![c] = "open"]
  /\ hnd'  = [hnd EXCEPT ![c] = "backlog"]
  /\ pool' = {}

Flush(c) ==
  /\ flight = Idle /\ buf # <<>> /\ attempts < MaxAttempts
  /\ Reuse(c) \/ Connect(c)
  /\ flight' = [on |-> c, rest |-> buf, n |-> Len(buf)]
  /\ attempts' = attempts + 1
  /\ UNCHANGED <<logged, buf, dropped, failed, hold, conns, queue, chOpen,
                 writers, control, history>>

\* A frame sent to a connection the listener has closed reaches nobody.
SendFrame ==
  /\ flight.rest # <<>>
  /\ LET x == [frame |-> Head(flight.rest), attempt |-> attempts]
         c == flight.on
     IN wire' = IF sock[c] = "open"
                  THEN [wire EXCEPT ![c] = Append(@, x)] ELSE wire
  /\ flight' = [flight EXCEPT !.rest = Tail(@)]
  /\ UNCHANGED <<logged, buf, dropped, attempts, failed, pool, eof, sock,
                 handlers, queue, chOpen, writers, control, history>>

Sent(rest) ==
  /\ flight # Idle /\ flight.rest = <<>>
  /\ buf' = rest
  /\ pool' = pool \cup {flight.on}
  /\ flight' = Idle
  /\ UNCHANGED <<logged, dropped, attempts, failed, net, handlers, queue,
                 chOpen, writers, control, history>>

\* Variant: the buffer is emptied, with what was logged during the send.
SendDoneClears == Sent(<<>>)

\* Variant: the last frame of the packet stays in the buffer.
SendDoneKeepsLast == Sent(SubSeq(buf, flight.n, Len(buf)))

SendDone == Sent(SubSeq(buf, flight.n + 1, Len(buf)))

SendFail ==
  /\ flight # Idle
  /\ failed' = failed \cup {attempts}
  /\ eof' = [eof EXCEPT ![flight.on] = TRUE]
  /\ flight' = Idle
  /\ UNCHANGED <<logged, buf, dropped, attempts, pool, wire, sock, handlers,
                 queue, chOpen, writers, control, history>>
-----------------------------------------------------------------------------
\* Closing a connection loses what is still in the kernel; what the
\* bufio.Reader has read ahead (the first k copies) is still returned.
Close(c) ==
  /\ sock' = [sock EXCEPT ![c] = "closed"]
  /\ \E k \in 0..Len(wire[c]) : wire' = [wire EXCEPT ![c] = SubSeq(@, 1, k)]

(***************************************************************************)
(* The accept loop: Accept returns a connection, it is registered, closed  *)
(* at once if ctx is done by then, and given to a handler.                 *)
(***************************************************************************)
Accept(c) ==
  /\ main = "accept" /\ lnOpen /\ hnd[c] = "backlog"
  /\ hnd' = [hnd EXCEPT ![c] = "accepted"]
  /\ cur' = c /\ main' = "store"
  /\ UNCHANGED <<logger, net, hold, conns, queue, chOpen, writers, lnOpen,
                 term, closer, todo, history>>

Store ==
  /\ main = "store"
  /\ conns' = conns \cup {cur}
  /\ main' = "spawn"
  /\ UNCHANGED <<logger, net, hnd, hold, queue, chOpen, writers, cur, lnOpen,
                 term, closer, todo, history>>

\* Variant: a connection accepted during the shutdown is not closed.
SpawnUnchecked ==
  /\ main = "spawn"
  /\ hnd' = [hnd EXCEPT ![cur] = "read"]
  /\ main' = "accept" /\ cur' = NoConn
  /\ UNCHANGED <<logger, net, hold, conns, queue, chOpen, writers, lnOpen,
                 term, closer, todo, history>>

Spawn ==
  /\ main = "spawn"
  /\ IF term THEN Close(cur) ELSE UNCHANGED <<wire, sock>>
  /\ hnd' = [hnd EXCEPT ![cur] = "read"]
  /\ main' = "accept" /\ cur' = NoConn
  /\ UNCHANGED <<logger, eof, hold, conns, queue, chOpen, writers, lnOpen,
                 term, closer, todo, history>>

\* Variant: handlers that have read their last frame are not waited for.
HandlersDoneReading == \A c \in Conns : hnd[c] # "read"

\* Accept fails; connWG.Wait; close(frameCh).
HandlersDone == \A c \in Conns : hnd[c] \notin {"read", "push"}

CloseQueue ==
  /\ main = "accept" /\ ~lnOpen /\ HandlersDone
  /\ chOpen' = FALSE /\ main' = "drain"
  /\ UNCHANGED <<logger, net, handlers, queue, writers, cur, lnOpen, term,
                 closer, todo, history>>

\* Variant: main waits for the queue, not for the writers.
QueueEmpty == queue = <<>>

\* writerWG.Wait (a writer ends when frameCh is closed and empty); w.close,
\* dw.close; main returns.
WritersDone == queue = <<>> /\ \A w \in Writers : ~busy[w]

Exit ==
  /\ main = "drain" /\ WritersDone
  /\ main' = "exited"
  /\ UNCHANGED <<logger, net, handlers, queue, chOpen, writers, cur, lnOpen,
                 term, closer, todo, history>>
-----------------------------------------------------------------------------
(***************************************************************************)
(* handleConn: read a frame, queue it (waiting while frameCh is full), and *)
(* return at the end of the connection or at a frame it refuses.  A return *)
(* closes the connection and takes it off the registry.                    *)
(***************************************************************************)
Return(c) ==
  /\ sock' = [sock EXCEPT ![c] = "closed"]
  /\ wire' = [wire EXCEPT ![c] = <<>>]
  /\ hnd' = [hnd EXCEPT ![c] = "done"]
  /\ conns' = conns \ {c}
  /\ UNCHANGED <<logger, eof, hold, queue, chOpen, writers, control, history>>

ReadFrame(c) ==
  /\ Up /\ hnd[c] = "read" /\ wire[c] # <<>>
  /\ Head(wire[c]).frame \notin Refused
  /\ hold' = [hold EXCEPT ![c] = Head(wire[c])]
  /\ wire' = [wire EXCEPT ![c] = Tail(@)]
  /\ hnd' = [hnd EXCEPT ![c] = "push"]
  /\ taken' = taken \cup {Head(wire[c])}
  /\ UNCHANGED <<logger, eof, sock, conns, queue, chOpen, writers, control,
                 settled, stops>>

ReadRefused(c) ==
  /\ Up /\ hnd[c] = "read" /\ wire[c] # <<>>
  /\ Head(wire[c]).frame \in Refused
  /\ Return(c)

ReadEnd(c) ==
  /\ Up /\ hnd[c] = "read" /\ wire[c] = <<>>
  /\ eof[c] \/ sock[c] = "closed"
  /\ Return(c)

Enqueue(c) ==
  /\ Up /\ hnd[c] = "push" /\ chOpen
  /\ queue' = Append(queue, hold[c])
  /\ hnd' = [hnd EXCEPT ![c] = "read"]
  /\ hold' = [hold EXCEPT ![c] = NoCopy]
  /\ UNCHANGED <<logger, net, conns, chOpen, writers, control, history>>

Push(c) == Len(queue) < QueueCap /\ Enqueue(c)
-----------------------------------------------------------------------------
(***************************************************************************)
(* A writer of the pool: take a frame and do processFrame with it.  Its    *)
(* three sinks are modules of their own (DayArchive, MinuteAggregator,     *)
(* DetailsStore); an entry that cannot be assembled or written is logged,  *)
(* and the writer is done with the frame in every case.                    *)
(***************************************************************************)
Take(w) ==
  /\ Up /\ ~busy[w] /\ queue # <<>>
  /\ busy' = [busy EXCEPT ![w] = TRUE]
  /\ whold' = [whold EXCEPT ![w] = Head(queue)]
  /\ queue' = Tail(queue)
  /\ UNCHANGED <<logger, net, handlers, chOpen, control, history>>

ProcessFrame(w) ==
  /\ Up /\ busy[w]
  /\ busy' = [busy EXCEPT ![w] = FALSE]
  /\ whold' = [whold EXCEPT ![w] = NoCopy]
  /\ settled' = settled \cup {whold[w]}
  /\ UNCHANGED <<logger, net, handlers, queue, chOpen, control, taken, stops>>
-----------------------------------------------------------------------------
(***************************************************************************)
(* SIGTERM or SIGINT: ctx is done; the shutdown goroutine closes the       *)
(* listening socket (the kernel resets what it has not accepted) and then  *)
(* every connection Range meets: all that were registered when it began,   *)
(* and any registered meanwhile.                                           *)
(***************************************************************************)
Signal ==
  /\ Up /\ ~term /\ stops < MaxStops
  /\ term' = TRUE /\ closer' = "listener" /\ stops' = stops + 1
  /\ UNCHANGED <<logger, net, handlers, queue, chOpen, writers, main, cur,
                 lnOpen, todo, taken, settled>>

ResetBacklog ==
  LET B == {c \in Conns : hnd[c] = "backlog"} IN
  /\ hnd'  = [c \in Conns |-> IF c \in B THEN "done" ELSE hnd[c]]
  /\ sock' = [c \in Conns |-> IF c \in B THEN "closed" ELSE sock[c]]
  /\ wire' = [c \in Conns |-> IF c \in B THEN <<>> ELSE wire[c]]

CloseListener ==
  /\ Up /\ closer = "listener"
  /\ lnOpen' = FALSE /\ ResetBacklog
  /\ closer' = "range" /\ todo' = conns
  /\ UNCHANGED <<logger, eof, hold, conns, queue, chOpen, writers, main, cur,
                 term, history>>

RangeVisit(c) ==
  /\ Up /\ closer = "range" /\ todo # {} /\ c \in todo \cup conns
  /\ IF sock[c] = "open" THEN Close(c) ELSE UNCHANGED <<wire, sock>>
  /\ todo' = todo \ {c}
  /\ UNCHANGED <<logger, eof, handlers, queue, chOpen, writers, main, cur,
                 lnOpen, term, closer, history>>
-----------------------------------------------------------------------------
\* The process is killed: its memory and its connections are gone.
Kill ==
  /\ Up /\ stops < MaxStops
  /\ main' = "killed" /\ lnOpen' = FALSE /\ stops' = stops + 1
  /\ wire' = [c \in Conns |-> <<>>]
  /\ sock' = [c \in Conns |-> "closed"]
  /\ hnd'  = [c \in Conns |-> "done"]
  /\ hold' = [c \in Conns |-> NoCopy]
  /\ conns' = {} /\ queue' = <<>>
  /\ busy' = [w \in Writers |-> FALSE]
  /\ whold' = [w \in Writers |-> NoCopy]
  /\ taken' = settled
  /\ UNCHANGED <<logger, eof, chOpen, cur, term, closer, todo, settled>>

\* main up to the accept loop.
Start ==
  /\ ~Up
  /\ main' = "accept" /\ cur' = NoConn /\ lnOpen' = TRUE
  /\ term' = FALSE /\ closer' = "wait" /\ todo' = {}
  /\ chOpen' = TRUE
  /\ UNCHANGED <<logger, net, handlers, queue, writers, history>>

LoggerStep ==
  \/ Log \/ SendFrame \/ SendDone \/ SendFail
  \/ \E c \in Conns : Flush(c)

ListenerStep ==
  \/ \E c \in Conns : Accept(c)
  \/ Store \/ Spawn \/ CloseQueue \/ Exit
  \/ \E c \in Conns : ReadFrame(c) \/ ReadRefused(c) \/ ReadEnd(c) \/ Push(c)
  \/ \E w \in Writers : Take(w) \/ ProcessFrame(w)
  \/ CloseListener
  \/ \E c \in todo : RangeVisit(c)

Next ==
  \/ LoggerStep \/ ListenerStep
  \/ \E c \in conns \ todo : RangeVisit(c)
  \/ Signal \/ Kill \/ Start

\* The Go scheduler runs some goroutine while one can run, and file and
\* socket calls of the listener return.  (It is fair to each of them; since
\* there are finitely many frames, less is enough.)  Nothing is assumed of
\* the logger, the network or the operator.
Fairness == WF_vars(ListenerStep)

Spec == Init /\ [][Next]_vars /\ Fairness
-----------------------------------------------------------------------------
MaybeCopy == Copies \cup {NoCopy}

TypeOK ==
  /\ logged \in 0..MaxFrames /\ buf \in Seq(Frames) /\ dropped \subseteq Frames
  /\ flight \in [on : Conns \cup {NoConn}, rest : Seq(Frames), n : Nat]
  /\ attempts \in 0..MaxAttempts /\ failed \subseteq 1..MaxAttempts
  /\ pool \subseteq Conns
  /\ wire \in [Conns -> Seq(Copies)]
  /\ eof \in [Conns -> BOOLEAN]
  /\ sock \in [Conns -> {"open", "closed"}]
  /\ hnd \in [Conns -> {"backlog", "accepted", "read", "push", "done"}]
  /\ hold \in [Conns -> MaybeCopy]
  /\ conns \subseteq Conns
  /\ queue \in Seq(Copies) /\ Len(queue) <= QueueCap
  /\ chOpen \in BOOLEAN
  /\ busy \in [Writers -> BOOLEAN]
  /\ whold \in [Writers -> MaybeCopy]
  /\ main \in {"accept", "store", "spawn", "drain", "exited", "killed"}
  /\ cur \in Conns \cup {NoConn}
  /\ lnOpen \in BOOLEAN /\ term \in BOOLEAN
  /\ closer \in {"wait", "listener", "range"}
  /\ todo \subseteq Conns
  /\ taken \subseteq Copies /\ settled \subseteq Copies
  /\ stops \in 0..MaxStops

(***************************************************************************)
(* After frameCh is closed no handler is left that could send to it (a     *)
(* send on a closed channel panics and the queue would die with it), none  *)
(* is about to start.                                                      *)
(***************************************************************************)
NoSendAfterClose ==
  (Up /\ ~chOpen) =>
    /\ main = "drain"
    /\ \A c \in Conns : hnd[c] \notin {"accepted", "read", "push"}

\* The same with the types, the capacity of the queue among them.
QueueSafe == TypeOK /\ NoSendAfterClose

(***************************************************************************)
(* While the listener has neither been stopped nor killed, a frame that    *)
(* was logged is still in the logger's buffer, counted as dropped, on the  *)
(* wire, in memory or settled, however often the logger gave up and sent   *)
(* again.  Frames behind a refused one are excepted: handleConn gives up   *)
(* the connection and the logger never learns of it.                       *)
(***************************************************************************)
NoSilentLoss ==
  stops = 0 =>
    \A f \in 1..logged :
      \/ f \in dropped
      \/ \E i \in DOMAIN buf : buf[i] = f
      \/ \E x \in OnWire \cup InMemory \cup settled : x.frame = f
      \/ \E g \in Refused : g <= f

(***************************************************************************)
(* A frame is settled twice only if the logger saw the earlier of the two  *)
(* attempts fail: a listener that reads slowly, a full queue or a          *)
(* connection that is used again add no copies.                            *)
(***************************************************************************)
DuplicatesOnlyByResend ==
  \A x, y \in settled :
    x.frame = y.frame /\ x.attempt < y.attempt => x.attempt \in failed

(***************************************************************************)
(* A signal ends the listener: nobody waits for ever for a connection that *)
(* slipped in between accept and the shutdown's Range, for room in the     *)
(* queue, or for a writer.                                                 *)
(***************************************************************************)
ShutdownCompletes == [](term => <>(~Up))

(***************************************************************************)
(* The pipeline implements FrameSink: what was read from a socket is       *)
(* settled once the listener has ended by itself ("zero loss" of main's    *)
(* shutdown comment), and nothing is settled that was not read.            *)
(***************************************************************************)
Sink == INSTANCE FrameSink WITH
          accepted <- taken,
          mode <- IF Up THEN "up" ELSE main

SinkSpec == Sink!Spec
=============================================================================
