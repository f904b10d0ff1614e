------------------------ MODULE FramePipelineProofs ------------------------
(***************************************************************************)
(* Proofs about FramePipeline, for any number of connections, writers,     *)
(* frames, attempts and stops and any size of the queue: type correctness, *)
(* no send to the closed frame queue, no silent loss, copies only by a     *)
(* resend, and that the pipeline implements FrameSink.                     *)
(***************************************************************************)
EXTENDS FramePipeline, SequenceTheorems, TLAPS

LEMMA HeadTail ==
  ASSUME NEW S, NEW s \in Seq(S), s # <<>>
  PROVE  /\ Head(s) \in S /\ Tail(s) \in Seq(S) /\ Len(s) \in Nat /\ Len(s) >= 1
         /\ Head(s) = s[1] /\ 1 \in DOMAIN s
         /\ Len(Tail(s)) = Len(s) - 1
         /\ \A i \in 1..(Len(s) - 1) : Tail(s)[i] = s[i + 1]
  BY HeadTailProperties, EmptySeq, LenProperties

LEMMA Prefix ==
  ASSUME NEW S, NEW s \in Seq(S), NEW k \in 0..Len(s)
  PROVE  /\ SubSeq(s, 1, k) \in Seq(S) /\ Len(SubSeq(s, 1, k)) = k
         /\ \A i \in 1..k : SubSeq(s, 1, k)[i] = s[i]
  BY SubSeqProperties, ElementOfSeq, LenProperties

LEMMA Suffix ==
  ASSUME NEW S, NEW s \in Seq(S), NEW k \in 0..Len(s)
  PROVE  /\ SubSeq(s, k + 1, Len(s)) \in Seq(S)
         /\ Len(SubSeq(s, k + 1, Len(s))) = Len(s) - k
         /\ \A i \in 1..(Len(s) - k) : SubSeq(s, k + 1, Len(s))[i] = s[k + i]
<1>1. \A i \in (k + 1)..Len(s) : s[i] \in S
  BY ElementOfSeq, LenProperties
<1>2. k + 1 \in Int /\ Len(s) \in Int
  BY LenProperties
<1> QED BY <1>1, <1>2, SubSeqProperties
-----------------------------------------------------------------------------
(***************************************************************************)
(* Types, with what the places of the logger, the handlers, the writers    *)
(* and the main goroutine say about their locals.                          *)
(***************************************************************************)
FlightOK ==
  flight # Idle => /\ flight.on \in Conns /\ attempts >= 1
                   /\ flight.n \in 0..Len(buf)

HoldsOK ==
  /\ \A c \in Conns : hnd[c] = "push" => hold[c] \in Copies
  /\ \A w \in Writers : busy[w] => whold[w] \in Copies

MainOK ==
  /\ main \in {"store", "spawn"} => cur \in Conns /\ hnd[cur] = "accepted"
  /\ \A c \in Conns : hnd[c] = "accepted" => main \in {"store", "spawn"} /\ c = cur
  /\ ~chOpen => main \in {"drain", "exited", "killed"}
  /\ main = "drain" => ~chOpen
  /\ main \in {"drain", "exited", "killed"} => \A c \in Conns : hnd[c] \notin {"read", "push"}

TInv == TypeOK /\ FlightOK /\ HoldsOK /\ MainOK

LEMMA TypeInit == Init => TInv
<1> SUFFICES ASSUME Init PROVE TInv
  OBVIOUS
<1>a. /\ <<>> \in Seq(Copies) /\ <<>> \in Seq(Frames) /\ Len(<<>>) = 0
      /\ NoCopy \in MaybeCopy
  BY EmptySeq DEF MaybeCopy
<1>b. flight \in [on : Conns \cup {NoConn}, rest : Seq(Frames), n : Nat]
  BY <1>a DEF Init, Idle
<1>c. /\ wire \in [Conns -> Seq(Copies)] /\ hold \in [Conns -> MaybeCopy]
      /\ whold \in [Writers -> MaybeCopy]
  BY <1>a DEF Init
<1>d. eof \in [Conns -> BOOLEAN] /\ busy \in [Writers -> BOOLEAN]
  BY DEF Init
<1>e. /\ sock \in [Conns -> {"open", "closed"}]
      /\ hnd \in [Conns -> {"backlog", "accepted", "read", "push", "done"}]
  BY DEF Init
<1>f. /\ logged \in 0..MaxFrames /\ buf \in Seq(Frames) /\ dropped \subseteq Frames
      /\ attempts \in 0..MaxAttempts /\ failed \subseteq 1..MaxAttempts
      /\ pool \subseteq Conns /\ conns \subseteq Conns /\ stops \in 0..MaxStops
      /\ queue \in Seq(Copies) /\ Len(queue) <= QueueCap
  BY PipelineAssumption, <1>a DEF Init
<1>1. TypeOK
  BY <1>b, <1>c, <1>d, <1>e, <1>f DEF Init, TypeOK
<1>2. FlightOK /\ HoldsOK /\ MainOK
  BY DEF Init, FlightOK, HoldsOK, MainOK
<1> QED BY <1>1, <1>2 DEF TInv

\* What a step of the logger leaves alone, for the rest of the invariant.
LEMMA TypeLogger ==
  ASSUME TInv, LoggerStep
  PROVE  TInv'
<1> USE PipelineAssumption DEF logger, net, handlers, writers, control, history
<1>1. CASE Log
  <2>1. logged' \in Frames /\ logged' \in 0..MaxFrames
    BY <1>1 DEF Log, TInv, TypeOK, Frames
  <2>2. buf' \in Seq(Frames) /\ Len(buf') \in Nat /\ Len(buf) \in Nat /\ Len(buf) <= Len(buf')
    <3>1. buf \in Seq(Frames) /\ Len(buf) \in Nat
      BY LenProperties DEF TInv, TypeOK
    <3>2. CASE buf' = buf
      BY <3>1, <3>2
    <3>3. CASE buf' = Append(buf, logged')
      BY <2>1, <3>1, <3>3, AppendProperties
    <3> QED BY <1>1, <3>2, <3>3 DEF Log
  <2>3. TypeOK'
    BY <1>1, <2>1, <2>2 DEF Log, TInv, TypeOK
  <2>4. FlightOK'
    BY <1>1, <2>2 DEF Log, TInv, TypeOK, FlightOK
  <2> QED BY <1>1, <2>3, <2>4 DEF Log, TInv, HoldsOK, MainOK
<1>2. ASSUME NEW c \in Conns, Flush(c) PROVE TInv'
  <2>1. wire' \in [Conns -> Seq(Copies)] /\ eof' \in [Conns -> BOOLEAN]
        /\ sock' \in [Conns -> {"open", "closed"}] /\ pool' \subseteq Conns
        /\ hnd' \in [Conns -> {"backlog", "accepted", "read", "push", "done"}]
    <3>1. CASE Reuse(c)
      BY <3>1 DEF Reuse, TInv, TypeOK
    <3>2. CASE Connect(c)
      BY <3>2, EmptySeq DEF Connect, TInv, TypeOK
    <3> QED BY <1>2, <3>1, <3>2 DEF Flush
  <2>2. flight' \in [on : Conns \cup {NoConn}, rest : Seq(Frames), n : Nat]
    BY <1>2, LenProperties DEF Flush, TInv, TypeOK
  <2>3. TypeOK'
    BY <1>2, <2>1, <2>2 DEF Flush, TInv, TypeOK
  <2>4. FlightOK'
    BY <1>2, LenProperties DEF Flush, TInv, TypeOK, FlightOK
  <2>5. \A x \in Conns : hnd'[x] = hnd[x] \/ (hnd[x] = "done" /\ hnd'[x] = "backlog")
    BY <1>2 DEF Flush, Reuse, Connect, TInv, TypeOK
  <2> QED BY <1>2, <2>3, <2>4, <2>5 DEF Flush, TInv, HoldsOK, MainOK
<1>3. CASE SendFrame
  <2>1. flight # Idle
    BY <1>3 DEF SendFrame, Idle
  <2>2. Head(flight.rest) \in Frames /\ Tail(flight.rest) \in Seq(Frames)
    BY <1>3, HeadTail DEF SendFrame, TInv, TypeOK
  <2> DEFINE x == [frame |-> Head(flight.rest), attempt |-> attempts]
  <2>3. x \in Copies
    BY <2>1, <2>2 DEF TInv, TypeOK, FlightOK, Copies
  <2>4. wire' \in [Conns -> Seq(Copies)]
    BY <1>3, <2>1, <2>3, AppendProperties DEF SendFrame, TInv, TypeOK, FlightOK
  <2>5. flight' \in [on : Conns \cup {NoConn}, rest : Seq(Frames), n : Nat]
        /\ flight'.on = flight.on /\ flight'.n = flight.n
    BY <1>3, <2>2 DEF SendFrame, TInv, TypeOK
  <2>6. TypeOK'
    BY <1>3, <2>4, <2>5 DEF SendFrame, TInv, TypeOK
  <2>7. FlightOK'
    BY <1>3, <2>1, <2>5 DEF SendFrame, TInv, FlightOK
  <2> QED BY <1>3, <2>6, <2>7 DEF SendFrame, TInv, HoldsOK, MainOK
<1>4. CASE SendDone
  <2>1. flight # Idle
    BY <1>4 DEF SendDone, Sent
  <2>2. buf' \in Seq(Frames)
    BY <1>4, <2>1, Suffix DEF SendDone, Sent, TInv, TypeOK, FlightOK
  <2>3. TypeOK' /\ FlightOK'
    BY <1>4, <2>1, <2>2, EmptySeq DEF SendDone, Sent, TInv, TypeOK, FlightOK, Idle
  <2> QED BY <1>4, <2>3 DEF SendDone, Sent, TInv, HoldsOK, MainOK
<1>5. CASE SendFail
  <2>1. TypeOK' /\ FlightOK'
    BY <1>5, EmptySeq DEF SendFail, TInv, TypeOK, FlightOK, Idle
  <2> QED BY <1>5, <2>1 DEF SendFail, TInv, HoldsOK, MainOK
<1> QED BY <1>1, <1>2, <1>3, <1>4, <1>5 DEF LoggerStep

\* Closing a connection keeps a prefix of what was on its way.
LEMMA ClosedTypes ==
  ASSUME TypeOK, NEW c \in Conns, Close(c)
  PROVE  /\ wire' \in [Conns -> Seq(Copies)] /\ sock' \in [Conns -> {"open", "closed"}]
         /\ \A x \in Conns \ {c} : wire'[x] = wire[x] /\ sock'[x] = sock[x]
         /\ \E k \in 0..Len(wire[c]) : wire'[c] = SubSeq(wire[c], 1, k)
  BY Prefix DEF Close, TypeOK

LEMMA TypeRange ==
  ASSUME TInv, NEW c \in Conns, RangeVisit(c)
  PROVE  TInv'
<1> USE DEF logger, net, handlers, writers, control, history
<1>1. wire' \in [Conns -> Seq(Copies)] /\ sock' \in [Conns -> {"open", "closed"}]
  BY ClosedTypes DEF RangeVisit, TInv, TypeOK
<1>2. TypeOK'
  BY <1>1 DEF RangeVisit, TInv, TypeOK
<1> QED BY <1>2 DEF RangeVisit, TInv, FlightOK, HoldsOK, MainOK

LEMMA TypeListener ==
  ASSUME TInv, ListenerStep
  PROVE  TInv'
<1> USE PipelineAssumption DEF logger, net, handlers, writers, control, history
<1>1. ASSUME NEW c \in Conns, Accept(c) PROVE TInv'
  BY <1>1 DEF Accept, TInv, TypeOK, FlightOK, HoldsOK, MainOK
<1>2. CASE Store
  BY <1>2 DEF Store, TInv, TypeOK, FlightOK, HoldsOK, MainOK
<1>3. CASE Spawn
  <2>1. wire' \in [Conns -> Seq(Copies)] /\ sock' \in [Conns -> {"open", "closed"}]
    BY <1>3, ClosedTypes DEF Spawn, TInv, TypeOK, MainOK
  <2>2. TypeOK'
    BY <1>3, <2>1 DEF Spawn, TInv, TypeOK
  <2> QED BY <1>3, <2>2 DEF Spawn, TInv, TypeOK, FlightOK, HoldsOK, MainOK
<1>4. CASE CloseQueue
  BY <1>4 DEF CloseQueue, HandlersDone, TInv, TypeOK, FlightOK, HoldsOK, MainOK
<1>5. CASE Exit
  BY <1>5 DEF Exit, TInv, TypeOK, FlightOK, HoldsOK, MainOK
<1>6. ASSUME NEW c \in Conns, ReadFrame(c) PROVE TInv'
  <2>1. Head(wire[c]) \in Copies /\ Tail(wire[c]) \in Seq(Copies)
    BY <1>6, HeadTail DEF ReadFrame, TInv, TypeOK
  <2>2. TypeOK'
    BY <1>6, <2>1 DEF ReadFrame, TInv, TypeOK, MaybeCopy
  <2>3. HoldsOK'
    BY <1>6, <2>1 DEF ReadFrame, TInv, TypeOK, HoldsOK
  <2>4. MainOK'
    BY <1>6 DEF ReadFrame, TInv, TypeOK, MainOK, Up
  <2> QED BY <1>6, <2>2, <2>3, <2>4 DEF ReadFrame, TInv, FlightOK
<1>7. ASSUME NEW c \in Conns, hnd[c] = "read", Return(c) PROVE TInv'
  <2>1. TypeOK'
    BY <1>7, EmptySeq DEF Return, TInv, TypeOK
  <2>2. FlightOK' /\ HoldsOK'
    BY <1>7 DEF Return, TInv, TypeOK, FlightOK, HoldsOK
  <2>3. \A x \in Conns : hnd'[x] = IF x = c THEN "done" ELSE hnd[x]
    BY <1>7 DEF Return, TInv, TypeOK
  <2>4. main' = main /\ cur' = cur /\ chOpen' = chOpen
    BY <1>7 DEF Return
  <2>5. MainOK'
    BY <1>7, <2>3, <2>4 DEF TInv, MainOK
  <2> QED BY <2>1, <2>2, <2>5 DEF TInv
<1>8. ASSUME NEW c \in Conns, Push(c) PROVE TInv'
  <2>1. hold[c] \in Copies
    BY <1>8 DEF Push, Enqueue, TInv, HoldsOK
  <2>2. queue' \in Seq(Copies) /\ Len(queue') <= QueueCap
    BY <1>8, <2>1, AppendProperties, LenProperties DEF Push, Enqueue, TInv, TypeOK
  <2>3. TypeOK'
    BY <1>8, <2>2 DEF Push, Enqueue, TInv, TypeOK, MaybeCopy
  <2>4. HoldsOK'
    BY <1>8 DEF Push, Enqueue, TInv, TypeOK, HoldsOK
  <2>5. MainOK'
    BY <1>8 DEF Push, Enqueue, TInv, TypeOK, MainOK
  <2> QED BY <1>8, <2>3, <2>4, <2>5 DEF Push, Enqueue, TInv, FlightOK
<1>9. ASSUME NEW w \in Writers, Take(w) PROVE TInv'
  <2>1. /\ Head(queue) \in Copies /\ Tail(queue) \in Seq(Copies)
        /\ Len(queue) \in Nat /\ Len(Tail(queue)) = Len(queue) - 1
    BY <1>9, HeadTail DEF Take, TInv, TypeOK
  <2>2. TypeOK'
    BY <1>9, <2>1 DEF Take, TInv, TypeOK, MaybeCopy
  <2>3. HoldsOK'
    BY <1>9, <2>1 DEF Take, TInv, TypeOK, HoldsOK
  <2> QED BY <1>9, <2>2, <2>3 DEF Take, TInv, FlightOK, MainOK
<1>10. ASSUME NEW w \in Writers, ProcessFrame(w) PROVE TInv'
  <2>1. TypeOK'
    BY <1>10 DEF ProcessFrame, TInv, TypeOK, HoldsOK, MaybeCopy
  <2>2. HoldsOK'
    BY <1>10 DEF ProcessFrame, TInv, TypeOK, HoldsOK
  <2> QED BY <1>10, <2>1, <2>2 DEF ProcessFrame, TInv, FlightOK, MainOK
<1>11. CASE CloseListener
  <2>1. TypeOK'
    BY <1>11, EmptySeq DEF CloseListener, ResetBacklog, TInv, TypeOK
  <2> QED BY <1>11, <2>1 DEF CloseListener, ResetBacklog, TInv, TypeOK, FlightOK, HoldsOK, MainOK
<1>12. ASSUME NEW c \in todo, RangeVisit(c) PROVE TInv'
  BY <1>12, TypeRange DEF TInv, TypeOK
<1> QED BY <1>1, <1>2, <1>3, <1>4, <1>5, <1>6, <1>7, <1>8, <1>9, <1>10, <1>11, <1>12
        DEF ListenerStep, ReadRefused, ReadEnd

LEMMA TypeStep ==
  ASSUME TInv, [Next]_vars
  PROVE  TInv'
<1> USE PipelineAssumption DEF logger, net, handlers, writers, control, history
<1>1. CASE UNCHANGED vars
  BY <1>1 DEF vars, TInv, TypeOK, FlightOK, HoldsOK, MainOK
<1>2. CASE LoggerStep
  BY <1>2, TypeLogger
<1>3. CASE ListenerStep
  BY <1>3, TypeListener
<1>4. ASSUME NEW c \in conns \ todo, RangeVisit(c) PROVE TInv'
  BY <1>4, TypeRange DEF TInv, TypeOK
<1>5. CASE Signal
  BY <1>5 DEF Signal, TInv, TypeOK, FlightOK, HoldsOK, MainOK
<1>6. CASE Kill
  <2>1. TypeOK'
    <3>1. /\ <<>> \in Seq(Copies) /\ Len(<<>>) = 0 /\ NoCopy \in MaybeCopy
      BY EmptySeq DEF MaybeCopy
    <3>2. /\ wire' \in [Conns -> Seq(Copies)] /\ hold' \in [Conns -> MaybeCopy]
          /\ whold' \in [Writers -> MaybeCopy]
      BY <1>6, <3>1 DEF Kill
    <3>3. /\ sock' \in [Conns -> {"open", "closed"}]
          /\ hnd' \in [Conns -> {"backlog", "accepted", "read", "push", "done"}]
          /\ busy' \in [Writers -> BOOLEAN]
      BY <1>6 DEF Kill
    <3>4. queue' \in Seq(Copies) /\ Len(queue') <= QueueCap /\ stops' \in 0..MaxStops
      BY <1>6, <3>1 DEF Kill, TInv, TypeOK
    <3> QED BY <1>6, <3>2, <3>3, <3>4 DEF Kill, TInv, TypeOK
  <2> QED BY <1>6, <2>1 DEF Kill, TInv, TypeOK, FlightOK, HoldsOK, MainOK, Up
<1>7. CASE Start
  <2>1. \A c \in Conns : hnd[c] \notin {"read", "push", "accepted"}
    BY <1>7 DEF Start, Up, TInv, TypeOK, MainOK
  <2> QED BY <1>7, <2>1 DEF Start, TInv, TypeOK, FlightOK, HoldsOK, MainOK
<1> QED BY <1>1, <1>2, <1>3, <1>4, <1>5, <1>6, <1>7 DEF Next

LEMMA TypeCorrect == Spec => []TInv
  BY TypeInit, TypeStep, PTL DEF Spec

LEMMA QueueSafeNow == TInv => QueueSafe
  BY DEF TInv, MainOK, QueueSafe, NoSendAfterClose, Up

\* Types hold and no handler is left that could send to the frame queue once
\* main has closed it (main.go: connWG.Wait before close(frameCh)); the queue
\* never holds more than its capacity.
THEOREM PipelineQueueSafe == Spec => []QueueSafe
  BY TypeCorrect, QueueSafeNow, PTL
-----------------------------------------------------------------------------
(***************************************************************************)
(* What a step does to the copies in the listener's memory.                *)
(***************************************************************************)
\* Steps that move no copy in memory.
Still ==
  /\ UNCHANGED <<hold, queue, writers>>
  /\ \A c \in Conns : (hnd'[c] = "push") = (hnd[c] = "push")

LEMMA StillMemory ==
  ASSUME TInv, Still
  PROVE  InMemory' = InMemory
<1>1. {c \in Conns : hnd'[c] = "push"} = {c \in Conns : hnd[c] = "push"}
  BY DEF Still
<1> QED BY <1>1 DEF Still, writers, InMemory

LEMMA LoggerStill ==
  ASSUME TInv, LoggerStep
  PROVE  Still /\ UNCHANGED <<settled, taken, main, stops>>
<1> USE DEF logger, net, handlers, writers, control, history
<1>1. CASE Log \/ SendFrame \/ SendDone \/ SendFail
  BY <1>1 DEF Log, SendFrame, SendDone, Sent, SendFail, Still
<1>2. ASSUME NEW c \in Conns, Flush(c)
      PROVE  Still /\ UNCHANGED <<settled, taken, main, stops>>
  <2>1. \A x \in Conns : (hnd'[x] = "push") = (hnd[x] = "push")
    BY <1>2 DEF Flush, Reuse, Connect, TInv, TypeOK
  <2> QED BY <1>2, <2>1 DEF Flush, Still
<1> QED BY <1>1, <1>2 DEF LoggerStep

\* The steps of main, of the shutdown goroutine and of connections that end.
Control ==
  \/ \E c \in Conns : Accept(c) \/ ReadRefused(c) \/ ReadEnd(c) \/ RangeVisit(c)
  \/ Store \/ Spawn \/ CloseQueue \/ CloseListener \/ Signal

LEMMA ControlStill ==
  ASSUME TInv, Control
  PROVE  Still /\ UNCHANGED <<settled, taken>> /\ (Up /\ Up')
<1> USE DEF logger, net, handlers, writers, control, history
<1>1. ASSUME NEW c \in Conns, Accept(c)
      PROVE  Still /\ UNCHANGED <<settled, taken>> /\ (Up /\ Up')
  BY <1>1 DEF Accept, Still, TInv, TypeOK, Up
<1>2. ASSUME NEW c \in Conns, ReadRefused(c) \/ ReadEnd(c)
      PROVE  Still /\ UNCHANGED <<settled, taken>> /\ (Up /\ Up')
  BY <1>2 DEF ReadRefused, ReadEnd, Return, Still, TInv, TypeOK, Up
<1>3. ASSUME NEW c \in Conns, RangeVisit(c)
      PROVE  Still /\ UNCHANGED <<settled, taken>> /\ (Up /\ Up')
  BY <1>3 DEF RangeVisit, Still, Up
<1>4. CASE Store
  BY <1>4 DEF Store, Still, Up
<1>5. CASE Spawn
  <2>1. cur \in Conns /\ hnd[cur] # "push"
    BY <1>5 DEF Spawn, TInv, MainOK
  <2> QED BY <1>5, <2>1 DEF Spawn, Still, TInv, TypeOK, Up
<1>6. CASE CloseQueue
  BY <1>6 DEF CloseQueue, Still, Up
<1>7. CASE CloseListener
  BY <1>7 DEF CloseListener, ResetBacklog, Still, TInv, TypeOK, Up
<1>8. CASE Signal
  BY <1>8 DEF Signal, Still, Up
<1> QED BY <1>1, <1>2, <1>3, <1>4, <1>5, <1>6, <1>7, <1>8 DEF Control

LEMMA ReadMemory ==
  ASSUME TInv, NEW c \in Conns, ReadFrame(c)
  PROVE  InMemory' = InMemory \cup {Head(wire[c])}
<1>1. /\ UNCHANGED <<queue, busy, whold>>
      /\ \A x \in Conns : x # c => hnd'[x] = hnd[x] /\ hold'[x] = hold[x]
      /\ hnd[c] = "read" /\ hnd'[c] = "push" /\ hold'[c] = Head(wire[c])
  BY DEF ReadFrame, writers, TInv, TypeOK
<1> QED BY <1>1 DEF InMemory

LEMMA PushMemory ==
  ASSUME TInv, NEW c \in Conns, Push(c)
  PROVE  InMemory' = InMemory
<1>1. /\ UNCHANGED <<busy, whold>>
      /\ \A x \in Conns : x # c => hnd'[x] = hnd[x] /\ hold'[x] = hold[x]
      /\ hnd[c] = "push" /\ hnd'[c] = "read"
  BY DEF Push, Enqueue, writers, TInv, TypeOK
<1>2. hold[c] \in Copies /\ queue \in Seq(Copies) /\ queue' = Append(queue, hold[c])
  BY DEF Push, Enqueue, TInv, TypeOK, HoldsOK
<1>3. /\ Len(queue) \in Nat /\ DOMAIN queue = 1..Len(queue)
      /\ DOMAIN queue' = 1..(Len(queue) + 1)
      /\ \A i \in DOMAIN queue : queue'[i] = queue[i]
      /\ queue'[Len(queue) + 1] = hold[c]
  BY <1>2, AppendProperties, LenProperties
<1>4. {queue'[i] : i \in DOMAIN queue'} = {queue[i] : i \in DOMAIN queue} \cup {hold[c]}
  BY <1>3
<1>5. {hold[x] : x \in {y \in Conns : hnd[y] = "push"}}
        = {hold'[x] : x \in {y \in Conns : hnd'[y] = "push"}} \cup {hold[c]}
  BY <1>1
<1> QED BY <1>1, <1>4, <1>5 DEF InMemory

LEMMA TakeMemory ==
  ASSUME TInv, NEW w \in Writers, Take(w)
  PROVE  InMemory' = InMemory
<1>1. /\ UNCHANGED <<hnd, hold>>
      /\ \A x \in Writers : x # w => busy'[x] = busy[x] /\ whold'[x] = whold[x]
      /\ ~busy[w] /\ busy'[w] /\ whold'[w] = Head(queue)
      /\ queue # <<>> /\ queue' = Tail(queue) /\ queue \in Seq(Copies)
  BY DEF Take, handlers, TInv, TypeOK
<1>2. /\ Len(queue) \in Nat /\ Len(queue) >= 1 /\ DOMAIN queue = 1..Len(queue)
      /\ DOMAIN queue' = 1..(Len(queue) - 1)
      /\ \A i \in DOMAIN queue' : queue'[i] = queue[i + 1]
      /\ Head(queue) = queue[1]
  BY <1>1, HeadTail, LenProperties
<1>3. {queue[i] : i \in DOMAIN queue} = {queue'[i] : i \in DOMAIN queue'} \cup {Head(queue)}
  <2>1. ASSUME NEW i \in DOMAIN queue, i # 1
        PROVE  i - 1 \in DOMAIN queue' /\ queue'[i - 1] = queue[i]
    BY <1>2, <2>1
  <2> QED BY <1>2, <2>1
<1>4. {whold'[x] : x \in {y \in Writers : busy'[y]}}
        = {whold[x] : x \in {y \in Writers : busy[y]}} \cup {Head(queue)}
  BY <1>1
<1> QED BY <1>1, <1>3, <1>4 DEF InMemory

LEMMA ProcessMemory ==
  ASSUME TInv, NEW w \in Writers, ProcessFrame(w)
  PROVE  InMemory = InMemory' \cup {whold[w]}
<1>1. /\ UNCHANGED <<hnd, hold, queue>>
      /\ \A x \in Writers : x # w => busy'[x] = busy[x] /\ whold'[x] = whold[x]
      /\ busy[w] /\ ~busy'[w]
  BY DEF ProcessFrame, handlers, TInv, TypeOK
<1>2. {whold[x] : x \in {y \in Writers : busy[y]}}
        = {whold'[x] : x \in {y \in Writers : busy'[y]}} \cup {whold[w]}
  BY <1>1
<1> QED BY <1>1, <1>2 DEF InMemory

\* main is done: nothing is left in memory.
LEMMA EmptyMemory ==
  ASSUME TInv, main = "drain", WritersDone
  PROVE  InMemory = {}
  BY DEF TInv, MainOK, WritersDone, InMemory

\* A step of the pipeline, sorted by what it does to the copies in memory.
LEMMA Steps ==
  ASSUME TInv, [Next]_vars
  PROVE  \/ UNCHANGED vars \/ LoggerStep \/ Control
         \/ \E c \in Conns : ReadFrame(c) \/ Push(c)
         \/ \E w \in Writers : Take(w) \/ ProcessFrame(w)
         \/ Exit \/ Kill \/ Start
  BY DEF Next, ListenerStep, Control, TInv, TypeOK
-----------------------------------------------------------------------------
(***************************************************************************)
(* FrameSink.  What was taken from a socket and is not settled is in       *)
(* memory, and the listener ends by itself only with an empty memory.      *)
(***************************************************************************)
Books == InMemory \subseteq taken /\ settled \subseteq taken /\ taken \subseteq settled \cup InMemory

RInv == TInv /\ Books

LEMMA BooksInit == Init => RInv
<1> SUFFICES ASSUME Init PROVE RInv
  OBVIOUS
<1>1. InMemory = {}
  BY DEF Init, InMemory
<1> QED BY <1>1, TypeInit DEF Init, RInv, Books

LEMMA BooksStep ==
  ASSUME RInv, [Next]_vars
  PROVE  RInv'
<1>0. TInv /\ Books /\ TInv'
  BY TypeStep DEF RInv
<1>1. ASSUME Still, UNCHANGED <<settled, taken>> PROVE Books'
  BY <1>0, <1>1, StillMemory DEF Books
<1>2. CASE UNCHANGED vars \/ LoggerStep \/ Control \/ Exit \/ Start
  <2>1. Still /\ UNCHANGED <<settled, taken>>
    BY <1>0, <1>2, LoggerStill, ControlStill
       DEF vars, Exit, Start, Still, handlers, writers, history
  <2> QED BY <1>1, <2>1, <1>0 DEF RInv
<1>3. ASSUME NEW c \in Conns, ReadFrame(c) PROVE Books'
  BY <1>0, <1>3, ReadMemory DEF ReadFrame, Books
<1>4. ASSUME NEW c \in Conns, Push(c) PROVE Books'
  BY <1>0, <1>4, PushMemory DEF Push, Enqueue, history, Books
<1>5. ASSUME NEW w \in Writers, Take(w) PROVE Books'
  BY <1>0, <1>5, TakeMemory DEF Take, history, Books
<1>6. ASSUME NEW w \in Writers, ProcessFrame(w) PROVE Books'
  BY <1>0, <1>6, ProcessMemory DEF ProcessFrame, Books
<1>7. CASE Kill
  <2>1. InMemory' = {}
    BY <1>7 DEF Kill, InMemory
  <2> QED BY <1>0, <1>7, <2>1 DEF Kill, Books, RInv
<1> QED BY <1>0, <1>2, <1>3, <1>4, <1>5, <1>6, <1>7, Steps DEF RInv

LEMMA SinkInit == Init => Sink!Init
  BY DEF Init, Sink!Init, Up

LEMMA SinkStep ==
  ASSUME RInv, [Next]_vars
  PROVE  [Sink!Next]_(Sink!vars)
<1> USE DEF Sink!Next, Sink!vars
<1>0. TInv /\ Books /\ TInv'
  BY TypeStep DEF RInv
<1>1. CASE UNCHANGED vars
  BY <1>1 DEF vars, control, history, Up
<1>2. CASE LoggerStep
  BY <1>0, <1>2, LoggerStill DEF Up
<1>3. CASE Control
  BY <1>0, <1>3, ControlStill
<1>4. ASSUME NEW c \in Conns, ReadFrame(c) PROVE [Sink!Next]_(Sink!vars)
  <2> DEFINE x == Head(wire[c])
  <2>1. Up /\ Up' /\ taken' = taken \cup {x} /\ settled' = settled /\ x \in Copies
    BY <1>0, <1>4, HeadTail DEF ReadFrame, control, Up, TInv, TypeOK
  <2>2. CASE x \in taken
    BY <2>1, <2>2
  <2>3. CASE x \notin taken
    <3>1. Sink!Accept(x)
      BY <2>1, <2>3 DEF Sink!Accept
    <3> QED BY <2>1, <3>1
  <2> QED BY <2>2, <2>3
<1>5. ASSUME NEW c \in Conns, Push(c) PROVE [Sink!Next]_(Sink!vars)
  BY <1>5 DEF Push, Enqueue, history, control, Up
<1>6. ASSUME NEW w \in Writers, Take(w) PROVE [Sink!Next]_(Sink!vars)
  BY <1>6 DEF Take, history, control, Up
<1>7. ASSUME NEW w \in Writers, ProcessFrame(w) PROVE [Sink!Next]_(Sink!vars)
  <2>1. /\ Up /\ Up' /\ taken' = taken /\ settled' = settled \cup {whold[w]}
        /\ whold[w] \in Copies
    BY <1>0, <1>7 DEF ProcessFrame, control, Up, TInv, HoldsOK
  <2>2. whold[w] \in taken
    BY <1>0, <1>7, ProcessMemory DEF Books
  <2>3. Sink!Settle(whold[w])
    BY <2>1, <2>2 DEF Sink!Settle
  <2> QED BY <2>1, <2>3
<1>8. CASE Exit
  <2>1. taken \subseteq settled
    BY <1>0, <1>8, EmptyMemory DEF Exit, Books
  <2>2. Sink!Exit
    BY <1>8, <2>1 DEF Exit, history, Up, Sink!Exit
  <2> QED BY <2>2
<1>9. CASE Kill
  <2>1. Sink!Kill
    BY <1>9 DEF Kill, Up, Sink!Kill
  <2> QED BY <2>1
<1>10. CASE Start
  <2>1. Sink!Start
    BY <1>0, <1>10 DEF Start, history, Up, Sink!Start, TInv, TypeOK
  <2> QED BY <2>1
<1> QED BY <1>0, <1>1, <1>2, <1>3, <1>4, <1>5, <1>6, <1>7, <1>8, <1>9, <1>10, Steps

\* The pipeline implements FrameSink: whatever was read from a socket is
\* settled once the listener has ended by itself (main.go: "zero loss" of the
\* shutdown), and nothing is settled that was not read; only a kill forgets.
THEOREM ImplementsSink == Spec => SinkSpec
<1>1. Init => Sink!Init
  BY SinkInit
<1>2. RInv /\ [Next]_vars => [Sink!Next]_(Sink!vars)
  BY SinkStep
<1> QED BY BooksInit, BooksStep, <1>1, <1>2, PTL DEF Spec, SinkSpec, Sink!Spec
-----------------------------------------------------------------------------
(***************************************************************************)
(* The order of frames.  The buffer is in the order of logging, a send     *)
(* goes through its first n frames, and a copy that is not of a failed     *)
(* attempt belongs to the send in progress or to a frame that has left the *)
(* buffer.                                                                 *)
(***************************************************************************)
Known == OnWire \cup taken

\* How many frames of the buffer have been sent on connection c.
SentOn(c) == IF c = flight.on THEN flight.n - Len(flight.rest) ELSE 0

BufSorted ==
  /\ \A i, j \in DOMAIN buf : i < j => buf[i] < buf[j]
  /\ \A i \in DOMAIN buf : buf[i] <= logged

RestOfBuf ==
  flight # Idle =>
    /\ Len(flight.rest) <= flight.n
    /\ \A i \in 1..Len(flight.rest) :
         flight.rest[i] = buf[(flight.n - Len(flight.rest)) + i]

KnownOld == \A x \in Known : x.attempt <= attempts /\ x.frame <= logged

KnownDone ==
  \A x \in Known :
    \/ x.attempt \in failed
    \/ \A i \in DOMAIN buf : buf[i] # x.frame
    \/ flight # Idle /\ x.attempt = attempts /\ \E i \in 1..flight.n : buf[i] = x.frame

Resent ==
  \A x, y \in Known : x.frame = y.frame /\ x.attempt < y.attempt => x.attempt \in failed

Order == BufSorted /\ RestOfBuf /\ KnownOld /\ KnownDone /\ Resent

OInv == RInv /\ Order

\* t is a run of consecutive elements of s.
Factor(t, s) == \E k \in Nat : \A i \in DOMAIN t : i + k \in DOMAIN s /\ t[i] = s[i + k]

\* What reading and closing a connection do to what it carries.
Shrunk(t, s) ==
  \/ t = s \/ t = <<>>
  \/ s # <<>> /\ t = Tail(s)
  \/ \E k \in 0..Len(s) : t = SubSeq(s, 1, k)

LEMMA FactorCases ==
  ASSUME NEW S, NEW s \in Seq(S), NEW t, Shrunk(t, s)
  PROVE  Factor(t, s)
<1>0. Len(s) \in Nat /\ DOMAIN s = 1..Len(s)
  BY LenProperties
<1>1. CASE t = s
  <2> DEFINE n == Len(s)
  <2>0. DOMAIN t = 1..n /\ DOMAIN s = 1..n /\ n \in Nat
    BY <1>0, <1>1
  <2> HIDE DEF n
  <2>1. ASSUME NEW i \in DOMAIN t PROVE i + 0 \in DOMAIN s /\ t[i] = s[i + 0]
    <3>1. i \in Int /\ i + 0 = i
      BY <2>0, <2>1
    <3> QED BY <1>1, <2>1, <3>1
  <2> QED BY <2>1 DEF Factor
<1>2. CASE t = <<>>
  <2>1. DOMAIN t = {}
    BY <1>2
  <2> QED BY <2>1 DEF Factor
<1>3. CASE s # <<>> /\ t = Tail(s)
  <2>1. DOMAIN t = 1..(Len(s) - 1)
    <3>1. t \in Seq(S) /\ Len(t) = Len(s) - 1
      BY <1>3, HeadTail
    <3> QED BY <3>1, LenProperties
  <2>2. ASSUME NEW i \in DOMAIN t PROVE i + 1 \in DOMAIN s /\ t[i] = s[i + 1]
    <3>1. i \in 1..(Len(s) - 1)
      BY <2>1, <2>2
    <3>2. i + 1 \in 1..Len(s)
      BY <1>0, <3>1
    <3>3. t[i] = s[i + 1]
      BY <1>3, <3>1, HeadTail
    <3> QED BY <1>0, <3>2, <3>3
  <2> QED BY <2>2 DEF Factor
<1>4. ASSUME NEW k \in 0..Len(s), t = SubSeq(s, 1, k)
      PROVE  Factor(t, s)
  <2>0. t \in Seq(S) /\ Len(t) = k /\ \A i \in 1..k : t[i] = s[i]
    BY <1>4, Prefix
  <2>1. DOMAIN t = 1..k /\ \A i \in 1..k : t[i] = s[i]
    BY <2>0, LenProperties
  <2>2. ASSUME NEW i \in DOMAIN t PROVE i + 0 \in DOMAIN s /\ t[i] = s[i + 0]
    <3>1. i \in 1..k
      BY <2>1, <2>2
    <3>2. i + 0 = i /\ i \in 1..Len(s)
      BY <1>0, <3>1
    <3> QED BY <1>0, <2>1, <3>1, <3>2
  <2> QED BY <2>2 DEF Factor
<1> QED BY <1>1, <1>2, <1>3, <1>4 DEF Shrunk

LEMMA ShrunkBy ==
  /\ \A s, t : t = s => Shrunk(t, s)
  /\ \A s : Shrunk(<<>>, s)
  /\ \A s : s # <<>> => Shrunk(Tail(s), s)
  /\ \A s : \A k \in 0..Len(s) : Shrunk(SubSeq(s, 1, k), s)
<1>1. \A s, t : t = s => Shrunk(t, s)
  BY Zenon DEF Shrunk
<1>2. \A s : Shrunk(<<>>, s)
  BY SMT DEF Shrunk
<1>3. \A s : s # <<>> => Shrunk(Tail(s), s)
  BY Zenon DEF Shrunk
<1>4. ASSUME NEW s, NEW k \in 0..Len(s) PROVE Shrunk(SubSeq(s, 1, k), s)
  <2> DEFINE P(l) == SubSeq(s, 1, l)
  <2>1. \E l \in 0..Len(s) : P(k) = P(l)
    BY <1>4
  <2> QED BY <2>1, Zenon DEF Shrunk
<1> QED BY <1>1, <1>2, <1>3, <1>4

\* Only SendFrame puts something on the wire.
LEMMA WireFactors ==
  ASSUME TInv, [Next]_vars, ~SendFrame
  PROVE  \A c \in Conns : Factor(wire'[c], wire[c])
<1> USE DEF logger, net
<1>0. \A c \in Conns : wire[c] \in Seq(Copies)
  BY DEF TInv, TypeOK
<1>1. SUFFICES \A c \in Conns : Shrunk(wire'[c], wire[c])
  BY <1>0, FactorCases
<1>2. CASE LoggerStep
  <2>1. ASSUME NEW c \in Conns, Flush(c)
        PROVE  \A x \in Conns : Shrunk(wire'[x], wire[x])
    <3>1. \A x \in Conns : wire'[x] = wire[x] \/ wire'[x] = <<>>
      BY <2>1 DEF Flush, Reuse, Connect, TInv, TypeOK
    <3> QED BY <3>1, ShrunkBy
  <2>2. CASE Log \/ SendDone \/ SendFail
    BY <2>2, ShrunkBy DEF Log, SendDone, Sent, SendFail
  <2> QED BY <1>2, <2>1, <2>2, ShrunkBy DEF LoggerStep
<1>3. ASSUME NEW c \in Conns, ReadRefused(c) \/ ReadEnd(c)
      PROVE  \A x \in Conns : Shrunk(wire'[x], wire[x])
  <2>1. \A x \in Conns : wire'[x] = wire[x] \/ wire'[x] = <<>>
    BY <1>3 DEF ReadRefused, ReadEnd, Return, TInv, TypeOK
  <2> QED BY <2>1, ShrunkBy
<1>4. ASSUME NEW c \in Conns, Close(c)
      PROVE  \A x \in Conns : Shrunk(wire'[x], wire[x])
  BY <1>4, ClosedTypes, ShrunkBy DEF TInv
<1>5. CASE Control
  <2>1. CASE CloseListener
    BY <2>1, ShrunkBy DEF CloseListener, ResetBacklog
  <2>2. CASE Spawn
    <3>1. cur \in Conns
      BY <2>2 DEF Spawn, TInv, MainOK
    <3> QED BY <2>2, <3>1, <1>4, ShrunkBy DEF Spawn
  <2>3. ASSUME NEW c \in Conns, RangeVisit(c)
        PROVE  \A x \in Conns : Shrunk(wire'[x], wire[x])
    BY <2>3, <1>4, ShrunkBy DEF RangeVisit
  <2>4. CASE Store \/ CloseQueue \/ Signal \/ \E c \in Conns : Accept(c)
    BY <2>4, ShrunkBy DEF Store, CloseQueue, Signal, Accept
  <2> QED BY <1>3, <1>5, <2>1, <2>2, <2>3, <2>4 DEF Control
<1>6. ASSUME NEW c \in Conns, ReadFrame(c)
      PROVE  \A x \in Conns : Shrunk(wire'[x], wire[x])
  BY <1>6, ShrunkBy DEF ReadFrame, TInv, TypeOK
<1>7. CASE Exit \/ Kill \/ Start \/ UNCHANGED vars
  BY <1>7, ShrunkBy DEF Exit, Kill, Start, vars
<1>8. CASE (\E c \in Conns : Push(c)) \/ \E w \in Writers : Take(w) \/ ProcessFrame(w)
  BY <1>8, ShrunkBy DEF Push, Enqueue, Take, ProcessFrame
<1> QED BY <1>2, <1>5, <1>6, <1>7, <1>8, Steps

LEMMA OnWireDef ==
  /\ \A x : x \in OnWire <=> \E c \in Conns : \E i \in DOMAIN wire[c] : wire[c][i] = x
  /\ \A x : x \in OnWire' <=> \E c \in Conns : \E i \in DOMAIN wire'[c] : wire'[c][i] = x
  BY DEF OnWire

LEMMA NothingNewOnWire ==
  ASSUME TInv, [Next]_vars, ~SendFrame
  PROVE  OnWire' \subseteq OnWire
  BY WireFactors, OnWireDef DEF Factor

\* Outside the logger no copy appears.
LEMMA NothingNew ==
  ASSUME RInv, [Next]_vars, ~LoggerStep
  PROVE  Known' \subseteq Known /\ UNCHANGED logger
<1>0. TInv /\ Books
  BY DEF RInv
<1>1. OnWire' \subseteq OnWire
  BY <1>0, NothingNewOnWire DEF LoggerStep
<1>2. UNCHANGED logger
  BY <1>0, Steps DEF Control, Accept, ReadRefused, ReadEnd, Return, RangeVisit, Store, Spawn,
     CloseQueue, CloseListener, Signal, ReadFrame, Push, Enqueue, Take, ProcessFrame, Exit,
     Kill, Start, vars
<1>3. ASSUME NEW c \in Conns, ReadFrame(c) PROVE taken' \subseteq Known
  <2>1. Head(wire[c]) \in OnWire
    BY <1>0, <1>3, HeadTail, OnWireDef DEF ReadFrame, TInv, TypeOK
  <2> QED BY <1>3, <2>1 DEF ReadFrame, Known
<1>4. CASE Control
  BY <1>0, <1>4, ControlStill, <1>1, <1>2 DEF Known
<1>5. CASE Exit \/ Start \/ UNCHANGED vars
  BY <1>5, <1>1, <1>2 DEF Exit, Start, vars, history, Known
<1>6. CASE Kill
  BY <1>0, <1>6, <1>1, <1>2 DEF Kill, Known, Books
<1>7. CASE (\E c \in Conns : Push(c)) \/ \E w \in Writers : Take(w) \/ ProcessFrame(w)
  BY <1>7, <1>1, <1>2 DEF Push, Enqueue, Take, ProcessFrame, history, Known
<1> QED BY <1>0, <1>1, <1>2, <1>3, <1>4, <1>5, <1>6, <1>7, Steps DEF Known

LEMMA BufDomain ==
  ASSUME TInv
  PROVE  /\ buf \in Seq(Frames) /\ Len(buf) \in Nat /\ DOMAIN buf = 1..Len(buf)
         /\ \A i \in 1..Len(buf) : buf[i] \in Nat
         /\ flight.rest \in Seq(Frames) /\ Len(flight.rest) \in Nat
         /\ flight.n \in Nat /\ logged \in Nat /\ attempts \in Nat
  BY PipelineAssumption, LenProperties, ElementOfSeq DEF TInv, TypeOK, Frames

\* The part of Order about the logger alone.
LEMMA BufStep ==
  ASSUME TInv, TInv', BufSorted, RestOfBuf, LoggerStep
  PROVE  BufSorted' /\ RestOfBuf'
<1>0. /\ Len(buf) \in Nat /\ DOMAIN buf = 1..Len(buf) /\ flight.n \in Nat
      /\ \A i \in 1..Len(buf) : buf[i] \in Nat
      /\ Len(flight.rest) \in Nat /\ logged \in Nat
  BY BufDomain
<1>1. CASE Log
  <2>1. CASE buf' = buf
    <3>1. flight' = flight /\ logged' = logged + 1
      BY <1>1 DEF Log
    <3>2. BufSorted'
      BY <1>0, <2>1, <3>1 DEF BufSorted
    <3> QED BY <2>1, <3>1, <3>2 DEF RestOfBuf
  <2>2. CASE buf' = Append(buf, logged') /\ logged' = logged + 1
    <3>1. /\ DOMAIN buf' = 1..(Len(buf) + 1) /\ buf'[Len(buf) + 1] = logged + 1
          /\ \A i \in 1..Len(buf) : buf'[i] = buf[i]
      <4>1. buf \in Seq(Nat) /\ logged + 1 \in Nat
        <5>1. Frames \subseteq Nat
          BY DEF Frames
        <5> QED BY <1>0, <5>1, BufDomain, SeqMonotonic
      <4> QED BY <2>2, <4>1, AppendProperties, LenProperties
    <3>2. BufSorted'
      BY <1>0, <2>2, <3>1 DEF BufSorted
    <3>3. flight' = flight
      BY <1>1 DEF Log
    <3>4. RestOfBuf'
      <4> SUFFICES ASSUME flight # Idle,
                          NEW i \in 1..Len(flight.rest)
                   PROVE  flight.rest[i] = buf'[(flight.n - Len(flight.rest)) + i]
        BY <3>3 DEF RestOfBuf
      <4>1. (flight.n - Len(flight.rest)) + i \in 1..Len(buf)
        BY <1>0 DEF RestOfBuf, TInv, FlightOK
      <4> QED BY <3>1, <4>1 DEF RestOfBuf
    <3> QED BY <3>2, <3>4
  <2> QED BY <1>1, <2>1, <2>2 DEF Log
<1>2. ASSUME NEW c \in Conns, Flush(c) PROVE BufSorted' /\ RestOfBuf'
  <2>1. flight' = [on |-> c, rest |-> buf, n |-> Len(buf)] /\ buf' = buf /\ logged' = logged
    BY <1>2 DEF Flush
  <2> QED BY <1>0, <2>1 DEF BufSorted, RestOfBuf
<1>3. CASE SendFrame
  <2>1. /\ flight # Idle /\ flight'.n = flight.n /\ flight'.rest = Tail(flight.rest)
        /\ flight.rest # <<>> /\ buf' = buf /\ logged' = logged
    BY <1>3 DEF SendFrame, Idle, TInv, TypeOK
  <2>2. /\ Len(flight'.rest) = Len(flight.rest) - 1
        /\ \A i \in 1..(Len(flight.rest) - 1) : flight'.rest[i] = flight.rest[i + 1]
    BY <2>1, HeadTail DEF TInv, TypeOK
  <2>3. RestOfBuf'
    <3>1. ASSUME NEW i \in 1..(Len(flight.rest) - 1)
          PROVE  flight'.rest[i] = buf[(flight.n - (Len(flight.rest) - 1)) + i]
      <4>1. i + 1 \in 1..Len(flight.rest)
            /\ (flight.n - (Len(flight.rest) - 1)) + i = (flight.n - Len(flight.rest)) + (i + 1)
        BY <1>0
      <4> QED BY <2>1, <2>2, <4>1 DEF RestOfBuf
    <3>2. Len(flight.rest) - 1 <= flight.n
      BY <1>0, <2>1 DEF RestOfBuf
    <3> QED BY <2>1, <2>2, <3>1, <3>2 DEF RestOfBuf
  <2> QED BY <2>1, <2>3 DEF BufSorted
<1>4. CASE SendDone
  <2>1. /\ buf' = SubSeq(buf, flight.n + 1, Len(buf)) /\ flight' = Idle /\ logged' = logged
        /\ flight.n \in 0..Len(buf)
    BY <1>4 DEF SendDone, Sent, TInv, FlightOK
  <2>2. /\ DOMAIN buf' = 1..(Len(buf) - flight.n)
        /\ \A i \in 1..(Len(buf) - flight.n) : buf'[i] = buf[flight.n + i]
    <3>1. buf' \in Seq(Frames) /\ Len(buf') = Len(buf) - flight.n
      BY <2>1, Suffix, BufDomain
    <3> QED BY <2>1, <3>1, Suffix, BufDomain, LenProperties
  <2>3. \A i \in DOMAIN buf' : flight.n + i \in DOMAIN buf
    BY <1>0, <2>1, <2>2
  <2>4. \A i \in DOMAIN buf' : i \in Nat /\ buf'[i] = buf[flight.n + i]
    BY <1>0, <2>1, <2>2
  <2>5. BufSorted'
    <3>1. ASSUME NEW i \in DOMAIN buf', NEW j \in DOMAIN buf', i < j
          PROVE  buf'[i] < buf'[j]
      <4>1. flight.n + i < flight.n + j
        BY <1>0, <2>4, <3>1
      <4> QED BY <2>3, <2>4, <4>1 DEF BufSorted
    <3>2. \A i \in DOMAIN buf' : buf'[i] <= logged'
      BY <2>1, <2>3, <2>4 DEF BufSorted
    <3> QED BY <3>1, <3>2 DEF BufSorted
  <2> QED BY <2>1, <2>5 DEF RestOfBuf
<1>5. CASE SendFail
  BY <1>5 DEF SendFail, BufSorted, RestOfBuf
<1> QED BY <1>1, <1>2, <1>3, <1>4, <1>5 DEF LoggerStep

LEMMA CopyFields ==
  ASSUME TInv
  PROVE  /\ Known \subseteq Copies
         /\ \A x \in Copies : x.frame \in Nat /\ x.attempt \in Nat
<1>1. OnWire \subseteq Copies
  BY OnWireDef, LenProperties, ElementOfSeq DEF TInv, TypeOK
<1>2. taken \subseteq Copies
  BY DEF TInv, TypeOK
<1>3. \A x \in Copies : x.frame \in Nat /\ x.attempt \in Nat
  BY PipelineAssumption DEF Copies, Frames
<1> QED BY <1>1, <1>2, <1>3 DEF Known

\* The copy a send puts on the wire.
NewCopy == [frame |-> Head(flight.rest), attempt |-> attempts]

LEMMA SendKnown ==
  ASSUME TInv, RestOfBuf, SendFrame
  PROVE  /\ Known' \subseteq Known \cup {NewCopy}
         /\ flight # Idle
         /\ SentOn(flight.on) + 1 \in 1..flight.n /\ SentOn(flight.on) + 1 \in DOMAIN buf
         /\ NewCopy.frame = buf[SentOn(flight.on) + 1] /\ NewCopy.attempt = attempts
         /\ SentOn(flight.on)' = SentOn(flight.on) + 1
<1>1. flight # Idle /\ flight.rest # <<>>
  BY DEF SendFrame, Idle
<1>2. /\ Len(flight.rest) \in Nat /\ Len(flight.rest) >= 1 /\ Head(flight.rest) = flight.rest[1]
      /\ Len(Tail(flight.rest)) = Len(flight.rest) - 1
  BY <1>1, HeadTail, BufDomain
<1>3. SentOn(flight.on) = flight.n - Len(flight.rest)
  BY DEF SentOn
<1>4. /\ SentOn(flight.on) + 1 \in 1..flight.n /\ SentOn(flight.on) + 1 \in DOMAIN buf
  BY <1>1, <1>2, <1>3, BufDomain DEF RestOfBuf, TInv, FlightOK
<1>5. NewCopy.frame = buf[SentOn(flight.on) + 1] /\ NewCopy.attempt = attempts
  BY <1>1, <1>2, <1>3 DEF RestOfBuf, NewCopy
<1>6. SentOn(flight.on)' = SentOn(flight.on) + 1
  <2>1. flight'.on = flight.on /\ flight'.n = flight.n /\ flight'.rest = Tail(flight.rest)
    BY DEF SendFrame, TInv, TypeOK
  <2> QED BY <1>2, <1>3, <2>1, BufDomain DEF SentOn
<1>7. OnWire' \subseteq OnWire \cup {NewCopy}
  <2>1. NewCopy \in Copies
    BY <1>1, HeadTail, BufDomain DEF NewCopy, Copies, TInv, TypeOK, FlightOK
  <2>2. ASSUME NEW c \in Conns, NEW i \in DOMAIN wire'[c]
        PROVE  wire'[c][i] = NewCopy \/ (i \in DOMAIN wire[c] /\ wire'[c][i] = wire[c][i])
    <3>1. CASE wire'[c] = wire[c]
      BY <2>2, <3>1
    <3>2. CASE wire'[c] = Append(wire[c], NewCopy)
      <4>0. wire[c] \in Seq(Copies)
        BY DEF TInv, TypeOK
      <4>1. DOMAIN wire'[c] = 1..(Len(wire[c]) + 1) /\ DOMAIN wire[c] = 1..Len(wire[c])
            /\ Len(wire[c]) \in Nat
        BY <2>1, <3>2, <4>0, AppendProperties, LenProperties
      <4>2. \A j \in 1..Len(wire[c]) : wire'[c][j] = wire[c][j]
        BY <2>1, <3>2, <4>0, AppendProperties
      <4>3. wire'[c][Len(wire[c]) + 1] = NewCopy
        BY <2>1, <3>2, <4>0, AppendProperties
      <4>4. i = Len(wire[c]) + 1 \/ i \in 1..Len(wire[c])
        BY <2>2, <4>1
      <4> QED BY <4>1, <4>2, <4>3, <4>4
    <3> QED BY <3>1, <3>2 DEF SendFrame, NewCopy, TInv, TypeOK
  <2> QED BY <2>2, OnWireDef
<1>8. taken' = taken
  BY LoggerStill DEF LoggerStep
<1> QED BY <1>1, <1>4, <1>5, <1>6, <1>7, <1>8 DEF Known

LEMMA LoggerKnown ==
  ASSUME TInv, LoggerStep, ~SendFrame
  PROVE  Known' \subseteq Known
<1>1. OnWire' \subseteq OnWire
  BY NothingNewOnWire DEF Next
<1> QED BY <1>1, LoggerStill DEF Known

LEMMA OrderLogger ==
  ASSUME OInv, TInv', LoggerStep
  PROVE  Order'
<1>0. /\ TInv /\ BufSorted /\ RestOfBuf /\ KnownOld /\ KnownDone /\ Resent
      /\ logged \in Nat /\ attempts \in Nat /\ DOMAIN buf = 1..Len(buf) /\ Len(buf) \in Nat
      /\ flight.n \in Nat /\ \A i \in DOMAIN buf : buf[i] \in Nat
  BY BufDomain DEF OInv, RInv, Order
<1>1. BufSorted' /\ RestOfBuf'
  BY <1>0, BufStep
<1>2. \A x \in Known : x.frame \in Nat /\ x.attempt \in Nat
  BY <1>0, CopyFields
<1>3. CASE Log
  <2>1. /\ Known' \subseteq Known /\ logged' = logged + 1
        /\ attempts' = attempts /\ failed' = failed /\ flight' = flight
    BY <1>0, <1>3, LoggerKnown DEF Log, SendFrame, LoggerStep
  <2>2. KnownOld'
    BY <1>0, <1>2, <2>1 DEF KnownOld
  <2>3. \A i \in DOMAIN buf' : buf'[i] = logged + 1 \/ (i \in DOMAIN buf /\ buf'[i] = buf[i])
    <3>1. CASE buf' = buf
      BY <3>1
    <3>2. CASE buf' = Append(buf, logged + 1)
      <4>1. Frames \subseteq Nat
        BY DEF Frames
      <4>2. buf \in Seq(Nat) /\ logged + 1 \in Nat
        BY <1>0, <4>1, BufDomain, SeqMonotonic
      <4>3. DOMAIN buf' = 1..(Len(buf) + 1) /\ buf'[Len(buf) + 1] = logged + 1
            /\ \A i \in 1..Len(buf) : buf'[i] = buf[i]
        BY <3>2, <4>2, AppendProperties, LenProperties
      <4> QED BY <1>0, <4>3
    <3> QED BY <1>3, <2>1, <3>1, <3>2 DEF Log
  <2>4. \A i \in DOMAIN buf : i \in DOMAIN buf' /\ buf'[i] = buf[i]
    <3>1. CASE buf' = buf
      BY <3>1
    <3>2. CASE buf' = Append(buf, logged + 1)
      <4>1. Frames \subseteq Nat
        BY DEF Frames
      <4>2. buf \in Seq(Nat) /\ logged + 1 \in Nat
        BY <1>0, <4>1, BufDomain, SeqMonotonic
      <4>3. DOMAIN buf' = 1..(Len(buf) + 1) /\ \A i \in 1..Len(buf) : buf'[i] = buf[i]
        BY <3>2, <4>2, AppendProperties, LenProperties
      <4> QED BY <1>0, <4>3
    <3> QED BY <1>3, <2>1, <3>1, <3>2 DEF Log
  <2>5. KnownDone'
    <3> SUFFICES ASSUME NEW x \in Known, x.attempt \notin failed,
                        ~(\A i \in DOMAIN buf' : buf'[i] # x.frame)
                 PROVE  /\ flight # Idle /\ x.attempt = attempts
                        /\ \E i \in 1..flight.n : buf'[i] = x.frame
      BY <2>1 DEF KnownDone
    <3>1. x.frame # logged + 1
      BY <1>0, <1>2 DEF KnownOld
    <3>2. ~(\A i \in DOMAIN buf : buf[i] # x.frame)
      BY <2>3, <3>1
    <3>3. /\ flight # Idle /\ x.attempt = attempts
          /\ \E i \in 1..flight.n : buf[i] = x.frame
      BY <1>0, <3>2 DEF KnownDone
    <3>4. flight.n <= Len(buf)
      BY <1>0, <3>3 DEF TInv, FlightOK
    <3>5. 1..flight.n \subseteq DOMAIN buf
      BY <1>0, <3>4
    <3> QED BY <2>4, <3>3, <3>5
  <2> QED BY <1>0, <1>1, <2>1, <2>2, <2>5 DEF Order, Resent
<1>4. ASSUME NEW c \in Conns, Flush(c) PROVE Order'
  <2>1. /\ Known' \subseteq Known /\ logged' = logged /\ buf' = buf
        /\ attempts' = attempts + 1 /\ failed' = failed /\ flight = Idle
    BY <1>0, <1>4, LoggerKnown DEF Flush, SendFrame, LoggerStep, Idle
  <2>2. KnownOld'
    BY <1>0, <1>2, <2>1 DEF KnownOld
  <2>3. KnownDone'
    BY <1>0, <2>1 DEF KnownDone
  <2> QED BY <1>0, <1>1, <2>1, <2>2, <2>3 DEF Order, Resent
<1>5. CASE SendFrame
  <2>1. /\ Known' \subseteq Known \cup {NewCopy} /\ flight # Idle
        /\ SentOn(flight.on) + 1 \in 1..flight.n /\ SentOn(flight.on) + 1 \in DOMAIN buf
        /\ NewCopy.frame = buf[SentOn(flight.on) + 1] /\ NewCopy.attempt = attempts
    BY <1>0, <1>5, SendKnown
  <2>2. /\ logged' = logged /\ buf' = buf /\ attempts' = attempts /\ failed' = failed
        /\ flight'.n = flight.n
    BY <1>0, <1>5 DEF SendFrame, TInv, TypeOK
  <2>3. flight' # Idle
    <3>1. flight'.on = flight.on /\ flight.on # NoConn
      BY <1>0, <1>5, <2>1, PipelineAssumption DEF SendFrame, TInv, TypeOK, FlightOK
    <3> QED BY <3>1 DEF Idle
  <2>4. KnownOld'
    BY <1>0, <2>1, <2>2 DEF KnownOld, BufSorted
  <2>5. KnownDone'
    BY <1>0, <2>1, <2>2, <2>3 DEF KnownDone
  <2>6. Resent'
    <3> SUFFICES ASSUME NEW x \in Known', NEW y \in Known',
                        x.frame = y.frame, x.attempt < y.attempt
                 PROVE  x.attempt \in failed
      BY <2>2 DEF Resent
    <3>1. x \in Known
      <4>1. y.attempt <= attempts
        BY <1>0, <2>1 DEF KnownOld
      <4>2. CASE x = NewCopy
        <5>1. y.attempt \in Nat
          BY <1>0, <1>2, <2>1
        <5> QED BY <1>0, <2>1, <4>1, <4>2, <5>1
      <4> QED BY <2>1, <4>2
    <3>2. CASE y \in Known
      BY <1>0, <3>1, <3>2 DEF Resent
    <3>3. CASE y = NewCopy
      <4>1. x.attempt # attempts
        BY <1>0, <1>2, <2>1, <3>1, <3>3
      <4> QED BY <1>0, <2>1, <3>1, <3>3, <4>1 DEF KnownDone
    <3> QED BY <2>1, <3>2, <3>3
  <2> QED BY <1>1, <2>4, <2>5, <2>6 DEF Order
<1>6. CASE SendDone
  <2>1. /\ Known' \subseteq Known /\ logged' = logged /\ attempts' = attempts
        /\ failed' = failed /\ flight' = Idle /\ flight # Idle
        /\ buf' = SubSeq(buf, flight.n + 1, Len(buf)) /\ flight.n \in 0..Len(buf)
    BY <1>0, <1>6, LoggerKnown DEF SendDone, Sent, SendFrame, LoggerStep, TInv, FlightOK
  <2>2. /\ DOMAIN buf' = 1..(Len(buf) - flight.n)
        /\ \A i \in 1..(Len(buf) - flight.n) : buf'[i] = buf[flight.n + i]
    <3>1. buf' \in Seq(Frames) /\ Len(buf') = Len(buf) - flight.n
      BY <1>0, <2>1, Suffix, BufDomain
    <3> QED BY <1>0, <2>1, <3>1, Suffix, BufDomain, LenProperties
  <2>3. KnownDone'
    <3> SUFFICES ASSUME NEW x \in Known, x.attempt \notin failed,
                        NEW j \in DOMAIN buf', buf'[j] = x.frame
                 PROVE  FALSE
      BY <2>1 DEF KnownDone
    <3>1. j \in Nat /\ j >= 1 /\ flight.n + j \in DOMAIN buf /\ buf[flight.n + j] = x.frame
      BY <1>0, <2>1, <2>2
    <3>2. PICK i \in 1..flight.n : buf[i] = x.frame
      BY <1>0, <3>1 DEF KnownDone
    <3>3. i \in DOMAIN buf /\ i < flight.n + j
      BY <1>0, <2>1, <3>1
    <3>4. buf[i] < buf[flight.n + j]
      BY <1>0, <3>1, <3>3 DEF BufSorted
    <3> QED BY <1>0, <1>2, <3>1, <3>2, <3>4
  <2> QED BY <1>0, <1>1, <2>1, <2>3 DEF Order, KnownOld, Resent
<1>7. CASE SendFail
  <2>0. ~SendFrame
    <3> SUFFICES ASSUME SendFrame PROVE FALSE
      OBVIOUS
    <3>1. flight'.on = flight.on /\ flight.on # NoConn
      BY <1>0, <1>7, PipelineAssumption DEF SendFrame, SendFail, TInv, TypeOK, FlightOK
    <3> QED BY <1>7, <3>1 DEF SendFail, Idle
  <2>1. /\ Known' \subseteq Known /\ logged' = logged /\ attempts' = attempts
        /\ failed' = failed \cup {attempts} /\ buf' = buf
    BY <1>0, <1>7, <2>0, LoggerKnown DEF SendFail, LoggerStep
  <2>2. KnownDone'
    BY <1>0, <2>1 DEF KnownDone
  <2> QED BY <1>0, <1>1, <2>1, <2>2 DEF Order, KnownOld, Resent
<1> QED BY <1>3, <1>4, <1>5, <1>6, <1>7 DEF LoggerStep

LEMMA OrderInit == Init => OInv
<1> SUFFICES ASSUME Init PROVE OInv
  OBVIOUS
<1>1. Known = {}
  <2>1. \A c \in Conns : wire[c] = <<>>
    BY DEF Init
  <2>2. OnWire = {}
    BY <2>1, OnWireDef
  <2> QED BY <2>2 DEF Init, Known
<1>2. DOMAIN buf = {}
  BY DEF Init
<1>3. flight = Idle
  BY DEF Init
<1> QED BY <1>1, <1>2, <1>3, BooksInit
        DEF OInv, Order, BufSorted, RestOfBuf, KnownOld, KnownDone, Resent

LEMMA OrderStep ==
  ASSUME OInv, [Next]_vars
  PROVE  OInv'
<1>1. RInv /\ RInv' /\ TInv' /\ Order
  BY BooksStep DEF OInv, RInv
<1>2. CASE LoggerStep
  BY <1>1, <1>2, OrderLogger DEF OInv
<1>3. CASE ~LoggerStep
  <2>1. Known' \subseteq Known /\ UNCHANGED <<logged, buf, flight, attempts, failed>>
    BY <1>1, <1>3, NothingNew DEF logger
  <2>2. BufSorted' /\ RestOfBuf'
    BY <1>1, <2>1 DEF Order, BufSorted, RestOfBuf
  <2>3. KnownOld' /\ KnownDone' /\ Resent'
    BY <1>1, <2>1 DEF Order, KnownOld, KnownDone, Resent
  <2> QED BY <1>1, <2>2, <2>3 DEF OInv, Order
<1> QED BY <1>2, <1>3

\* A frame is settled twice only if the logger saw the earlier attempt fail
\* (socket.lua sends its whole buffer again after an error), for any number of
\* attempts, connections and frames.
THEOREM CopiesOnlyByResend == Spec => []DuplicatesOnlyByResend
<1>1. OInv => DuplicatesOnlyByResend
  BY DEF OInv, RInv, Books, Order, Resent, Known, DuplicatesOnlyByResend
<1> QED BY OrderInit, OrderStep, <1>1, PTL DEF Spec
-----------------------------------------------------------------------------
(***************************************************************************)
(* No loss.  A connection carries frames in ascending order, below those   *)
(* that may still be sent on it.  As long as nobody stopped the listener,  *)
(* a connection is closed on its side only behind a refused frame.         *)
(***************************************************************************)
Carriers == pool \cup (IF flight = Idle THEN {} ELSE {flight.on})

DoneClosed == \A c \in Conns : hnd[c] = "done" => wire[c] = <<>> /\ sock[c] = "closed"

CarriersOpen ==
  /\ \A c \in Carriers : ~eof[c]
  /\ flight # Idle => flight.on \notin pool

WireSorted ==
  \A c \in Conns : \A i, j \in DOMAIN wire[c] : i < j => wire[c][i].frame < wire[c][j].frame

WireBelowBuf ==
  \A c \in Carriers : \A i \in DOMAIN wire[c], j \in DOMAIN buf :
    j > SentOn(c) => wire[c][i].frame < buf[j]

WInv == OInv /\ DoneClosed /\ CarriersOpen /\ WireSorted /\ WireBelowBuf

Serving == main \in {"accept", "store", "spawn"} /\ closer = "wait" /\ ~term /\ lnOpen

ClosedDone == \A c \in Conns : sock[c] = "closed" => hnd[c] = "done"

Calm == Serving /\ ClosedDone

BehindRefused ==
  \A c \in Carriers : hnd[c] = "done" =>
    \E g \in Refused : g <= logged /\ \A j \in DOMAIN buf : j > SentOn(c) => g <= buf[j]

Covered(f) ==
  \/ \E x \in OnWire \cup InMemory \cup settled : x.frame = f
  \/ \E g \in Refused : g <= f

SentCovered == flight # Idle => \A i \in 1..SentOn(flight.on) : Covered(buf[i])

NInv ==
  /\ WInv
  /\ stops = 0 => Calm /\ BehindRefused /\ SentCovered /\ NoSilentLoss

LEMMA InFlight ==
  ASSUME TInv
  PROVE  /\ flight # Idle <=> flight.on # NoConn
         /\ Carriers \subseteq Conns
         /\ flight = Idle => \A c \in Conns : SentOn(c) = 0
         /\ \A c \in Conns : c # flight.on => SentOn(c) = 0
  BY PipelineAssumption DEF TInv, TypeOK, FlightOK, Idle, Carriers, SentOn

LEMMA DoneStep ==
  ASSUME TInv, DoneClosed, [Next]_vars
  PROVE  DoneClosed'
<1> USE DEF DoneClosed, logger, net, handlers, writers, control, history
<1>0. /\ wire \in [Conns -> Seq(Copies)] /\ sock \in [Conns -> {"open", "closed"}]
      /\ hnd \in [Conns -> {"backlog", "accepted", "read", "push", "done"}]
  BY DEF TInv, TypeOK
<1>1. CASE LoggerStep
  <2>1. ASSUME NEW c \in Conns, Flush(c) PROVE DoneClosed'
    BY <1>0, <2>1 DEF Flush, Reuse, Connect
  <2>2. CASE Log \/ SendDone \/ SendFail
    BY <2>2 DEF Log, SendDone, Sent, SendFail
  <2>3. CASE SendFrame
    <3>1. hnd' = hnd /\ sock' = sock /\ \A x \in Conns : sock[x] = "closed" => wire'[x] = wire[x]
      BY <1>0, <2>3 DEF SendFrame
    <3> QED BY <3>1
  <2> QED BY <1>1, <2>1, <2>2, <2>3 DEF LoggerStep
<1>2. CASE Control
  <2>1. ASSUME NEW c \in Conns, ReadRefused(c) \/ ReadEnd(c) PROVE DoneClosed'
    BY <1>0, <2>1 DEF ReadRefused, ReadEnd, Return
  <2>2. ASSUME NEW c \in Conns, RangeVisit(c) PROVE DoneClosed'
    <3>1. CASE sock[c] = "open"
      BY <1>0, <2>2, <3>1, ClosedTypes DEF RangeVisit, TInv
    <3> QED BY <1>0, <2>2, <3>1 DEF RangeVisit
  <2>3. CASE Spawn
    <3>1. cur \in Conns /\ hnd' = [hnd EXCEPT ![cur] = "read"]
      BY <2>3 DEF Spawn, TInv, MainOK
    <3>2. \A x \in Conns \ {cur} : wire'[x] = wire[x] /\ sock'[x] = sock[x]
      BY <2>3, <3>1, ClosedTypes DEF Spawn, TInv
    <3> QED BY <1>0, <3>1, <3>2
  <2>4. CASE CloseListener
    BY <1>0, <2>4 DEF CloseListener, ResetBacklog
  <2>5. CASE Store \/ CloseQueue \/ Signal \/ \E c \in Conns : Accept(c)
    BY <1>0, <2>5 DEF Store, CloseQueue, Signal, Accept
  <2> QED BY <1>2, <2>1, <2>2, <2>3, <2>4, <2>5 DEF Control
<1>3. ASSUME NEW c \in Conns, ReadFrame(c) \/ Push(c) PROVE DoneClosed'
  BY <1>0, <1>3 DEF ReadFrame, Push, Enqueue
<1>4. CASE (\E w \in Writers : Take(w) \/ ProcessFrame(w)) \/ Exit \/ Start \/ UNCHANGED vars
  BY <1>4 DEF Take, ProcessFrame, Exit, Start, vars
<1>5. CASE Kill
  BY <1>5 DEF Kill
<1> QED BY <1>1, <1>2, <1>3, <1>4, <1>5, Steps

\* Only the logger closes its side of a connection.
LEMMA EofStep ==
  ASSUME TInv, [Next]_vars, ~LoggerStep
  PROVE  UNCHANGED <<eof, logger>>
  BY Steps DEF Control, Accept, ReadRefused, ReadEnd, Return, RangeVisit, Store, Spawn,
     CloseQueue, CloseListener, Signal, ReadFrame, Push, Enqueue, Take, ProcessFrame, Exit,
     Kill, Start, vars, net

LEMMA CarriersStep ==
  ASSUME TInv, TInv', CarriersOpen, [Next]_vars
  PROVE  CarriersOpen'
<1>0. /\ eof \in [Conns -> BOOLEAN] /\ pool \subseteq Conns
      /\ flight # Idle => flight.on \in Conns
  BY DEF TInv, TypeOK, FlightOK
<1>1. CASE ~LoggerStep
  BY <1>1, EofStep DEF CarriersOpen, Carriers, logger
<1>2. CASE Log
  BY <1>2 DEF Log, net, CarriersOpen, Carriers
<1>3. ASSUME NEW c \in Conns, Flush(c) PROVE CarriersOpen'
  <2>1. flight = Idle /\ flight' # Idle /\ flight'.on = c
    BY <1>3, PipelineAssumption DEF Flush, Idle
  <2>2. CASE Reuse(c)
    BY <1>0, <2>1, <2>2 DEF Reuse, CarriersOpen, Carriers
  <2>3. CASE Connect(c)
    BY <1>0, <2>1, <2>3 DEF Connect, CarriersOpen, Carriers
  <2> QED BY <1>3, <2>2, <2>3 DEF Flush
<1>4. CASE SendFrame
  <2>1. flight # Idle /\ flight'.on = flight.on /\ pool' = pool /\ eof' = eof
    BY <1>4 DEF SendFrame, Idle, TInv, TypeOK
  <2> QED BY <2>1 DEF CarriersOpen, Carriers
<1>5. CASE SendDone
  <2>1. flight # Idle /\ flight' = Idle /\ pool' = pool \cup {flight.on} /\ eof' = eof
    BY <1>5 DEF SendDone, Sent, net
  <2> QED BY <2>1 DEF CarriersOpen, Carriers
<1>6. CASE SendFail
  <2>1. /\ flight # Idle /\ flight' = Idle /\ pool' = pool
        /\ eof' = [eof EXCEPT ![flight.on] = TRUE]
    BY <1>6 DEF SendFail
  <2> QED BY <1>0, <2>1 DEF CarriersOpen, Carriers
<1> QED BY <1>1, <1>2, <1>3, <1>4, <1>5, <1>6 DEF LoggerStep

\* A frame the logger may still send on c was one before, or is new.
LEMMA StillToSend ==
  ASSUME TInv, TInv', CarriersOpen, RestOfBuf, LoggerStep, NEW c \in Carriers'
  PROVE  \/ wire'[c] = <<>> /\ hnd'[c] # "done"
         \/ /\ c \in Carriers
            /\ \A j \in DOMAIN buf' : j > SentOn(c)' =>
                 \/ buf'[j] = logged + 1 /\ logged' = logged + 1
                 \/ \E k \in DOMAIN buf : k > SentOn(c) /\ buf'[j] = buf[k]
<1>0. /\ Len(buf) \in Nat /\ DOMAIN buf = 1..Len(buf) /\ flight.n \in Nat
      /\ Len(flight.rest) \in Nat /\ logged \in Nat /\ pool \subseteq Conns
      /\ buf \in Seq(Frames)
  BY BufDomain DEF TInv, TypeOK
<1>1. CASE Log
  <2>1. flight' = flight /\ pool' = pool /\ logged' = logged + 1
    BY <1>1 DEF Log
  <2>2. c \in Carriers /\ SentOn(c)' = SentOn(c)
    BY <2>1 DEF Carriers, SentOn
  <2>3. CASE buf' = buf
    BY <2>2, <2>3
  <2>4. CASE buf' = Append(buf, logged + 1)
    <3>1. Frames \subseteq Nat
      BY DEF Frames
    <3>2. buf \in Seq(Nat) /\ logged + 1 \in Nat
      BY <1>0, <3>1, BufDomain, SeqMonotonic
    <3>3. DOMAIN buf' = 1..(Len(buf) + 1) /\ buf'[Len(buf) + 1] = logged + 1
          /\ \A i \in 1..Len(buf) : buf'[i] = buf[i]
      BY <2>4, <3>2, AppendProperties, LenProperties
    <3>4. \A j \in DOMAIN buf' : j = Len(buf) + 1 \/ j \in 1..Len(buf)
      BY <1>0, <3>3
    <3> QED BY <1>0, <2>1, <2>2, <3>3, <3>4
  <2> QED BY <1>1, <2>1, <2>3, <2>4 DEF Log
<1>2. ASSUME NEW d \in Conns, Flush(d)
      PROVE  \/ wire'[c] = <<>> /\ hnd'[c] # "done"
             \/ c \in Carriers /\ buf' = buf /\ SentOn(c) = 0 /\ SentOn(c)' = 0
  <2>1. /\ flight = Idle /\ flight' = [on |-> d, rest |-> buf, n |-> Len(buf)]
        /\ buf' = buf /\ flight' # Idle
    BY <1>2, PipelineAssumption DEF Flush, Idle
  <2>2. CASE Connect(d)
    <3>1. c = d
      BY <2>1, <2>2 DEF Connect, Carriers
    <3> QED BY <2>2, <3>1 DEF Connect, TInv, TypeOK
  <2>3. CASE Reuse(d)
    <3>1. c \in pool
      BY <2>1, <2>3 DEF Reuse, Carriers
    <3>2. SentOn(c)' = 0
      BY <1>0, <2>1 DEF SentOn
    <3> QED BY <1>0, <2>1, <3>1, <3>2, InFlight DEF Carriers
  <2> QED BY <1>2, <2>2, <2>3 DEF Flush
<1>3. CASE SendFrame
  <2>1. /\ flight # Idle /\ flight'.on = flight.on /\ pool' = pool /\ buf' = buf
        /\ flight.on # NoConn
    BY <1>3, PipelineAssumption DEF SendFrame, Idle, TInv, TypeOK, FlightOK
  <2>2. flight' # Idle
    BY <2>1 DEF Idle
  <2>3. c \in Carriers
    BY <2>1, <2>2 DEF Carriers
  <2>4. SentOn(flight.on)' = SentOn(flight.on) + 1
    BY <1>3, SendKnown
  <2>5. SentOn(c)' \in Int /\ SentOn(c) \in Int /\ SentOn(c) <= SentOn(c)'
    <3>1. CASE c = flight.on
      <4>1. SentOn(c) \in Int
        BY <1>0 DEF SentOn
      <4>2. SentOn(c)' = SentOn(c) + 1
        BY <2>1, <2>4, <3>1 DEF SentOn
      <4> QED BY <4>1, <4>2
    <3>2. CASE c # flight.on
      BY <2>1, <3>2 DEF SentOn
    <3> QED BY <3>1, <3>2
  <2>6. \A j \in DOMAIN buf : j \in Int /\ (j > SentOn(c)' => j > SentOn(c))
    BY <1>0, <2>5
  <2> QED BY <2>1, <2>3, <2>6
<1>4. CASE SendDone
  <2>1. /\ buf' = SubSeq(buf, flight.n + 1, Len(buf)) /\ flight' = Idle /\ flight # Idle
        /\ flight.n \in 0..Len(buf) /\ pool' = pool \cup {flight.on} /\ flight.rest = <<>>
    BY <1>4 DEF SendDone, Sent, TInv, FlightOK
  <2>2. /\ DOMAIN buf' = 1..(Len(buf) - flight.n)
        /\ \A i \in 1..(Len(buf) - flight.n) : buf'[i] = buf[flight.n + i]
    <3>1. buf' \in Seq(Frames) /\ Len(buf') = Len(buf) - flight.n
      BY <1>0, <2>1, Suffix
    <3> QED BY <1>0, <2>1, <3>1, Suffix, LenProperties
  <2>3. c \in Carriers
    BY <2>1 DEF Carriers
  <2>4. SentOn(c) \in Int /\ SentOn(c) <= flight.n
    BY <1>0 DEF SentOn
  <2>5. SentOn(c)' = 0
    BY <2>1, <2>3, InFlight, PipelineAssumption DEF SentOn, Idle
  <2>6. ASSUME NEW j \in DOMAIN buf'
        PROVE  flight.n + j \in DOMAIN buf /\ flight.n + j > SentOn(c) /\ buf'[j] = buf[flight.n + j]
    BY <1>0, <2>1, <2>2, <2>4, <2>6
  <2> QED BY <2>3, <2>6
<1>5. CASE SendFail
  <2>1. flight' = Idle /\ flight # Idle /\ pool' = pool /\ buf' = buf
    BY <1>5 DEF SendFail
  <2>2. c \in pool /\ c # flight.on
    BY <2>1 DEF Carriers, CarriersOpen
  <2>3. SentOn(c) = 0 /\ SentOn(c)' = 0
    BY <1>0, <2>1, <2>2, InFlight, PipelineAssumption DEF SentOn, Idle
  <2> QED BY <2>1, <2>2, <2>3 DEF Carriers
<1> QED BY <1>1, <1>2, <1>3, <1>4, <1>5 DEF LoggerStep

LEMMA WireElements ==
  ASSUME TInv
  PROVE  /\ \A c \in Conns : \A i \in DOMAIN wire[c] : /\ i \in Nat /\ wire[c][i] \in OnWire
                                                       /\ wire[c][i].frame \in Nat
         /\ \A c \in Conns : /\ DOMAIN wire[c] = 1..Len(wire[c]) /\ Len(wire[c]) \in Nat
                             /\ wire[c] \in Seq(Copies)
<1>1. \A c \in Conns : /\ DOMAIN wire[c] = 1..Len(wire[c]) /\ Len(wire[c]) \in Nat
                       /\ wire[c] \in Seq(Copies)
  BY LenProperties DEF TInv, TypeOK
<1>2. \A c \in Conns : \A i \in DOMAIN wire[c] : i \in Nat /\ wire[c][i] \in OnWire
  BY <1>1, OnWireDef
<1> QED BY <1>1, <1>2, CopyFields DEF Known

\* What SendFrame does to the wires.
LEMMA SendWire ==
  ASSUME TInv, SendFrame, NEW c \in Conns
  PROVE  \/ wire'[c] = wire[c]
         \/ /\ c = flight.on
            /\ DOMAIN wire'[c] = 1..(Len(wire[c]) + 1)
            /\ \A i \in DOMAIN wire[c] : wire'[c][i] = wire[c][i]
            /\ wire'[c][Len(wire[c]) + 1] = NewCopy
<1>1. flight # Idle
  BY DEF SendFrame, Idle
<1>2. NewCopy \in Copies
  BY <1>1, HeadTail, BufDomain DEF SendFrame, NewCopy, Copies, TInv, TypeOK, FlightOK
<1>3. CASE wire'[c] = Append(wire[c], NewCopy) /\ c = flight.on
  BY <1>2, <1>3, WireElements, AppendProperties, LenProperties
<1> QED BY <1>3 DEF SendFrame, NewCopy, TInv, TypeOK

LEMMA SortedFactor ==
  ASSUME TInv, WireSorted, NEW c \in Conns, Factor(wire'[c], wire[c]),
         NEW i \in DOMAIN wire'[c], NEW j \in DOMAIN wire'[c], i < j, TInv'
  PROVE  wire'[c][i].frame < wire'[c][j].frame
<1>1. PICK k \in Nat : \A l \in DOMAIN wire'[c] : /\ l + k \in DOMAIN wire[c]
                                                  /\ wire'[c][l] = wire[c][l + k]
  BY DEF Factor
<1>2. i \in Int /\ j \in Int
  <2>1. wire'[c] \in Seq(Copies)
    BY DEF TInv, TypeOK
  <2> QED BY <2>1, LenProperties
<1>3. i + k < j + k
  BY <1>2
<1> QED BY <1>1, <1>3 DEF WireSorted

LEMMA WireStep ==
  ASSUME WInv, OInv', [Next]_vars
  PROVE  WireSorted' /\ WireBelowBuf'
<1>0. /\ TInv /\ TInv' /\ CarriersOpen /\ RestOfBuf /\ WireSorted /\ WireBelowBuf
      /\ KnownOld /\ BufSorted
  BY DEF WInv, OInv, RInv, Order
<1>1. /\ Len(buf) \in Nat /\ DOMAIN buf = 1..Len(buf) /\ logged \in Nat
      /\ \A j \in DOMAIN buf : buf[j] \in Nat
  BY <1>0, BufDomain
<1>2. CASE SendFrame
  <2>1. /\ flight # Idle /\ SentOn(flight.on) + 1 \in DOMAIN buf
        /\ NewCopy.frame = buf[SentOn(flight.on) + 1] /\ flight'.on = flight.on
        /\ SentOn(flight.on)' = SentOn(flight.on) + 1 /\ buf' = buf
    BY <1>0, <1>2, SendKnown DEF SendFrame, TInv, TypeOK
  <2>2. flight.on \in Carriers /\ flight.on \in Conns /\ SentOn(flight.on) \in Int
    BY <1>0, <1>1, <2>1, BufDomain DEF Carriers, TInv, FlightOK, SentOn
  <2>3. \A i \in DOMAIN wire[flight.on] : wire[flight.on][i].frame < NewCopy.frame
    BY <1>0, <2>1, <2>2 DEF WireBelowBuf
  <2>4. WireSorted'
    <3> SUFFICES ASSUME NEW c \in Conns, NEW i \in DOMAIN wire'[c], NEW j \in DOMAIN wire'[c],
                        i < j
                 PROVE  wire'[c][i].frame < wire'[c][j].frame
      BY DEF WireSorted
    <3>1. CASE wire'[c] = wire[c]
      BY <1>0, <3>1 DEF WireSorted
    <3>2. CASE /\ c = flight.on
               /\ DOMAIN wire'[c] = 1..(Len(wire[c]) + 1)
               /\ \A l \in DOMAIN wire[c] : wire'[c][l] = wire[c][l]
               /\ wire'[c][Len(wire[c]) + 1] = NewCopy
      <4>1. DOMAIN wire[c] = 1..Len(wire[c]) /\ Len(wire[c]) \in Nat
        BY <1>0, WireElements
      <4>2. i \in DOMAIN wire[c] /\ (j \in DOMAIN wire[c] \/ j = Len(wire[c]) + 1)
        BY <3>2, <4>1
      <4> QED BY <1>0, <2>3, <3>2, <4>2 DEF WireSorted
    <3> QED BY <1>0, <1>2, <3>1, <3>2, SendWire
  <2>5. WireBelowBuf'
    <3> SUFFICES ASSUME NEW c \in Carriers', NEW i \in DOMAIN wire'[c], NEW j \in DOMAIN buf',
                        j > SentOn(c)'
                 PROVE  wire'[c][i].frame < buf'[j]
      BY DEF WireBelowBuf
    <3>0. c \in Conns
      BY <1>0, <2>2, <2>1, <1>2 DEF Carriers, SendFrame, TInv, TypeOK
    <3>1. /\ c \in Carriers /\ j > SentOn(c) /\ j \in DOMAIN buf
      <4>1. CASE c = flight.on
        <5>1. SentOn(c)' = SentOn(c) + 1 /\ SentOn(c) \in Int /\ j \in Int
          BY <1>1, <2>1, <2>2, <4>1 DEF SentOn
        <5> QED BY <2>1, <2>2, <4>1, <5>1
      <4>2. CASE c # flight.on
        <5>1. SentOn(c)' = 0 /\ SentOn(c) = 0
          BY <2>1, <4>2 DEF SentOn
        <5>2. c \in pool
          BY <1>2, <2>1, <4>2 DEF SendFrame, Carriers
        <5> QED BY <2>1, <5>1, <5>2 DEF Carriers
      <4> QED BY <4>1, <4>2
    <3>2. CASE wire'[c] = wire[c]
      BY <1>0, <2>1, <3>1, <3>2 DEF WireBelowBuf
    <3>3. CASE /\ c = flight.on
               /\ DOMAIN wire'[c] = 1..(Len(wire[c]) + 1)
               /\ \A l \in DOMAIN wire[c] : wire'[c][l] = wire[c][l]
               /\ wire'[c][Len(wire[c]) + 1] = NewCopy
      <4>1. DOMAIN wire[c] = 1..Len(wire[c]) /\ Len(wire[c]) \in Nat
        BY <1>0, <3>0, WireElements
      <4>2. i \in DOMAIN wire[c] \/ i = Len(wire[c]) + 1
        BY <3>3, <4>1
      <4>3. CASE i \in DOMAIN wire[c]
        BY <1>0, <2>1, <3>1, <3>3, <4>3 DEF WireBelowBuf
      <4>4. CASE i = Len(wire[c]) + 1
        <5>1. SentOn(c)' = SentOn(flight.on) + 1
          BY <2>1, <3>3 DEF SentOn
        <5>2. SentOn(flight.on) + 1 < j
          BY <5>1
        <5> QED BY <1>0, <2>1, <3>1, <3>3, <4>4, <5>2 DEF BufSorted
      <4> QED BY <4>2, <4>3, <4>4
    <3> QED BY <1>0, <1>2, <3>0, <3>2, <3>3, SendWire
  <2> QED BY <2>4, <2>5
<1>3. CASE ~SendFrame
  <2>1. \A c \in Conns : Factor(wire'[c], wire[c])
    BY <1>0, <1>3, WireFactors
  <2>2. WireSorted'
    BY <1>0, <2>1, SortedFactor DEF WireSorted
  <2>3. WireBelowBuf'
    <3> SUFFICES ASSUME NEW c \in Carriers', NEW i \in DOMAIN wire'[c], NEW j \in DOMAIN buf',
                        j > SentOn(c)'
                 PROVE  wire'[c][i].frame < buf'[j]
      BY DEF WireBelowBuf
    <3>0. /\ c \in Carriers
          /\ \/ buf'[j] = logged + 1
             \/ \E k \in DOMAIN buf : k > SentOn(c) /\ buf'[j] = buf[k]
      <4>1. CASE LoggerStep
        <5>1. wire'[c] # <<>>
          OBVIOUS
        <5> QED BY <1>0, <4>1, <5>1, StillToSend
      <4>2. CASE ~LoggerStep
        <5>1. buf' = buf /\ SentOn(c)' = SentOn(c) /\ Carriers' = Carriers
          BY <1>0, <4>2, EofStep DEF logger, SentOn, Carriers
        <5> QED BY <5>1
      <4> QED BY <4>1, <4>2
    <3>1. c \in Conns
      BY <1>0, <3>0, InFlight
    <3>2. PICK l \in DOMAIN wire[c] : wire'[c][i] = wire[c][l]
      BY <2>1, <3>1 DEF Factor
    <3>3. wire[c][l].frame \in Nat /\ wire[c][l].frame <= logged
      BY <1>0, <3>1, <3>2, WireElements DEF KnownOld, Known
    <3>4. \A k \in DOMAIN buf : k > SentOn(c) => wire[c][l].frame < buf[k]
      BY <1>0, <3>0, <3>2 DEF WireBelowBuf
    <3> QED BY <1>1, <3>0, <3>2, <3>3, <3>4
  <2> QED BY <2>2, <2>3
<1> QED BY <1>2, <1>3

LEMMA WInit == Init => WInv
<1> SUFFICES ASSUME Init PROVE WInv
  OBVIOUS
<1>0. \A c \in Conns : wire[c] = <<>> /\ sock[c] = "closed"
  BY DEF Init
<1>a. DOMAIN <<>> = {}
  OBVIOUS
<1>1. \A c \in Conns : DOMAIN wire[c] = {} /\ wire[c] = <<>> /\ sock[c] = "closed"
  BY <1>0, <1>a, Zenon
<1>2. Carriers = {} /\ flight = Idle
  BY DEF Init, Carriers
<1> QED BY OrderInit, <1>1, <1>2 DEF WInv, DoneClosed, CarriersOpen, WireSorted, WireBelowBuf

LEMMA WStep ==
  ASSUME WInv, [Next]_vars
  PROVE  WInv'
<1>1. OInv /\ OInv' /\ TInv /\ TInv'
  BY OrderStep DEF WInv, OInv, RInv
<1> QED BY <1>1, DoneStep, CarriersStep, WireStep DEF WInv

\* Until the listener is stopped only these steps happen, and they keep calm.
LEMMA CalmStep ==
  ASSUME TInv, Calm, [Next]_vars, stops = 0, stops' = 0
  PROVE  /\ \/ UNCHANGED vars \/ LoggerStep \/ Store
            \/ Spawn /\ UNCHANGED <<wire, sock>>
            \/ \E c \in Conns : Accept(c) \/ ReadFrame(c) \/ ReadRefused(c) \/ ReadEnd(c) \/ Push(c)
            \/ \E w \in Writers : Take(w) \/ ProcessFrame(w)
         /\ Calm'
<1> USE DEF logger, net, handlers, writers, control, history, Calm, Serving
<1>0. /\ sock \in [Conns -> {"open", "closed"}]
      /\ hnd \in [Conns -> {"backlog", "accepted", "read", "push", "done"}]
  BY DEF TInv, TypeOK
<1>1. ~Signal /\ ~Kill
  BY DEF Signal, Kill
<1>2. ~Start /\ ~Exit /\ ~CloseQueue /\ ~CloseListener /\ \A c \in Conns : ~RangeVisit(c)
  BY DEF Start, Exit, CloseQueue, CloseListener, RangeVisit, Up
<1>3. Spawn => UNCHANGED <<wire, sock>>
  BY DEF Spawn
<1>4. \/ UNCHANGED vars \/ LoggerStep \/ Store
      \/ Spawn /\ UNCHANGED <<wire, sock>>
      \/ \E c \in Conns : Accept(c) \/ ReadFrame(c) \/ ReadRefused(c) \/ ReadEnd(c) \/ Push(c)
      \/ \E w \in Writers : Take(w) \/ ProcessFrame(w)
  BY <1>1, <1>2, <1>3, Steps DEF Control
<1>5. ASSUME NEW c \in Conns, Accept(c) \/ ReadFrame(c) \/ Push(c) PROVE ClosedDone'
  BY <1>0, <1>5 DEF Accept, ReadFrame, Push, Enqueue, ClosedDone
<1>6. ASSUME NEW c \in Conns, ReadRefused(c) \/ ReadEnd(c) PROVE ClosedDone'
  BY <1>0, <1>6 DEF ReadRefused, ReadEnd, Return, ClosedDone
<1>7. ASSUME NEW c \in Conns, Flush(c) PROVE ClosedDone'
  BY <1>0, <1>7 DEF Flush, Reuse, Connect, ClosedDone
<1>8. ASSUME Log \/ SendFrame \/ SendDone \/ SendFail PROVE ClosedDone'
  <2>1. sock' = sock /\ hnd' = hnd
    BY <1>8 DEF Log, SendFrame, SendDone, Sent, SendFail
  <2> QED BY <2>1 DEF ClosedDone
<1>9. ASSUME UNCHANGED vars \/ Store \/ \E w \in Writers : Take(w) \/ ProcessFrame(w)
      PROVE  ClosedDone'
  <2>1. sock' = sock /\ hnd' = hnd
    BY <1>9 DEF vars, Store, Take, ProcessFrame
  <2> QED BY <2>1 DEF ClosedDone
<1>10. ASSUME Spawn PROVE ClosedDone'
  <2>1. cur \in Conns /\ hnd[cur] = "accepted"
    BY <1>10 DEF Spawn, TInv, MainOK
  <2> QED BY <1>0, <1>10, <2>1 DEF Spawn, ClosedDone
<1>11. ClosedDone'
  BY <1>4, <1>5, <1>6, <1>7, <1>8, <1>9, <1>10 DEF LoggerStep
<1>12. UNCHANGED <<closer, term, lnOpen>>
  BY <1>4 DEF LoggerStep, Log, Flush, SendFrame, SendDone, Sent, SendFail, Store, Spawn, Accept,
     ReadFrame, ReadRefused, ReadEnd, Return, Push, Enqueue, Take, ProcessFrame, vars
<1>13. main' \in {"accept", "store", "spawn"}
  BY <1>4 DEF LoggerStep, Log, Flush, SendFrame, SendDone, Sent, SendFail, Store, Spawn, Accept,
     ReadFrame, ReadRefused, ReadEnd, Return, Push, Enqueue, Take, ProcessFrame, vars
<1>14. Serving'
  BY <1>12, <1>13, Zenon
<1> QED BY <1>4, <1>11, <1>14

\* A refused frame on the wire stands before all that are still behind it.
LEMMA HeadFirst ==
  ASSUME TInv, WireSorted, NEW c \in Conns, wire[c] # <<>>
  PROVE  /\ \A i \in DOMAIN wire[c] : Head(wire[c]).frame <= wire[c][i].frame
         /\ Head(wire[c]) = wire[c][1]
<1>1. 1 \in DOMAIN wire[c] /\ Head(wire[c]) = wire[c][1]
  BY WireElements, HeadTail
<1>2. \A i \in DOMAIN wire[c] : i = 1 \/ 1 < i
  BY WireElements
<1> QED BY <1>1, <1>2, WireElements DEF WireSorted

\* What is covered stays covered.
LEMMA CoveredStep ==
  ASSUME WInv, Calm, [Next]_vars, stops = 0, stops' = 0, NEW f, Covered(f)
  PROVE  Covered(f)'
<1>0. TInv /\ WireSorted /\ DoneClosed
  BY DEF WInv, OInv, RInv
<1>1. ASSUME OnWire \subseteq OnWire', InMemory \subseteq InMemory', settled' = settled
      PROVE  Covered(f)'
  BY <1>1 DEF Covered
<1>2. ASSUME wire' = wire PROVE OnWire' = OnWire
  BY <1>2 DEF OnWire
<1>3. CASE LoggerStep
  <2>1. InMemory' = InMemory /\ settled' = settled
    BY <1>0, <1>3, LoggerStill, StillMemory
  <2>2. CASE SendFrame
    <3>1. ASSUME NEW c \in Conns, NEW i \in DOMAIN wire[c]
          PROVE  i \in DOMAIN wire'[c] /\ wire'[c][i] = wire[c][i]
      <4>1. CASE wire'[c] = wire[c]
        BY <3>1, <4>1
      <4>2. CASE /\ DOMAIN wire'[c] = 1..(Len(wire[c]) + 1)
                 /\ \A l \in DOMAIN wire[c] : wire'[c][l] = wire[c][l]
        BY <1>0, <3>1, <4>2, WireElements
      <4> QED BY <1>0, <2>2, <4>1, <4>2, SendWire
    <3>2. OnWire \subseteq OnWire'
      BY <3>1, OnWireDef
    <3> QED BY <1>1, <2>1, <3>2
  <2>3. CASE Log \/ SendDone \/ SendFail
    <3>1. wire' = wire
      BY <2>3 DEF Log, SendDone, Sent, SendFail, net
    <3> QED BY <1>1, <1>2, <2>1, <3>1
  <2>4. ASSUME NEW c \in Conns, Flush(c) PROVE Covered(f)'
    <3>1. \A x \in Conns : wire'[x] = wire[x]
      BY <1>0, <2>4 DEF Flush, Reuse, Connect, TInv, TypeOK, DoneClosed
    <3>2. OnWire \subseteq OnWire'
      BY <3>1, OnWireDef
    <3> QED BY <1>1, <2>1, <3>2
  <2> QED BY <1>3, <2>2, <2>3, <2>4 DEF LoggerStep
<1>4. CASE UNCHANGED vars
  BY <1>4, <1>1 DEF vars, net, handlers, writers, history, OnWire, InMemory
<1>5. CASE Store \/ (Spawn /\ UNCHANGED <<wire, sock>>) \/ \E c \in Conns : Accept(c)
  <2>1. Control /\ wire' = wire
    BY <1>5 DEF Control, Store, Accept, net
  <2> QED BY <1>0, <1>1, <1>2, <2>1, ControlStill, StillMemory
<1>6. ASSUME NEW c \in Conns, ReadFrame(c) PROVE Covered(f)'
  <2>1. /\ wire[c] # <<>> /\ wire'[c] = Tail(wire[c]) /\ settled' = settled
        /\ \A x \in Conns \ {c} : wire'[x] = wire[x]
    BY <1>0, <1>6 DEF ReadFrame, TInv, TypeOK
  <2>2. InMemory' = InMemory \cup {Head(wire[c])}
    BY <1>0, <1>6, ReadMemory
  <2>3. /\ DOMAIN wire'[c] = 1..(Len(wire[c]) - 1)
        /\ \A i \in 1..(Len(wire[c]) - 1) : wire'[c][i] = wire[c][i + 1]
    <3>1. wire'[c] \in Seq(Copies) /\ Len(wire'[c]) = Len(wire[c]) - 1
      BY <1>0, <2>1, WireElements, HeadTail
    <3> QED BY <1>0, <2>1, <3>1, WireElements, HeadTail, LenProperties
  <2>4. ASSUME NEW i \in DOMAIN wire[c] PROVE wire[c][i] \in OnWire' \cup InMemory'
    <3>1. CASE i = 1
      BY <1>0, <2>1, <2>2, <3>1, HeadFirst
    <3>2. CASE i # 1
      <4>1. i - 1 \in 1..(Len(wire[c]) - 1) /\ (i - 1) + 1 = i
        BY <1>0, <2>4, <3>2, WireElements
      <4> QED BY <2>3, <4>1, OnWireDef
    <3> QED BY <3>1, <3>2
  <2>5. OnWire \subseteq OnWire' \cup InMemory'
    BY <2>1, <2>4, OnWireDef
  <2> QED BY <2>1, <2>2, <2>5 DEF Covered
<1>7. ASSUME NEW c \in Conns, ReadRefused(c) \/ ReadEnd(c) PROVE Covered(f)'
  <2>1. InMemory' = InMemory /\ settled' = settled
    BY <1>0, <1>7, ControlStill, StillMemory DEF Control
  <2>2. \A x \in Conns \ {c} : wire'[x] = wire[x]
    BY <1>0, <1>7 DEF ReadRefused, ReadEnd, Return, TInv, TypeOK
  <2>3. CASE wire[c] = <<>>
    <3>1. OnWire \subseteq OnWire'
      BY <2>2, <2>3, OnWireDef
    <3> QED BY <1>1, <2>1, <3>1
  <2>4. CASE wire[c] # <<>>
    <3>1. Head(wire[c]).frame \in Refused
      BY <1>7, <2>4 DEF ReadRefused, ReadEnd
    <3>2. ASSUME NEW i \in DOMAIN wire[c], wire[c][i].frame = f PROVE Covered(f)'
      <4>1. Head(wire[c]).frame <= wire[c][i].frame
        BY <1>0, <1>7, <2>4, <3>2, HeadFirst
      <4>2. Head(wire[c]).frame <= f
        BY <3>2, <4>1, Zenon
      <4> QED BY <3>1, <4>2 DEF Covered
    <3>3. ASSUME NEW x \in OnWire, x.frame = f PROVE Covered(f)'
      <4>1. PICK d \in Conns : \E i \in DOMAIN wire[d] : wire[d][i] = x
        BY <3>3, OnWireDef
      <4>2. CASE d = c
        BY <3>2, <3>3, <4>1, <4>2
      <4>3. CASE d # c
        <5>1. x \in OnWire'
          BY <2>2, <4>1, <4>3, OnWireDef
        <5> QED BY <3>3, <5>1 DEF Covered
      <4> QED BY <4>2, <4>3
    <3> QED BY <2>1, <3>3 DEF Covered
  <2> QED BY <2>3, <2>4
<1>8. ASSUME NEW c \in Conns, Push(c) PROVE Covered(f)'
  <2>1. wire' = wire /\ settled' = settled
    BY <1>8 DEF Push, Enqueue, net, history
  <2> QED BY <1>0, <1>1, <1>2, <1>8, <2>1, PushMemory
<1>9. ASSUME NEW w \in Writers, Take(w) PROVE Covered(f)'
  <2>1. wire' = wire /\ settled' = settled
    BY <1>9 DEF Take, net, history
  <2> QED BY <1>0, <1>1, <1>2, <1>9, <2>1, TakeMemory
<1>10. ASSUME NEW w \in Writers, ProcessFrame(w) PROVE Covered(f)'
  <2>1. wire' = wire /\ settled' = settled \cup {whold[w]}
    BY <1>10 DEF ProcessFrame, net
  <2> QED BY <1>0, <1>2, <1>10, <2>1, ProcessMemory DEF Covered
<1> QED BY <1>0, <1>3, <1>4, <1>5, <1>6, <1>7, <1>8, <1>9, <1>10, CalmStep

LEMMA BehindStep ==
  ASSUME WInv, WInv', Calm, BehindRefused, [Next]_vars, stops = 0, stops' = 0
  PROVE  BehindRefused'
<1>0. /\ TInv /\ TInv' /\ CarriersOpen /\ RestOfBuf /\ WireBelowBuf /\ KnownOld /\ BufSorted
      /\ ClosedDone
  BY DEF WInv, OInv, RInv, Order, Calm
<1>1. /\ Len(buf) \in Nat /\ DOMAIN buf = 1..Len(buf) /\ logged \in Nat
      /\ \A j \in DOMAIN buf : buf[j] \in Nat
  BY <1>0, BufDomain
<1> SUFFICES ASSUME NEW c \in Carriers', hnd'[c] = "done"
             PROVE  \E g \in Refused : /\ g <= logged'
                                       /\ \A j \in DOMAIN buf' : j > SentOn(c)' => g <= buf'[j]
  BY DEF BehindRefused
<1>2. CASE LoggerStep
  <2>1. /\ c \in Carriers
        /\ \A j \in DOMAIN buf' : j > SentOn(c)' =>
             \/ buf'[j] = logged + 1 /\ logged' = logged + 1
             \/ \E k \in DOMAIN buf : k > SentOn(c) /\ buf'[j] = buf[k]
    BY <1>0, <1>2, StillToSend
  <2>2. c \in Conns
    BY <1>0, <2>1, InFlight
  <2>3. hnd[c] = "done"
    <3>1. CASE Log \/ SendFrame \/ SendDone \/ SendFail
      BY <3>1 DEF Log, SendFrame, SendDone, Sent, SendFail, handlers
    <3>2. ASSUME NEW d \in Conns, Flush(d) PROVE hnd[c] = "done"
      BY <1>0, <2>2, <3>2 DEF Flush, Reuse, Connect, TInv, TypeOK
    <3> QED BY <1>2, <3>1, <3>2 DEF LoggerStep
  <2>4. PICK g \in Refused : g <= logged /\ \A j \in DOMAIN buf : j > SentOn(c) => g <= buf[j]
    BY <2>1, <2>3 DEF BehindRefused
  <2>5. g \in Nat /\ logged' \in Nat /\ logged <= logged'
    <3>1. logged' = logged \/ logged' = logged + 1
      BY <1>2 DEF LoggerStep, Log, Flush, SendFrame, SendDone, Sent, SendFail
    <3> QED BY <1>1, <2>4, <3>1, PipelineAssumption
  <2>6. \A j \in DOMAIN buf' : j > SentOn(c)' => g <= buf'[j]
    BY <1>1, <2>1, <2>4, <2>5
  <2>7. g <= logged'
    BY <1>1, <2>4, <2>5
  <2> QED BY <2>6, <2>7
<1>3. CASE ~LoggerStep
  <2>1. buf' = buf /\ SentOn(c)' = SentOn(c) /\ Carriers' = Carriers /\ logged' = logged
    BY <1>0, <1>3, EofStep DEF logger, SentOn, Carriers
  <2>2. CASE hnd[c] = "done"
    BY <2>1, <2>2 DEF BehindRefused
  <2>3. CASE hnd[c] # "done"
    <3>0. c \in Conns /\ c \in Carriers
      BY <1>0, <2>1, InFlight
    <3>1. ReadRefused(c) \/ ReadEnd(c)
      <4>0. hnd \in [Conns -> {"backlog", "accepted", "read", "push", "done"}]
        BY <1>0 DEF TInv, TypeOK
      <4>1. ASSUME NEW d \in Conns, ReadRefused(d) \/ ReadEnd(d) PROVE d = c
        BY <2>3, <3>0, <4>0, <4>1 DEF ReadRefused, ReadEnd, Return
      <4>2. ASSUME NEW d \in Conns, Accept(d) \/ ReadFrame(d) \/ Push(d) PROVE FALSE
        BY <2>3, <3>0, <4>0, <4>2 DEF Accept, ReadFrame, Push, Enqueue
      <4>3. ~Spawn
        BY <1>0, <2>3, <3>0, <4>0 DEF Spawn, TInv, MainOK
      <4>4. ~(UNCHANGED vars \/ Store \/ \E w \in Writers : Take(w) \/ ProcessFrame(w))
        BY <2>3 DEF vars, Store, Take, ProcessFrame, handlers
      <4> QED BY <1>0, <1>3, <4>1, <4>2, <4>3, <4>4, CalmStep
    <3>2. ~ReadEnd(c)
      BY <1>0, <3>0 DEF ReadEnd, CarriersOpen, ClosedDone
    <3>3. wire[c] # <<>> /\ Head(wire[c]).frame \in Refused
      BY <3>1, <3>2 DEF ReadRefused
    <3>4. 1 \in DOMAIN wire[c] /\ Head(wire[c]) = wire[c][1]
      BY <1>0, <3>0, <3>3, WireElements, HeadTail
    <3>5. wire[c][1].frame \in Nat /\ wire[c][1].frame <= logged
      BY <1>0, <3>0, <3>4, WireElements DEF KnownOld, Known
    <3>6. \A j \in DOMAIN buf : j > SentOn(c) => wire[c][1].frame <= buf[j]
      BY <1>0, <1>1, <3>0, <3>4, <3>5 DEF WireBelowBuf
    <3> QED BY <2>1, <3>3, <3>4, <3>5, <3>6
  <2> QED BY <2>2, <2>3
<1> QED BY <1>2, <1>3

LEMMA SentStep ==
  ASSUME WInv, WInv', Calm, BehindRefused, SentCovered, [Next]_vars, stops = 0, stops' = 0
  PROVE  SentCovered'
<1>0. /\ TInv /\ TInv' /\ RestOfBuf /\ ClosedDone
  BY DEF WInv, OInv, RInv, Order, Calm
<1>1. /\ Len(buf) \in Nat /\ DOMAIN buf = 1..Len(buf) /\ flight.n \in Nat
      /\ Len(flight.rest) \in Nat /\ logged \in Nat /\ buf \in Seq(Frames)
  BY <1>0, BufDomain
<1>2. \A f : Covered(f) => Covered(f)'
  BY CoveredStep
<1>3. ASSUME flight' = flight, flight # Idle, \A i \in 1..Len(buf) : buf'[i] = buf[i]
      PROVE  SentCovered'
  <2>1. SentOn(flight.on) <= Len(buf) /\ SentOn(flight.on) \in Int
    BY <1>0, <1>1, <1>3 DEF SentOn, TInv, FlightOK
  <2>2. \A i \in 1..SentOn(flight.on) : buf'[i] = buf[i] /\ Covered(buf[i])
    BY <1>1, <1>3, <2>1 DEF SentCovered
  <2>3. SentOn(flight.on)' = SentOn(flight.on)
    BY <1>3 DEF SentOn
  <2>4. ASSUME NEW i \in 1..SentOn(flight.on) PROVE Covered(buf[i])'
    <3>1. PICK g : g = buf[i]
      OBVIOUS
    <3>2. Covered(g)'
      BY <1>2, <2>2, <2>4, <3>1
    <3>3. buf'[i] = g
      BY <2>2, <2>4, <3>1
    <3> QED BY <3>2, <3>3 DEF Covered
  <2> QED BY <2>3, <2>4 DEF SentCovered
<1>4. CASE flight' = flight /\ flight = Idle
  BY <1>4 DEF SentCovered
<1>5. CASE ~LoggerStep
  <2>1. buf' = buf /\ flight' = flight
    BY <1>0, <1>5, EofStep DEF logger
  <2> QED BY <1>3, <1>4, <2>1
<1>6. CASE Log
  <2>1. flight' = flight
    BY <1>6 DEF Log
  <2>2. \A i \in 1..Len(buf) : buf'[i] = buf[i]
    <3>1. CASE buf' = buf
      BY <3>1
    <3>2. CASE buf' = Append(buf, logged + 1)
      <4>1. Frames \subseteq Nat
        BY DEF Frames
      <4>2. buf \in Seq(Nat) /\ logged + 1 \in Nat
        BY <1>0, <1>1, <4>1, BufDomain, SeqMonotonic
      <4> QED BY <3>2, <4>2, AppendProperties
    <3> QED BY <1>6, <3>1, <3>2 DEF Log
  <2> QED BY <1>3, <1>4, <2>1, <2>2
<1>7. ASSUME NEW c \in Conns, Flush(c) PROVE SentCovered'
  <2>1. SentOn(flight.on)' = 0
    BY <1>1, <1>7 DEF Flush, SentOn
  <2> QED BY <2>1 DEF SentCovered
<1>8. CASE SendDone \/ SendFail
  BY <1>8 DEF SendDone, Sent, SendFail, SentCovered
<1>9. CASE SendFrame
  <2>1. /\ flight # Idle /\ SentOn(flight.on) + 1 \in DOMAIN buf
        /\ NewCopy.frame = buf[SentOn(flight.on) + 1] /\ flight'.on = flight.on
        /\ SentOn(flight.on)' = SentOn(flight.on) + 1 /\ buf' = buf
    BY <1>0, <1>9, SendKnown DEF SendFrame, TInv, TypeOK
  <2>2. flight.on \in Carriers /\ flight.on \in Conns /\ SentOn(flight.on) \in Int
    BY <1>0, <1>1, <2>1 DEF Carriers, TInv, FlightOK, SentOn
  <2>3. PICK g : g = NewCopy.frame
    OBVIOUS
  <2>4. Covered(g)'
    <3>1. CASE sock[flight.on] = "open"
      <4>1. wire'[flight.on] = Append(wire[flight.on], NewCopy)
        BY <1>0, <1>9, <2>2, <3>1 DEF SendFrame, NewCopy, TInv, TypeOK
      <4>2. Len(wire[flight.on]) + 1 \in DOMAIN wire'[flight.on]
            /\ wire'[flight.on][Len(wire[flight.on]) + 1] = NewCopy
        <5>1. NewCopy \in Copies
          BY <1>0, <1>9, <2>1, HeadTail, BufDomain
             DEF SendFrame, NewCopy, Copies, TInv, TypeOK, FlightOK
        <5> QED BY <1>0, <2>2, <4>1, <5>1, WireElements, AppendProperties, LenProperties
      <4>3. NewCopy \in OnWire'
        BY <2>2, <4>2, OnWireDef
      <4> QED BY <2>3, <4>3 DEF Covered
    <3>2. CASE sock[flight.on] = "closed"
      <4>1. hnd[flight.on] = "done"
        BY <1>0, <2>2, <3>2 DEF ClosedDone
      <4>2. PICK h \in Refused : \A j \in DOMAIN buf : j > SentOn(flight.on) => h <= buf[j]
        BY <2>2, <4>1 DEF BehindRefused
      <4>3. h <= g
        BY <2>1, <2>2, <2>3, <4>2
      <4> QED BY <4>2, <4>3 DEF Covered
    <3> QED BY <1>0, <2>2, <3>1, <3>2 DEF TInv, TypeOK
  <2>5. ASSUME NEW i \in 1..(SentOn(flight.on) + 1) PROVE Covered(buf[i])'
    <3>1. PICK h : h = buf[i]
      OBVIOUS
    <3>2. i \in 1..SentOn(flight.on) \/ h = g
      BY <2>1, <2>2, <2>3, <2>5, <3>1
    <3>3. Covered(h)'
      BY <1>2, <2>1, <2>4, <3>1, <3>2 DEF SentCovered
    <3>4. buf'[i] = h
      BY <2>1, <3>1
    <3> QED BY <3>3, <3>4 DEF Covered
  <2> QED BY <2>1, <2>5 DEF SentCovered
<1> QED BY <1>5, <1>6, <1>7, <1>8, <1>9 DEF LoggerStep

LEMMA LossStep ==
  ASSUME WInv, WInv', Calm, BehindRefused, SentCovered, NoSilentLoss, [Next]_vars,
         stops = 0, stops' = 0
  PROVE  NoSilentLoss'
<1>0. /\ TInv /\ TInv' /\ RestOfBuf
  BY DEF WInv, OInv, RInv, Order
<1>1. /\ Len(buf) \in Nat /\ DOMAIN buf = 1..Len(buf) /\ flight.n \in Nat
      /\ logged \in Nat /\ buf \in Seq(Frames)
  BY <1>0, BufDomain
<1>2. \A f \in 1..logged : f \in dropped \/ (\E i \in DOMAIN buf : buf[i] = f) \/ Covered(f)
  BY DEF NoSilentLoss, Covered
<1>3. SUFFICES ASSUME NEW f \in 1..logged'
               PROVE  f \in dropped' \/ (\E i \in DOMAIN buf' : buf'[i] = f) \/ Covered(f)'
  BY <1>3 DEF NoSilentLoss, Covered
<1>4. Covered(f) => Covered(f)'
  BY CoveredStep
<1>5. CASE ~Log /\ ~SendDone
  <2>1. logged' = logged /\ buf' = buf /\ dropped' = dropped
    <3>1. CASE LoggerStep
      BY <1>5, <3>1 DEF LoggerStep, Flush, SendFrame, SendFail
    <3>2. CASE ~LoggerStep
      BY <1>0, <3>2, EofStep DEF logger
    <3> QED BY <3>1, <3>2
  <2> QED BY <1>2, <1>3, <1>4, <2>1
<1>6. CASE Log
  <2>1. logged' = logged + 1 /\ dropped \subseteq dropped'
    BY <1>6 DEF Log
  <2>2. f \in 1..logged \/ f = logged + 1
    BY <1>1, <1>3, <2>1
  <2>3. CASE buf' = buf /\ dropped' = dropped \cup {logged + 1}
    BY <1>2, <1>4, <2>2, <2>3
  <2>4. CASE buf' = Append(buf, logged + 1)
    <3>1. Frames \subseteq Nat
      BY DEF Frames
    <3>2. buf \in Seq(Nat) /\ logged + 1 \in Nat
      BY <1>0, <1>1, <3>1, BufDomain, SeqMonotonic
    <3>3. DOMAIN buf' = 1..(Len(buf) + 1) /\ buf'[Len(buf) + 1] = logged + 1
          /\ \A i \in 1..Len(buf) : buf'[i] = buf[i]
      BY <2>4, <3>2, AppendProperties, LenProperties
    <3>4. \A i \in DOMAIN buf : i \in DOMAIN buf' /\ buf'[i] = buf[i]
      BY <1>1, <3>3
    <3>5. Len(buf) + 1 \in DOMAIN buf'
      BY <1>1, <3>3
    <3> QED BY <1>2, <1>4, <2>1, <2>2, <3>3, <3>4, <3>5
  <2> QED BY <1>6, <2>1, <2>3, <2>4 DEF Log
<1>7. CASE SendDone
  <2>1. /\ buf' = SubSeq(buf, flight.n + 1, Len(buf)) /\ flight # Idle
        /\ flight.n \in 0..Len(buf) /\ flight.rest = <<>>
        /\ logged' = logged /\ dropped' = dropped
    BY <1>0, <1>7 DEF SendDone, Sent, TInv, FlightOK
  <2>2. /\ DOMAIN buf' = 1..(Len(buf) - flight.n)
        /\ \A i \in 1..(Len(buf) - flight.n) : buf'[i] = buf[flight.n + i]
    <3>1. buf' \in Seq(Frames) /\ Len(buf') = Len(buf) - flight.n
      BY <1>1, <2>1, Suffix
    <3> QED BY <1>1, <2>1, <3>1, Suffix, LenProperties
  <2>3. SentOn(flight.on) = flight.n
    <3>1. Len(flight.rest) = 0
      BY <2>1, EmptySeq
    <3> QED BY <1>1, <3>1 DEF SentOn
  <2>4. ASSUME NEW i \in DOMAIN buf, buf[i] = f
        PROVE  Covered(f) \/ \E k \in DOMAIN buf' : buf'[k] = f
    <3>1. CASE i <= flight.n
      <4>1. i \in 1..flight.n
        BY <1>1, <2>1, <2>4, <3>1
      <4> QED BY <2>1, <2>3, <2>4, <4>1 DEF SentCovered
    <3>2. CASE i > flight.n
      <4>1. i - flight.n \in 1..(Len(buf) - flight.n) /\ flight.n + (i - flight.n) = i
        BY <1>1, <2>1, <2>4, <3>2
      <4> QED BY <2>2, <2>4, <4>1
    <3> QED BY <1>1, <2>1, <3>1, <3>2
  <2> QED BY <1>2, <1>3, <1>4, <2>1, <2>4
<1> QED BY <1>5, <1>6, <1>7

LEMMA LossInit == Init => NInv
<1> SUFFICES ASSUME Init PROVE NInv
  OBVIOUS
<1>1. Serving
  BY DEF Init, Serving
<1>2. ClosedDone
  BY DEF Init, ClosedDone
<1>3. Carriers = {} /\ flight = Idle /\ 1..logged = {}
  BY DEF Init, Carriers
<1> QED BY <1>1, <1>2, <1>3, WInit DEF NInv, Calm, BehindRefused, SentCovered, NoSilentLoss

LEMMA LossInvStep ==
  ASSUME NInv, [Next]_vars
  PROVE  NInv'
<1>1. WInv /\ WInv' /\ TInv
  BY WStep DEF NInv, WInv, OInv, RInv
<1>2. stops' = 0 => stops = 0
  <2>0. stops \in Nat
    BY <1>1 DEF TInv, TypeOK
  <2>1. CASE LoggerStep
    BY <1>1, <2>1, LoggerStill
  <2>2. CASE Control
    BY <2>0, <2>2 DEF Control, Accept, ReadRefused, ReadEnd, Return, RangeVisit, Store, Spawn,
       CloseQueue, CloseListener, Signal, history
  <2>3. CASE (\E c \in Conns : ReadFrame(c) \/ Push(c)) \/ Exit \/ Start \/ UNCHANGED vars
    BY <2>3 DEF ReadFrame, Push, Enqueue, Exit, Start, vars, history
  <2>4. CASE (\E w \in Writers : Take(w) \/ ProcessFrame(w)) \/ Kill
    BY <2>0, <2>4 DEF Take, ProcessFrame, Kill, history
  <2> QED BY <1>1, <2>1, <2>2, <2>3, <2>4, Steps
<1>3. stops' = 0 => Calm' /\ BehindRefused' /\ SentCovered' /\ NoSilentLoss'
  BY <1>1, <1>2, CalmStep, BehindStep, SentStep, LossStep DEF NInv
<1> QED BY <1>1, <1>3 DEF NInv

\* No frame gets lost unnoticed while the listener is neither stopped nor
\* killed, however often the logger gives up and sends again, except behind a
\* frame readFrame refuses: for any number of frames, connections, writers and
\* attempts and any size of the queue.
THEOREM FramesKept == Spec => []NoSilentLoss
<1>1. NInv => NoSilentLoss
  BY DEF NInv, NoSilentLoss
<1> QED BY LossInit, LossInvStep, <1>1, PTL DEF Spec
=============================================================================
