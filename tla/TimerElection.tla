--------------------------- MODULE TimerElection ---------------------------
(***************************************************************************)
(* Which worker runs a route's background timers (health probes, cluster   *)
(* average, adaptive_cc): the election at the end of register_route        *)
(* (lua/route.lua) through the entry __timer_alive_<route> of the shared   *)
(* dict lc_locks.                                                          *)
(*                                                                         *)
(* Time is counted in units of which TTL, RenewSec and RetrySec are        *)
(* multiples.  A worker that is not stalled runs its timers when they are  *)
(* due; a stalled one (a blocked event loop, a stopped process) runs       *)
(* nothing until it resumes, while the entry goes on ageing.               *)
(***************************************************************************)
EXTENDS Integers, FiniteSets

CONSTANTS
  Workers,    \* worker slots, old and new ones of a reload included
  TTL,        \* lifetime of the entry
  RenewSec,   \* period of the owner's renewal
  RetrySec,   \* period of the other workers' check
  MaxExits,   \* bound: workers that exit in a behaviour
  MaxStalls,  \* bound: stalls in a behaviour
  NoKey       \* the entry does not exist

ASSUME TimeAssumption ==
  /\ RenewSec \in Nat \ {0} /\ RetrySec \in Nat \ {0} /\ TTL \in Nat
  /\ 2 * RenewSec < TTL
ASSUME ElectionBoundAssumption ==
  /\ MaxExits \in Nat /\ MaxStalls \in Nat
  /\ NoKey \notin Nat

VARIABLES
  age,      \* time since the entry was written, or NoKey
  state,    \* worker -> dead, start (timer.at(0)), owner or waiting
  wait,     \* worker -> time until its renew or check_and_retry is due
  stalled,  \* the stalled workers
  exits, stalls,
  gap       \* history: time with a running worker and no owner

electionVars == <<age, state, wait, stalled, exits, stalls, gap>>

States == {"dead", "start", "owner", "waiting"}
Owners  == {w \in Workers : state[w] = "owner"}
Running == {w \in Workers : state[w] # "dead"} \ stalled
Due(w)  == w \in Running /\ (state[w] = "start" \/ wait[w] = 0)
MaxGap  == TTL + RetrySec + 1
-----------------------------------------------------------------------------
ElectionInit ==
  /\ age = NoKey
  /\ state \in [Workers -> {"dead", "start"}]
  /\ wait = [w \in Workers |-> 0]
  /\ stalled = {}
  /\ exits = 0 /\ stalls = 0
  /\ gap = 0

\* start_timers: lock:add succeeds only when there is no entry.
StartTimers(w) ==
  IF age = NoKey
    THEN /\ age' = 0
         /\ state' = [state EXCEPT ![w] = "owner"]
         /\ wait' = [wait EXCEPT ![w] = RenewSec]
         /\ gap' = 0
    ELSE /\ state' = [state EXCEPT ![w] = "waiting"]
         /\ wait' = [wait EXCEPT ![w] = RetrySec]
         /\ UNCHANGED <<age, gap>>

Start(w) ==
  /\ Due(w) /\ state[w] = "start"
  /\ StartTimers(w)
  /\ UNCHANGED <<stalled, exits, stalls>>

\* Variant: the renewal is not scheduled again.
RenewOnce(w) ==
  /\ Due(w) /\ state[w] = "owner"
  /\ age' = 0
  /\ wait' = [wait EXCEPT ![w] = MaxGap]
  /\ UNCHANGED <<state, stalled, exits, stalls, gap>>

\* The owner's renewal: lock:set, whatever the entry says.
Renew(w) ==
  /\ Due(w) /\ state[w] = "owner"
  /\ age' = 0
  /\ wait' = [wait EXCEPT ![w] = RenewSec]
  /\ UNCHANGED <<state, stalled, exits, stalls, gap>>

\* Variant: an expired entry is taken for a fresh one.
CheckAndRetryStaleOnly(w) ==
  /\ Due(w) /\ state[w] = "waiting"
  /\ IF age # NoKey /\ age > 2 * RenewSec
       THEN StartTimers(w)
       ELSE wait' = [wait EXCEPT ![w] = RetrySec] /\ UNCHANGED <<age, state, gap>>
  /\ UNCHANGED <<stalled, exits, stalls>>

\* The other workers' check: an absent or stale entry sends them back to
\* start_timers, where a stale one still makes lock:add fail.
CheckAndRetry(w) ==
  /\ Due(w) /\ state[w] = "waiting"
  /\ IF age = NoKey \/ age > 2 * RenewSec
       THEN StartTimers(w)
       ELSE wait' = [wait EXCEPT ![w] = RetrySec] /\ UNCHANGED <<age, state, gap>>
  /\ UNCHANGED <<stalled, exits, stalls>>
-----------------------------------------------------------------------------
\* Time passes once every worker that runs has served its due timers.
Pass ==
  /\ \A w \in Workers : ~Due(w)
  /\ age' = IF age = NoKey \/ age + 1 >= TTL THEN NoKey ELSE age + 1
  /\ wait' = [w \in Workers |-> IF wait[w] = 0 THEN 0 ELSE wait[w] - 1]
  /\ gap' = IF Owners # {} \/ Running = {} THEN 0
            ELSE IF gap < MaxGap THEN gap + 1 ELSE gap
  /\ UNCHANGED <<state, stalled, exits, stalls>>

\* A worker exits: its timers fire prematurely and do nothing, the entry
\* stays.
Exit(w) ==
  /\ state[w] # "dead" /\ exits < MaxExits
  /\ exits' = exits + 1
  /\ state' = [state EXCEPT ![w] = "dead"]
  /\ wait' = [wait EXCEPT ![w] = 0]
  /\ stalled' = stalled \ {w}
  /\ UNCHANGED <<age, stalls, gap>>

\* The master starts a worker (a respawn, or the new generation of a reload):
\* init_worker registers the route.
Spawn(w) ==
  /\ state[w] = "dead"
  /\ state' = [state EXCEPT ![w] = "start"]
  /\ UNCHANGED <<age, wait, stalled, exits, stalls, gap>>

Stall(w) ==
  /\ w \in Running /\ stalls < MaxStalls
  /\ stalls' = stalls + 1
  /\ stalled' = stalled \cup {w}
  /\ UNCHANGED <<age, state, wait, exits, gap>>

Resume(w) ==
  /\ w \in stalled
  /\ stalled' = stalled \ {w}
  /\ UNCHANGED <<age, state, wait, exits, stalls, gap>>

Timer(w) == Start(w) \/ Renew(w) \/ CheckAndRetry(w)

ElectionNext ==
  \/ Pass
  \/ \E w \in Workers : Timer(w) \/ Exit(w) \/ Spawn(w) \/ Stall(w) \/ Resume(w)

ElectionSpec == ElectionInit /\ [][ElectionNext]_electionVars
-----------------------------------------------------------------------------
ElectionTypeOK ==
  /\ age \in (0..(TTL - 1)) \cup {NoKey}
  /\ state \in [Workers -> States]
  /\ wait \in [Workers -> Nat]
  /\ stalled \in SUBSET Workers
  /\ exits \in 0..MaxExits
  /\ stalls \in 0..MaxStalls
  /\ gap \in 0..MaxGap

\* "One worker per route (elected through a shared-dict lock) probes each
\* peer": never two workers with running timers, until an event loop stalls.
\* A stalled owner can outlive its entry, and renew writes the entry without
\* looking at it, so that after a stall two owners may go on side by side.
AtMostOneOwner == stalls = 0 => \A v, w \in Owners : v = w

\* When the owner is gone, somebody takes over within TTL + RetrySec, as long
\* as any worker runs: with a clock that goes on, the timers never die for good.
TakeoverInTime == gap <= TTL + RetrySec
=============================================================================
