------------------------------ MODULE FrameSink ------------------------------
(***************************************************************************)
(* What the frame pipeline of bodylog-listener-go promises, without        *)
(* connections, queue or goroutines: a copy of a frame that was taken from *)
(* a socket is settled later (its line is written, or its failure is       *)
(* logged), and a listener that ends by itself has settled everything it   *)
(* took.  Only a kill may forget copies.                                   *)
(***************************************************************************)
CONSTANT Copies

VARIABLES accepted, settled, mode

vars == <<accepted, settled, mode>>

Init == accepted = {} /\ settled = {} /\ mode = "up"

Accept(x) ==
  /\ mode = "up" /\ x \notin accepted
  /\ accepted' = accepted \cup {x}
  /\ UNCHANGED <<settled, mode>>

Settle(x) ==
  /\ mode = "up" /\ x \in accepted
  /\ settled' = settled \cup {x}
  /\ UNCHANGED <<accepted, mode>>

Exit ==
  /\ mode = "up" /\ accepted \subseteq settled
  /\ mode' = "exited"
  /\ UNCHANGED <<accepted, settled>>

Kill ==
  /\ mode = "up"
  /\ mode' = "killed"
  /\ accepted' = settled
  /\ UNCHANGED settled

Start ==
  /\ mode # "up"
  /\ mode' = "up"
  /\ UNCHANGED <<accepted, settled>>

Next == (\E x \in Copies : Accept(x) \/ Settle(x)) \/ Exit \/ Kill \/ Start

Spec == Init /\ [][Next]_vars
=============================================================================
