------------------------- MODULE MCMinuteAggregator -------------------------
(***************************************************************************)
(* Instances of MinuteAggregator for TLC: minutes 0 and 1, with midnight   *)
(* between them; minute 0 closes, is counted late and leaves the archive   *)
(* while minute 1 is open or reloaded.                                     *)
(***************************************************************************)
EXTENDS MinuteAggregator, TLC

CONSTANTS k1, k2

KeySymmetry == Permutations(Keys)
=============================================================================
