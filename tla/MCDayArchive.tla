---------------------------- MODULE MCDayArchive ----------------------------
(***************************************************************************)
(* Instances of DayArchive for TLC: two or three days of two hours.        *)
(***************************************************************************)
EXTENDS DayArchive, TLC

CONSTANTS e1, e2, e3

EntrySymmetry == Permutations(Entries)
=============================================================================
