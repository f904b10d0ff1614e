---------------------------- MODULE MCAdmission ----------------------------
(***************************************************************************)
(* Instances of Admission for TLC.  Two requests on two or three peers:    *)
(* two in the top tier and a fallback peer below them, or a flat pool.     *)
(***************************************************************************)
EXTENDS Admission, TLC

CONSTANTS w1, w2, r1, r2, s1

PrioTwoTiers == <<1, 1, 0>>
PrioFlat     == <<0, 0, 0>>
PrioFlat2    == <<0, 0>>
PrioOne      == <<0>>
Max211       == <<2, 1, 1>>
Max11        == <<1, 1>>
Max1         == <<1>>

\* Session s1 ranks the peers 2, 1, 3.
HashS1 == s1 :> <<4, 7, 3>>
HashTwo == s1 :> <<4, 7>>
HashOne == s1 :> <<4>>

AllSession  == [r \in Requests |-> s1]
NoSession   == [r \in Requests |-> NoSid]
NoProbe     == [r \in Requests |-> FALSE]
\* r2 is a probe.
OneProbe    == [r \in Requests |-> r = r2]
FullShare   == [r \in Requests |-> 100]
\* r1 is a first turn with a part of the limit, the others are warm.
ColdShare    == [r \in Requests |-> IF r = r1 THEN 50 ELSE 100]
QuarterShare == [r \in Requests |-> IF r = r1 THEN 25 ELSE 100]

WorkerSymmetry == Permutations(Workers)
=============================================================================
