------------------------------ MODULE ImageCell ------------------------------
(***************************************************************************)
(* What the launcher promises about the base image of its VM: there is     *)
(* none, or a whole one of a published version, replaced at once and only  *)
(* by a later version or the same; unless a download is begun while what a *)
(* cancelled one of an earlier version left is still at work.              *)
(***************************************************************************)
EXTENDS Naturals

CONSTANT Versions

VARIABLES image,   \* the version that is installed, 0 for none
          overlap  \* two downloads were at work at once

Init == image = 0 /\ overlap = FALSE
Install(v) == v >= image /\ image' = v /\ UNCHANGED overlap
Overlap == overlap' = TRUE /\ UNCHANGED image
Spoil == overlap /\ image' \in 0..(Versions + 1) /\ UNCHANGED overlap
Next == Overlap \/ Spoil \/ \E v \in 1..Versions : Install(v)
Spec == Init /\ [][Next]_<<image, overlap>>
=============================================================================
