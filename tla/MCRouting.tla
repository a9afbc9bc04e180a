------------------------------- MODULE MCRouting ------------------------------
(* One axis and one target the user leaves and returns to.                 *)
EXTENDS InputRouting

CONSTANTS game

MCKeys == {"A", "D"}
MCOpposite == [k \in MCKeys |-> IF k = "A" THEN "D" ELSE "A"]
MCFavourite == [ax \in {MCKeys} |-> "D"]
MCTimerIds == 1..8
=============================================================================
