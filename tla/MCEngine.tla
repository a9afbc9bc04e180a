------------------------------- MODULE MCEngine -------------------------------
(* One axis and one target that stays active.  Timer ids are numbers: the  *)
(* least unused one is taken, and eight are enough for two keys, the queue *)
(* and everything that may still refer to an id.                           *)
EXTENDS Engine, TLC

CONSTANTS game

MCKeys == {"A", "D"}
MCOpposite == [k \in MCKeys |-> IF k = "A" THEN "D" ELSE "A"]
MCFavourite == [ax \in {MCKeys} |-> "D"]
MCTargets == {game}
MCTimerIds == 1..8
=============================================================================
