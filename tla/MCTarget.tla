-------------------------------- MODULE MCTarget -------------------------------
(* Two games and another window, a queue of one, and readers that may      *)
(* overlap every publication.                                              *)
EXTENDS TargetResolver

CONSTANTS g1, g2, other

MCGames == {g1, g2}
MCOther == {other}
MCValues == {g1, g2, NoTarget}
=============================================================================
