--------------------------------- MODULE MCExit --------------------------------
(* The owner and one other thread; the calls they make are shared out by a   *)
(* common bound.                                                             *)
EXTENDS Exit

CONSTANTS own, other

Both == {own, other}
JustOther == {other}
=============================================================================
