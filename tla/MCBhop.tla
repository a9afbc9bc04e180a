--------------------------------- MODULE MCBhop --------------------------------
(* Space and two targets: a sequence belongs to one while the other may be   *)
(* active.                                                                   *)
EXTENDS Bhop
=============================================================================
