------------------------------ MODULE MCInjection -----------------------------
(* Two slots and two targets, given in the cfg files: a slot held for one  *)
(* target while another is active, and a second slot whose down a pending  *)
(* release of the first must block.                                        *)
EXTENDS Injection
=============================================================================
