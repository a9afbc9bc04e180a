-------------------------------- MODULE MCTimer -------------------------------
(* Two keys, so that a nearer timer can be set while the thread waits for  *)
(* another; ids for two slots, the spin copy, the queue and a new timer.   *)
EXTENDS Timer

(* Bound of the runs: one id is always unused.                             *)
ASSUME EnoughIds == Cardinality(Ids) >= Cardinality(TimerKeys) + 1 + MaxQueue
=============================================================================
