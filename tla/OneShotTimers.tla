----------------------------- MODULE OneShotTimers ----------------------------
(***************************************************************************)
(* What the timer service promises its client (timing.h, and the engine's  *)
(* handling of timer ids): one timer per key; arming a key again replaces  *)
(* its timer; a timer that is neither replaced nor cancelled before its    *)
(* time is over is delivered once, never early, and deliveries are taken   *)
(* in the order in which the timers went off.  Nothing says how late.      *)
(***************************************************************************)
EXTENDS Naturals, Sequences

CONSTANTS TimerKeys, Ids, MaxDelay

VARIABLES
  armed,  \* per key the set of its timers: none or one, with the time left
  due     \* timers that went off and were not taken yet, oldest first

vars == <<armed, due>>

Init == armed = [k \in TimerKeys |-> {}] /\ due = <<>>

Known == {t.id : t \in UNION {armed[k] : k \in TimerKeys}} \union
         {due[i][2] : i \in DOMAIN due}

Arm(k, id, delay) ==
  /\ id \notin Known
  /\ armed' = [armed EXCEPT ![k] = {[id |-> id, left |-> delay]}]
  /\ UNCHANGED due

Disarm(k) == armed' = [armed EXCEPT ![k] = {}] /\ UNCHANGED due

GoOff(k) ==
  \E t \in armed[k] :
    /\ t.left = 0
    /\ armed' = [armed EXCEPT ![k] = {}]
    /\ due' = Append(due, <<k, t.id>>)

Take == due # <<>> /\ due' = Tail(due) /\ UNCHANGED armed

Stop == armed' = [k \in TimerKeys |-> {}] /\ UNCHANGED due
Drop == due' = <<>> /\ UNCHANGED armed

Older(t) == [t EXCEPT !.left = IF @ = 0 THEN 0 ELSE @ - 1]
Tick == armed' = [k \in TimerKeys |-> {Older(t) : t \in armed[k]}] /\ UNCHANGED due

Next ==
  \/ \E k \in TimerKeys :
       Disarm(k) \/ GoOff(k) \/ \E id \in Ids, delay \in 1..MaxDelay : Arm(k, id, delay)
  \/ Take \/ Stop \/ Drop \/ Tick

Spec == Init /\ [][Next]_vars
=============================================================================
