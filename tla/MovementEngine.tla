---------------------------- MODULE MovementEngine ----------------------------
(***************************************************************************)
(* What the handlers of the movement engine do to its state, as operators  *)
(* from the state before to the state after.  Sources:                     *)
(* input_router.cpp, counterstrafe_controller.cpp, timer_lifecycle.cpp and *)
(* state_reconciliation.cpp under src/core.  The handlers run one at a     *)
(* time (s_operationMutex); each fills an injection batch (field "out")    *)
(* which the state machines that extend this module flush afterwards.      *)
(*                                                                         *)
(* An axis is the set of its two keys.  axisState of an axis is the set of *)
(* its keys it was computed from: {} is AxisState::None, a single key is   *)
(* Positive or Negative, the whole axis is Conflict.                       *)
(*                                                                         *)
(* Abstracted: times and durations (a timer fires at any moment after it   *)
(* is armed), and the velocity estimate, of which only the verdict of      *)
(* AutoCounterStrafe is kept (c.travel, below).                            *)
(***************************************************************************)
EXTENDS InjectionSlots, Naturals, SequencesExt

CONSTANTS
  Keys,       \* the movement keys
  Opposite,   \* keymap::Opposite
  TimerIds,   \* ids of ScheduleTimerUs; only equality of ids matters
  NoTimer,    \* the id 0
  NoKey

ASSUME KeysAssumption ==
  /\ Keys \subseteq Slots /\ IsFiniteSet(Keys) /\ NoKey \notin Keys
  /\ Opposite \in [Keys -> Keys]
  /\ \A k \in Keys : Opposite[k] # k /\ Opposite[Opposite[k]] = k

ASSUME TimerAssumption == NoTimer \notin TimerIds

AxisOf(k) == {k, Opposite[k]}
Axes == {AxisOf(k) : k \in Keys}
Modes == {"OFF", "FULL", "HUMANIZED"}
TimerRef == TimerIds \union {NoTimer}

(***************************************************************************)
(* phys, logical, native   phys[], logical[], nativeLogical[]              *)
(* axisState, last         axisState[], socdLastKey[]                      *)
(* expect, expectTarget    expectedTimerId[], expectedTimerTarget[]        *)
(* socd                    socdReleaseTimerId[]                            *)
(* armed                   id in the timer service's active slot, per key  *)
(* expired                 the timer service's expiry queue                *)
(* out                     events of the batch being built or flushed      *)
(***************************************************************************)
EngineState ==
  [phys : SUBSET Keys, logical : SUBSET Keys, native : SUBSET Keys,
   axisState : [Axes -> SUBSET Keys], last : [Axes -> Keys],
   expect : [Keys -> TimerRef], expectTarget : [Keys -> Identity],
   socd : [Axes -> TimerRef], suspended : BOOLEAN,
   armed : [Keys -> TimerRef], expired : Seq(Keys \X TimerIds),
   out : Seq([key : Keys, down : BOOLEAN])]

\* State's constructor; favourite(ax) is the compile-time default of
\* socdLastKey (D and W).
InitialEngine(favourite) ==
  [phys |-> {}, logical |-> {}, native |-> {},
   axisState |-> [ax \in Axes |-> {}], last |-> favourite,
   expect |-> [k \in Keys |-> NoTimer],
   expectTarget |-> [k \in Keys |-> NoTarget],
   socd |-> [ax \in Axes |-> NoTimer], suspended |-> FALSE,
   armed |-> [k \in Keys |-> NoTimer], expired |-> <<>>, out |-> <<>>]

(***************************************************************************)
(* c is what a handler reads besides the engine state:                     *)
(*   c.mode      rcfg::Get().socdMode                                      *)
(*   c.held      injection::HeldMovementMask()                             *)
(*   c.target    the batch's expectedTarget, c.active: is it active        *)
(*   c.travel    the key AutoCounterStrafe has to release after the swap   *)
(*               on the residual velocity, NoKey when the brake is 0       *)
(*   c.overlap   the profile's overlap_duration_us is positive             *)
(*   c.refused   keys whose ScheduleTimerUs returns 0 in this call         *)
(***************************************************************************)
Context ==
  [mode : Modes, held : SUBSET Keys, target : Identity, active : BOOLEAN,
   travel : Keys \union {NoKey}, overlap : BOOLEAN, refused : SUBSET Keys]

-----------------------------------------------------------------------------
(* The timer service as the engine uses it, and the batch.                 *)

IdsInUse(e) ==
  (UNION {{e.armed[k], e.expect[k], e.socd[AxisOf(k)]} : k \in Keys})
    \union {e.expired[i][2] : i \in DOMAIN e.expired}

\* Ids are never reused while anything still refers to them.
FreshId(e) == CHOOSE id \in TimerIds : id \notin IdsInUse(e)

ScheduleTimer(e, k) == [e EXCEPT !.armed[k] = FreshId(e)]
CancelTimer(e, k) == [e EXCEPT !.armed[k] = NoTimer]

Expect(e, k, t) == [e EXCEPT !.expect[k] = e.armed[k], !.expectTarget[k] = t]

\* CancelTimer, expectedTimerId = 0; Disarm also forgets the target.
StopExpecting(e, k) == [CancelTimer(e, k) EXCEPT !.expect[k] = NoTimer]
Disarm(e, k) == [StopExpecting(e, k) EXCEPT !.expectTarget[k] = NoTarget]
DisarmAll(e, S) ==
  [e EXCEPT !.armed        = [k \in Keys |-> IF k \in S THEN NoTimer ELSE @[k]],
            !.expect       = [k \in Keys |-> IF k \in S THEN NoTimer ELSE @[k]],
            !.expectTarget = [k \in Keys |-> IF k \in S THEN NoTarget ELSE @[k]]]

Event(k, down) == [key |-> k, down |-> down]

PressIfUp(e, k) ==
  IF k \in e.logical THEN e
  ELSE [e EXCEPT !.logical = @ \union {k}, !.out = Append(@, Event(k, TRUE))]

ReleaseIfDown(e, k) ==
  IF k \notin e.logical THEN e
  ELSE [e EXCEPT !.logical = @ \ {k}, !.out = Append(@, Event(k, FALSE))]

\* One event of the same kind for every key of S.
Events(S, down) ==
  LET keys == SetToSeq(S) IN [i \in DOMAIN keys |-> Event(keys[i], down)]

-----------------------------------------------------------------------------
(* counterstrafe_controller.cpp                                            *)

\* Fault: the engine trusts its own record of what it sent.
CommitNothing(e, held) == e

\* CommitLogicalStateFromInjection.
Commit(e, held) == [e EXCEPT !.logical = e.native \union (held \intersect Keys)]

TrackNativeMovement(e, c) ==
  LET native == IF ~e.suspended /\ c.active THEN e.phys ELSE {}
  IN  [e EXCEPT !.native = native,
                !.logical = native \union (c.held \intersect Keys)]

\* The keys of ax that a running overlap of HUMANIZED still holds.
InTransition(e, ax) ==
  {k \in ax : e.socd[ax] # NoTimer /\ e.expect[k] = e.socd[ax]}

CancelTransitions(e, A) ==
  [DisarmAll(e, UNION {InTransition(e, ax) : ax \in A})
     EXCEPT !.socd = [ax \in Axes |-> IF ax \in A THEN NoTimer ELSE @[ax]]]

CancelSocdTransition(e, ax) == CancelTransitions(e, {ax})

\* In OFF the key's native edge already reached the game: nothing to inject.
Engage(e, k, c) ==
  IF c.mode # "OFF" THEN PressIfUp(e, k)
                    ELSE [e EXCEPT !.logical = @ \union {k}]

\* Faults: the winner is pressed before the loser is released; the overlap is
\* kept though the timer was refused.
PressBeforeRelease(e, ax, press, c) ==
  LET winner == e.last[ax]
  IN  ReleaseIfDown(PressIfUp(DisarmAll(e, ax), winner), Opposite[winner])
OverlapUntimed(e, ax, press, c) ==
  LET winner == e.last[ax]
      loser  == Opposite[winner]
      idle   == DisarmAll(e, ax)
      timed  == IF loser \in c.refused THEN idle ELSE ScheduleTimer(idle, loser)
      kept   == [Expect(timed, loser, c.target) EXCEPT !.socd[ax] = timed.armed[loser]]
  IN  IF c.mode = "OFF" THEN idle
      ELSE PressIfUp(IF c.mode = "HUMANIZED" /\ press /\ loser \in e.logical
                     THEN kept ELSE ReleaseIfDown(idle, loser), winner)

\* Both keys physically down: last key wins.  HUMANIZED keeps the loser for
\* one overlap when its timer is admitted.
ResolveConflict(e, ax, press, c) ==
  LET winner  == e.last[ax]
      loser   == Opposite[winner]
      idle    == DisarmAll(e, ax)
      overlap == c.mode = "HUMANIZED" /\ press /\ loser \in e.logical
                   /\ loser \notin c.refused
      timed   == ScheduleTimer(idle, loser)
      kept    == [Expect(timed, loser, c.target) EXCEPT !.socd[ax] = timed.armed[loser]]
  IN  IF c.mode = "OFF" THEN idle
      ELSE PressIfUp(IF overlap THEN kept ELSE ReleaseIfDown(idle, loser), winner)

\* Fault: the void brake's timer goes but its key stays down.
CancelBrakeTimerOnly(e, opp) == StopExpecting(e, opp)

\* A brake on the key opposite to the one now pressed is void.
CancelStaleCounterStrafe(e, opp) ==
  LET stopped == StopExpecting(e, opp)
  IN  IF opp \in e.phys THEN stopped ELSE ReleaseIfDown(stopped, opp)

ResolveAxis(e, ax, press, c) ==
  LET before == e.axisState[ax]
      now    == e.phys \intersect ax
      moved  == [CancelSocdTransition(e, ax) EXCEPT !.axisState[ax] = now]
      only   == CHOOSE k \in now : TRUE
  IN  CASE now = before /\ ~(press /\ now = ax) -> e
        [] ~(now = before /\ ~(press /\ now = ax)) ->
             CASE now = ax -> ResolveConflict(moved, ax, press, c)
               [] now = {} -> moved
               [] now \notin {ax, {}} /\ before = ax -> Engage(moved, only, c)
               [] now \notin {ax, {}} /\ before # ax ->
                    CancelStaleCounterStrafe(moved, Opposite[only])

\* CalculateTrueBrakeUs said 0, or the guard of AutoCounterStrafe failed.
NoBrake(e, k, c) ==
  \/ AxisOf(k) \intersect e.phys # {} \/ e.suspended \/ ~c.active
  \/ c.travel = NoKey

\* A pair: did the brake start, and the state after.
AutoCounterStrafe(e, k, c) ==
  LET rel     == c.travel
      counter == Opposite[rel]
      overlap == c.overlap /\ rel \in e.logical
      first   == IF overlap THEN ScheduleTimer(e, rel) ELSE e
      both    == ScheduleTimer(first, counter)
      freed   == IF overlap THEN Expect(both, rel, c.target)
                 ELSE ReleaseIfDown([both EXCEPT !.expect[rel] = NoTimer], rel)
  IN  CASE NoBrake(e, k, c) \/ (overlap /\ rel \in c.refused) -> <<FALSE, e>>
        [] ~(NoBrake(e, k, c) \/ (overlap /\ rel \in c.refused))
             /\ counter \in c.refused ->
             <<FALSE, IF overlap THEN CancelTimer(first, rel) ELSE e>>
        [] ~(NoBrake(e, k, c) \/ (overlap /\ rel \in c.refused))
             /\ counter \notin c.refused ->
             <<TRUE, Expect(PressIfUp(freed, counter), counter, c.target)>>

-----------------------------------------------------------------------------
(* input_router.cpp                                                        *)

\* The timer service itself holds this key down as a brake.
MacroBrakePending(e, k) == k \in e.logical /\ e.expect[k] # NoTimer

TrackIfOff(e, c) == IF c.mode = "OFF" THEN TrackNativeMovement(e, c) ELSE e

HandleKeyDown(e, k, route, c) ==
  LET ax       == AxisOf(k)
      pressed  == [e EXCEPT !.phys = @ \union {k}, !.last[ax] = k]
      owned    == TrackIfOff(IF MacroBrakePending(pressed, k) THEN pressed
                             ELSE StopExpecting(pressed, k), c)
      resolved == ResolveAxis(owned, ax, TRUE, c)
  IN  CASE k \in e.phys               -> e
        [] k \notin e.phys /\ ~route  -> owned
        [] k \notin e.phys /\ route   ->
             IF resolved.axisState[ax] = ax THEN resolved ELSE Engage(resolved, k, c)

\* Fault: without a brake the key is not let go of.
KeyUpWithoutRelease(e, k, c) ==
  ResolveAxis(IF Opposite[k] \notin e.phys /\ ~MacroBrakePending(e, k)
              THEN AutoCounterStrafe(e, k, c)[2] ELSE e, AxisOf(k), FALSE, c)

\* The routed release of a key that was down.
RoutedKeyUp(e, k, c) ==
  LET brake == AutoCounterStrafe(e, k, c)
      after == CASE MacroBrakePending(e, k) -> <<TRUE, e>>
                 [] ~MacroBrakePending(e, k) /\ Opposite[k] \notin e.phys -> brake
                 [] ~MacroBrakePending(e, k) /\ Opposite[k] \in e.phys -> <<FALSE, e>>
  IN  ResolveAxis(IF after[1] THEN after[2] ELSE ReleaseIfDown(after[2], k),
                  AxisOf(k), FALSE, c)

HandleKeyUp(e, k, route, c) ==
  LET ax == AxisOf(k)
      up == TrackIfOff([CancelSocdTransition(e, ax) EXCEPT !.phys = @ \ {k}], c)
  IN  CASE k \notin e.phys -> IF route THEN ResolveAxis(e, ax, FALSE, c) ELSE e
        [] k \in e.phys    -> IF route THEN RoutedKeyUp(up, k, c) ELSE up

-----------------------------------------------------------------------------
(* timer_lifecycle.cpp                                                     *)

\* Fault: the id is compared with the slot, which is free again by now.
IsArmed(e, k, id) == e.armed[k] = id

\* The callback is for a timer the engine still waits for.
IsExpected(e, k, id) == e.expect[k] = id

OnTimerExpired(e, k, id, c) ==
  LET ax     == AxisOf(k)
      opp    == Opposite[k]
      socd   == e.socd[ax] = id
      taken  == [e EXCEPT !.expect[k] = NoTimer, !.expectTarget[k] = NoTarget]
      ended  == [taken EXCEPT !.socd[ax] = NoTimer]
      yields == c.mode = "HUMANIZED" /\ ~e.suspended /\ ax \subseteq e.phys
                  /\ e.last[ax] = opp
      freed  == IF k \in e.phys THEN taken ELSE ReleaseIfDown(taken, k)
      after  == CASE socd  -> IF yields THEN ReleaseIfDown(ended, k) ELSE ended
                  [] ~socd -> IF k \notin e.phys /\ opp \in e.phys
                              THEN PressIfUp(freed, opp) ELSE freed
  IN  IF ~IsExpected(e, k, id) THEN e
      ELSE [after EXCEPT !.axisState[ax] = e.phys \intersect ax]

-----------------------------------------------------------------------------
(* state_reconciliation.cpp                                                *)

\* Fault: timers are dropped, keys are forgotten and stay down.
LetGoOfNothing(e) ==
  [DisarmAll(e, Keys) EXCEPT
     !.socd = [ax \in Axes |-> NoTimer], !.axisState = [ax \in Axes |-> {}],
     !.native = {}, !.logical = {}]

\* ReconcileInternal(true): drop every timer, let go of every key.
LetGoOfAll(e) ==
  [DisarmAll(e, Keys) EXCEPT
     !.socd = [ax \in Axes |-> NoTimer], !.axisState = [ax \in Axes |-> {}],
     !.native = {}, !.logical = {},
     !.out = @ \o Events(e.logical, FALSE)]

Suspend(e) == LetGoOfAll([e EXCEPT !.suspended = TRUE])
Resume(e)  == [e EXCEPT !.suspended = FALSE]

\* Fault: the newer key is the one suppressed.
SuppressedNewest(e) ==
  {e.last[ax] : ax \in {a \in Axes : a \subseteq e.phys /\ e.socd[a] = NoTimer}}

\* The suppressed loser of a conflict that has no overlap running.
Suppressed(e) ==
  {Opposite[e.last[ax]] : ax \in {a \in Axes : a \subseteq e.phys /\ e.socd[a] = NoTimer}}

ArmedBrakes(e) ==
  {k \in e.logical : AxisOf(k) \intersect e.phys = {} /\ e.expect[k] # NoTimer}

\* Both axes in OFF, from AxisState::None.  They share no key, so both are
\* resolved at once: two keys of an axis lose their timers, a brake opposite
\* to a single one is void.
ResolveAxes(e) ==
  LET both == {k \in e.phys : Opposite[k] \in e.phys}
      void == {k \in Keys \ e.phys : Opposite[k] \in e.phys}
      calm == CancelTransitions(e, {ax \in Axes : ax \intersect e.phys # {}})
      idle == DisarmAll(calm, both \union void)
  IN  [idle EXCEPT
         !.expectTarget = [k \in Keys |-> IF k \in void THEN calm.expectTarget[k] ELSE @[k]],
         !.axisState    = [ax \in Axes |-> e.phys \intersect ax],
         !.logical      = @ \ void,
         !.out          = @ \o Events(void \intersect e.logical, FALSE)]

\* Releases go out before presses.
Restore(e, desired) ==
  [DisarmAll(e, e.logical \ desired) EXCEPT
     !.logical = desired,
     !.out = @ \o Events(e.logical \ desired, FALSE)
               \o Events(desired \ e.logical, TRUE)]

ReconcileLogicalStateFromPhysical(e, c) ==
  LET native  == TrackNativeMovement(e, c)
      calm    == CancelTransitions(e, {ax \in Axes : ~(ax \subseteq e.phys)})
      settled == [calm EXCEPT !.axisState = [ax \in Axes |-> e.phys \intersect ax]]
  IN  IF c.mode = "OFF"
      THEN ResolveAxes(native)
      ELSE Restore(settled, (e.phys \ Suppressed(settled)) \union ArmedBrakes(settled))

\* Fault: the rebuild records the keys without restoring the output.
RebuildRecords(e, physical, c) == [e EXCEPT !.phys = physical]

\* RebuildState, physical being the hook's ledger of physical edges.
RebuildState(e, physical, c) ==
  ReconcileLogicalStateFromPhysical([e EXCEPT !.phys = physical], c)
=============================================================================
